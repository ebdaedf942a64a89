---------------------------- MODULE MCSdhciBus ----------------------------
(***************************************************************************)
(* Instances of SdhciBus for TLC.                                          *)
(***************************************************************************)
EXTENDS SdhciBus

\* Divider fields of preset values; those of faster modes are smaller.
Presets == [t \in {"LEGACY", "MMC_DDR52", "MMC_HS200"} |->
  CASE t = "MMC_DDR52" -> [div |-> 1, clkgen |-> FALSE]
    [] t = "MMC_HS200" -> [div |-> 0, clkgen |-> TRUE]
    [] OTHER -> [div |-> 250, clkgen |-> FALSE]]

CvSd == [ops |-> "sd", version |-> 4, max_clk |-> 375000000, clk_mul |-> 0,
         preset |-> Presets, preset_broken |-> TRUE, removable |-> TRUE,
         cap8 |-> FALSE, sdr50_tuning |-> FALSE]
CvEmmc == [CvSd EXCEPT !.ops = "emmc", !.removable = FALSE, !.cap8 = TRUE]

\* a controller with presets and a programmable clock, and an old one
Programmable == [CvSd EXCEPT !.ops = "generic", !.version = 2,
                   !.max_clk = 50000000, !.clk_mul = 8,
                   !.preset_broken = FALSE, !.removable = FALSE]
Old == [CvSd EXCEPT !.ops = "generic", !.version = 1, !.max_clk = 50000000]

AllBoards == {CvSd, CvEmmc, Programmable, Old}
Emmc == {CvEmmc}

SomeClocks == {200000000}
TwoClocks == {400000, 200000000}
AllWidths == {1, 4, 8}
AllTimings == {"LEGACY", "MMC_DDR52", "MMC_HS200"}
TwoTimings == {"LEGACY", "MMC_HS200"}

=============================================================================
