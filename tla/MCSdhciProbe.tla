---------------------------- MODULE MCSdhciProbe ----------------------------
(***************************************************************************)
(* An instance of SdhciProbe for TLC.                                      *)
(***************************************************************************)
EXTENDS SdhciProbe

Emmc == [compatible |-> TRUE, irq |-> TRUE, width |-> 4,
         dt |-> {"nonremovable"}]
Sd == [Emmc EXCEPT !.dt = {"cap-sd-highspeed", "no-1-8-v"}]
\* boards that say more than their lines can do
Wide == [Emmc EXCEPT !.width = 8,
                     !.dt = {"ddr_1_8v", "hs200_1_8v", "no-1-8-v"}]
Polled == [Emmc EXCEPT !.width = 1, !.dt = {"broken-cd", "auto-cmd12"}]

AllBoards == {Emmc, Sd, Wide, Polled, [Emmc EXCEPT !.compatible = FALSE],
              [Emmc EXCEPT !.irq = FALSE], [Emmc EXCEPT !.width = 3]}

Cv == [version |-> 5, timeout_clk |-> 1000, tuning_mode |-> 1, max_block |-> 0,
       can |-> {"sdma", "adma", "64bit", "highspeed", "sdr104", "sdr50"},
       ocr |-> {"330", "180"}, level |-> TRUE]
\* SDMA or nothing
Old == [Cv EXCEPT !.version = 0, !.can = {"sdma", "adma", "ddr50"},
                  !.max_block = 3]
Edge == [Cv EXCEPT !.can = {"sdma", "adma"}, !.tuning_mode = 3,
                   !.max_block = 2, !.level = FALSE]

AllControllers == {Cv, Old, Edge, [Cv EXCEPT !.timeout_clk = 0],
                   [Cv EXCEPT !.ocr = {}]}

AllScarce == {"host", "table", "bounce", "queue", "desc", "handler", "thread"}

=============================================================================
