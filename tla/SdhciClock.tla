------------------------------ MODULE SdhciClock ------------------------------
(***************************************************************************)
(* The clock dividers of sdhci.c: what sdhci_calc_clk writes into          *)
(* SDHCI_CLOCK_CONTROL for a wanted clock, and what the controller makes   *)
(* of it.                                                                  *)
(*                                                                         *)
(* A board is the part of a host that is fixed once it is set up.  Clocks  *)
(* are in Hz; max_clk * clk_mul is an unsigned int in C and the boards are *)
(* those where it does not overflow.  PLL_EN is for v4 mode, which nothing *)
(* in this port turns on; SDHCI_QUIRK2_CLOCK_DIV_ZERO_BROKEN is no quirk   *)
(* of its platforms.                                                       *)
(***************************************************************************)
EXTENDS Integers

Spec200 == 1                               \* SDHCI_SPEC_200
Spec300 == 2                               \* SDHCI_SPEC_300
MaxDivSpec200 == 256
MaxDivSpec300 == 2046
MaxProgDiv == 1024                         \* programmable clock mode

\* The driver's loops stop at the first divider that is slow enough.
Least(S) == CHOOSE d \in S : \A e \in S : d <= e
FirstDiv(S, max, clock, otherwise) ==
  LET enough == {d \in S : max \div d <= clock}
  IN  IF enough = {} THEN otherwise ELSE Least(enough)

ProgDiv(b, clock) ==
  FirstDiv(1 .. MaxProgDiv, b.max_clk * b.clk_mul, clock, MaxProgDiv + 1)
ProgReaches(b, clock) ==
  b.clk_mul # 0 /\ (b.max_clk * b.clk_mul) \div ProgDiv(b, clock) <= clock

\* Version 3.00 divisors must be a multiple of 2, version 2.00 divisors a
\* power of 2.
EvenDivs == {d \in 2 .. MaxDivSpec300 - 2 : d % 2 = 0}
PowersOf2 == {1, 2, 4, 8, 16, 32, 64, 128}
BaseDiv(b, clock) ==
  IF b.version < Spec300
    THEN FirstDiv(PowersOf2, b.max_clk, clock, MaxDivSpec200)
    ELSE IF b.max_clk <= clock THEN 1
    ELSE FirstDiv(EvenDivs, b.max_clk, clock, MaxDivSpec300)

\* Mutant: the upper two bits of the divider are not written.
FieldLow(div) == div % 256

\* The divider field has ten bits: eight and, above them, two more.
Field(div) == div % 1024

\* The preset value of a timing, as the controller holds it: a divider field
\* and a bit that selects the programmable clock.
Preset(b, timing) == b.preset[timing]
PresetProg(b, timing) == b.clk_mul # 0 /\ Preset(b, timing).clkgen

\* sdhci_calc_clk: the divider field, the mode, and mmc->actual_clock.
CalcClk(b, preset_enabled, timing, clock) ==
  LET p == Preset(b, timing)
      prog == ProgReaches(b, clock)
      div == BaseDiv(b, clock)
  IN  IF b.version >= Spec300 /\ preset_enabled
        THEN IF PresetProg(b, timing)
               THEN [prog |-> TRUE, div |-> Field(p.div),
                     actual |-> (b.max_clk * b.clk_mul) \div (p.div + 1)]
               ELSE [prog |-> FALSE, div |-> Field(p.div),
                     actual |-> b.max_clk \div
                                  (IF p.div = 0 THEN 1 ELSE 2 * p.div)]
        ELSE IF b.version >= Spec300 /\ prog
        THEN [prog |-> TRUE, div |-> Field(ProgDiv(b, clock) - 1),
              actual |-> (b.max_clk * b.clk_mul) \div ProgDiv(b, clock)]
        ELSE [prog |-> FALSE, div |-> Field(div \div 2),
              actual |-> b.max_clk \div div]

\* External: the clock the controller derives from the register.
Wire(b, clk) ==
  IF clk.prog THEN (b.max_clk * b.clk_mul) \div (clk.div + 1)
  ELSE IF clk.div = 0 THEN b.max_clk
  ELSE b.max_clk \div (2 * clk.div)

\* The slowest clock the dividers reach; the setup tells it as mmc->f_min.
SlowestClk(b) ==
  b.max_clk \div (IF b.version < Spec300 THEN MaxDivSpec200
                                         ELSE MaxDivSpec300)

\* The programmable clock at divider 1025 is slow enough and at 1024 is not.
\* The search leaves its loop with 1025, takes it, and 1025 - 1 does not fit
\* the divider field.
InGap(b, clock) ==
  /\ b.version >= Spec300
  /\ b.clk_mul # 0
  /\ ProgDiv(b, clock) = MaxProgDiv + 1
  /\ ProgReaches(b, clock)

=============================================================================
