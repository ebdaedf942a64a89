-------------------------- MODULE SdhciClock_proofs --------------------------
(***************************************************************************)
(* Proofs about the two algorithms under SdhciBus, for any values: the     *)
(* clock dividers, for any controller and any clock, and the search for a  *)
(* sampling tap, for any number of taps and any of them bad.               *)
(*                                                                         *)
(* The search is a recursive function.  That it satisfies its equation,    *)
(* and what it computes, is shown by induction in the form of Induction    *)
(* below, which is about a set of naturals, so that the provers can use it.*)
(***************************************************************************)
EXTENDS SdhciClock, TapSearch, WellFoundedInduction, TLAPS

-----------------------------------------------------------------------------
(* The clock dividers *)

\* A board as the setup of the host leaves it: a base clock, and a multiplier
\* that is 0 where there is no programmable clock.
Board(b) ==
  /\ b.version \in Nat /\ b.max_clk \in Nat \ {0} /\ b.clk_mul \in Nat

\* Every set of naturals that is not empty has a least member.
LEMMA LeastIs ==
  ASSUME NEW S \in SUBSET Nat, S # {}
  PROVE  \E s \in S : \A y \in S : s <= y
<1> DEFINE below == {ss \in Nat \X Nat : ss[1] < ss[2]}
<1>1. IsWellFoundedOn(below, Nat)
  BY NatLessThanWellFounded DEF OpToRel
<1> HIDE DEF below
<1>2. PICK m \in S : \A y \in S : ~(<<y, m>> \in below)
  BY <1>1, WFMin
<1>3. \A y \in S : m <= y
  <2>1. SUFFICES ASSUME NEW y \in S, y < m PROVE FALSE
    OBVIOUS
  <2>2. <<y, m>> \in below
    BY <2>1 DEF below
  <2>3. QED
    BY <1>2, <2>2
<1>4. QED
  BY <1>3

LEMMA LeastExists ==
  ASSUME NEW S \in SUBSET Nat, S # {}
  PROVE  Least(S) \in S
BY LeastIs DEF Least

\* The search of the driver ends with a divider that is slow enough, or with
\* the one its loop runs out with.
LEMMA FirstDivFound ==
  ASSUME NEW S \in SUBSET Nat, NEW max \in Nat, NEW clock \in Nat,
         NEW otherwise
  PROVE  LET d == FirstDiv(S, max, clock, otherwise)
         IN  \/ d \in S /\ max \div d <= clock
             \/ d = otherwise
<1> DEFINE enough == {d \in S : max \div d <= clock}
<1>1. CASE enough = {}
  BY <1>1 DEF FirstDiv
<1>2. CASE enough # {}
  <2>1. Least(enough) \in enough
    BY <1>2, LeastExists
  <2>2. FirstDiv(S, max, clock, otherwise) = Least(enough)
    BY <1>2 DEF FirstDiv
  <2> QED
    BY <2>1, <2>2
<1> QED
  BY <1>1, <1>2

\* A product of naturals is one: the programmable clock.
LEMMA ProgClock ==
  ASSUME NEW b, Board(b)
  PROVE  b.max_clk * b.clk_mul \in Nat
BY DEF Board

LEMMA ProgDivFound ==
  ASSUME NEW b, Board(b), NEW clock \in Nat
  PROVE  LET d == ProgDiv(b, clock)
         IN  \/ /\ d \in 1 .. MaxProgDiv
                /\ (b.max_clk * b.clk_mul) \div d <= clock
             \/ d = MaxProgDiv + 1
<1>1. b.max_clk * b.clk_mul \in Nat
  BY ProgClock
<1>2. 1 .. MaxProgDiv \in SUBSET Nat
  BY DEF MaxProgDiv
<1>3. QED
  BY <1>1, <1>2, FirstDivFound DEF ProgDiv

LEMMA ProgDivRange ==
  ASSUME NEW b, Board(b), NEW clock \in Nat
  PROVE  ProgDiv(b, clock) \in 1 .. MaxProgDiv + 1
<1> DEFINE d == ProgDiv(b, clock)
<1>1. d \in 1 .. MaxProgDiv \/ d = MaxProgDiv + 1
  BY ProgDivFound
<1> HIDE DEF d
<1>2. d \in 1 .. MaxProgDiv + 1
  BY <1>1 DEF MaxProgDiv
<1> QED
  BY <1>2 DEF d

\* The divider of the base clock and how the register names it.  The slowest
\* one is taken if none is slow enough.
LEMMA BaseDivFound ==
  ASSUME NEW b, Board(b), NEW clock \in Nat
  PROVE  LET d == BaseDiv(b, clock)
         IN  /\ d \in Nat \ {0}
             /\ clock >= SlowestClk(b) => b.max_clk \div d <= clock
             /\ d = 1 \/ (d % 2 = 0 /\ d <= MaxDivSpec300)
<1>0. b.max_clk \in Nat
  BY DEF Board
<1>1. CASE b.version < Spec300
  <2>1. BaseDiv(b, clock) = FirstDiv(PowersOf2, b.max_clk, clock, MaxDivSpec200)
    BY <1>1 DEF BaseDiv
  <2>2. PowersOf2 \in SUBSET Nat
    BY DEF PowersOf2
  <2>3. \/ /\ BaseDiv(b, clock) \in PowersOf2
           /\ b.max_clk \div BaseDiv(b, clock) <= clock
        \/ BaseDiv(b, clock) = MaxDivSpec200
    BY <1>0, <2>1, <2>2, FirstDivFound
  <2>4. clock >= SlowestClk(b) => b.max_clk \div MaxDivSpec200 <= clock
    BY <1>1 DEF SlowestClk
  <2>5. clock >= SlowestClk(b) => b.max_clk \div BaseDiv(b, clock) <= clock
    BY <2>3, <2>4
  <2> HIDE DEF BaseDiv
  <2>6. BaseDiv(b, clock) \in {1, 2, 4, 8, 16, 32, 64, 128, 256}
    BY <2>3 DEF PowersOf2, MaxDivSpec200
  <2> QED
    BY <2>5, <2>6 DEF MaxDivSpec300
<1>2. CASE ~(b.version < Spec300) /\ b.max_clk <= clock
  <2>1. BaseDiv(b, clock) = 1
    BY <1>2 DEF BaseDiv
  <2> HIDE DEF BaseDiv
  <2>2. \A m \in Nat : m \div 1 = m
    OBVIOUS
  <2>3. b.max_clk \div BaseDiv(b, clock) <= clock
    BY <1>0, <1>2, <2>1, <2>2
  <2> QED
    BY <2>1, <2>3
<1>3. CASE ~(b.version < Spec300) /\ ~(b.max_clk <= clock)
  <2>1. BaseDiv(b, clock) = FirstDiv(EvenDivs, b.max_clk, clock, MaxDivSpec300)
    BY <1>3 DEF BaseDiv
  <2>2. EvenDivs \in SUBSET Nat
    <3>1. \A k \in EvenDivs : k \in Nat
      BY SMT DEF EvenDivs, MaxDivSpec300
    <3>2. QED
      BY <3>1
  <2>3. \/ /\ BaseDiv(b, clock) \in EvenDivs
           /\ b.max_clk \div BaseDiv(b, clock) <= clock
        \/ BaseDiv(b, clock) = MaxDivSpec300
    BY <1>0, <2>1, <2>2, FirstDivFound
  <2>4. clock >= SlowestClk(b) => b.max_clk \div MaxDivSpec300 <= clock
    BY <1>3 DEF SlowestClk
  <2>5. clock >= SlowestClk(b) => b.max_clk \div BaseDiv(b, clock) <= clock
    BY <2>3, <2>4
  <2>6. /\ BaseDiv(b, clock) \in 2 .. 2046
        /\ BaseDiv(b, clock) % 2 = 0
    <3>1. \A d \in EvenDivs : d \in 2 .. 2046 /\ d % 2 = 0
      BY SMT DEF EvenDivs, MaxDivSpec300
    <3>2. MaxDivSpec300 \in 2 .. 2046 /\ MaxDivSpec300 % 2 = 0
      BY SMT DEF MaxDivSpec300
    <3> DEFINE d == BaseDiv(b, clock)
    <3> HIDE DEF d
    <3>3. d \in EvenDivs \/ d = MaxDivSpec300
      BY <2>3 DEF d
    <3>4. d \in 2 .. 2046 /\ d % 2 = 0
      <4>1. CASE d \in EvenDivs
        BY <3>1, <4>1
      <4>2. CASE d = MaxDivSpec300
        BY <3>2, <4>2
      <4> QED
        BY <3>3, <4>1, <4>2
    <3>5. QED
      BY <3>4 DEF d
  <2> DEFINE d == BaseDiv(b, clock)
  <2> HIDE DEF d
  <2>7. /\ d \in 2 .. 2046 /\ d % 2 = 0
        /\ clock >= SlowestClk(b) => b.max_clk \div d <= clock
    BY <2>5, <2>6 DEF d
  <2>8. d \in Nat \ {0} /\ d <= MaxDivSpec300
    BY <2>7 DEF MaxDivSpec300
  <2> QED
    BY <2>7, <2>8 DEF d
<1> QED
  BY <1>1, <1>2, <1>3

\* Halving an even divider and doubling it again loses nothing, and the half
\* fits the field.
LEMMA EvenField ==
  ASSUME NEW d \in Nat \ {0}, d % 2 = 0, d <= MaxDivSpec300
  PROVE  /\ Field(d \div 2) # 0
         /\ 2 * Field(d \div 2) = d
<1>1. d \div 2 \in 1 .. 1023 /\ 2 * (d \div 2) = d
  BY DEF MaxDivSpec300
<1>2. Field(d \div 2) = d \div 2
  BY <1>1 DEF Field
<1>3. QED
  BY <1>1, <1>2

LEMMA Quotient ==
  ASSUME NEW m \in Nat, NEW d \in Nat \ {0}
  PROVE  m \div d \in Nat /\ m \div 1 = m
OBVIOUS

\* A preset is in the registers of the controller, whose divider has ten bits.
PresetDiv(b, timing) == Preset(b, timing).div \in 0 .. 1023

\* What is written fits the register, and says the same clock as what is
\* reported.
Told(b, clock, c) ==
  /\ c.prog \in BOOLEAN /\ c.div \in 0 .. 1023 /\ c.actual \in Nat
  /\ ~InGap(b, clock) => c.actual = Wire(b, c)

LEMMA TellsProg ==
  ASSUME NEW b, NEW clock, NEW c, c.prog = TRUE,
         c.div \in 0 .. 1023, c.actual \in Nat,
         ~InGap(b, clock) => c.actual = Wire(b, c)
  PROVE  Told(b, clock, c)
<1>1. c.prog \in BOOLEAN
  BY Zenon
<1> QED
  BY <1>1, Zenon DEF Told

LEMMA TellsBase ==
  ASSUME NEW b, NEW clock, NEW c, c.prog = FALSE,
         c.div \in 0 .. 1023, c.actual \in Nat, c.actual = Wire(b, c)
  PROVE  Told(b, clock, c)
<1>1. c.prog \in BOOLEAN
  BY Zenon
<1> QED
  BY <1>1, Zenon DEF Told

LEMMA ProgWire ==
  ASSUME NEW b, NEW c, c.prog = TRUE
  PROVE  Wire(b, c) = (b.max_clk * b.clk_mul) \div (c.div + 1)
BY DEF Wire

LEMMA BaseWire ==
  ASSUME NEW b, Board(b), NEW c, c.prog = FALSE, c.div \in 0 .. 1023,
         NEW d \in Nat, c.div = 0 => d = 1, c.div # 0 => 2 * c.div = d
  PROVE  Wire(b, c) = b.max_clk \div d
<1>1. b.max_clk \div 1 = b.max_clk
  BY Quotient DEF Board
<1>2. CASE c.div = 0
  BY <1>1, <1>2 DEF Wire
<1>3. CASE c.div # 0
  BY <1>3 DEF Wire
<1> QED
  BY <1>2, <1>3

\* The divider fits its field, and the clock that is reported is the one on
\* the wire, but in the gap behind the last programmable divider: with preset
\* values or without, and however slow the clock asked for (sdhci_calc_clk).
THEOREM ClockReported ==
  ASSUME NEW b, Board(b), NEW preset_enabled, NEW timing, PresetDiv(b, timing),
         NEW clock \in Nat
  PROVE  Told(b, clock, CalcClk(b, preset_enabled, timing, clock))
<1> DEFINE c == CalcClk(b, preset_enabled, timing, clock)
           fast == b.max_clk * b.clk_mul
<1>0. fast \in Nat /\ b.max_clk \in Nat
  BY ProgClock DEF Board
<1>1. CASE b.version >= Spec300 /\ preset_enabled
  <2> DEFINE p == Preset(b, timing).div
  <2>1. p \in 0 .. 1023
    BY DEF PresetDiv
  <2>2. CASE PresetProg(b, timing)
    <3> DEFINE q == fast \div (p + 1)
    <3>1. c = [prog |-> TRUE, div |-> Field(p), actual |-> q]
      BY <1>1, <2>2 DEF CalcClk
    <3> HIDE DEF c, p, fast
    <3>2. Field(p) = p /\ p + 1 \in Nat \ {0}
      BY <2>1 DEF Field
    <3>3. q \in Nat
      BY <1>0, <3>2, Quotient
    <3> HIDE DEF q
    <3>4. c.prog = TRUE
      BY <3>1
    <3>5. c.div = p /\ c.actual = q
      BY <3>1, <3>2
    <3>6. Wire(b, c) = q
      BY <3>4, <3>5, ProgWire DEF q, fast
    <3>7. c.div \in 0 .. 1023 /\ c.actual \in Nat /\ c.actual = Wire(b, c)
      BY <2>1, <3>3, <3>5, <3>6
    <3>8. Told(b, clock, c)
      BY <3>4, <3>7, TellsProg, Zenon
    <3> QED
      BY <3>8 DEF c
  <2>3. CASE ~PresetProg(b, timing)
    <3> DEFINE d == IF p = 0 THEN 1 ELSE 2 * p
               q == b.max_clk \div d
    <3>1. c = [prog |-> FALSE, div |-> Field(p), actual |-> q]
      BY <1>1, <2>3 DEF CalcClk
    <3> HIDE DEF c, p, fast
    <3>2. /\ Field(p) = p /\ d \in Nat \ {0}
          /\ (p = 0 => d = 1) /\ (p # 0 => 2 * p = d)
      BY <2>1 DEF Field
    <3> HIDE DEF d
    <3>3. q \in Nat
      BY <1>0, <3>2, Quotient
    <3> HIDE DEF q
    <3>4. c.prog = FALSE
      BY <3>1
    <3>5. c.div = p /\ c.actual = q
      BY <3>1, <3>2
    <3>6. Wire(b, c) = q
      <4>1. /\ c.div \in 0 .. 1023 /\ d \in Nat
            /\ (c.div = 0 => d = 1) /\ (c.div # 0 => 2 * c.div = d)
        BY <2>1, <3>2, <3>5
      <4> QED
        BY <3>4, <4>1, BaseWire, Zenon DEF q
    <3>7. c.div \in 0 .. 1023 /\ c.actual \in Nat /\ c.actual = Wire(b, c)
      BY <2>1, <3>3, <3>5, <3>6
    <3>8. Told(b, clock, c)
      BY <3>4, <3>7, TellsBase, Zenon
    <3> QED
      BY <3>8 DEF c
  <2> QED
    BY <2>2, <2>3
<1>2. CASE ~(b.version >= Spec300 /\ preset_enabled)
           /\ b.version >= Spec300 /\ ProgReaches(b, clock)
  <2> DEFINE d == ProgDiv(b, clock)
             div == Field(d - 1)
             q == fast \div d
  <2>1. c = [prog |-> TRUE, div |-> div, actual |-> q]
    BY <1>2 DEF CalcClk
  <2>2. d \in 1 .. MaxProgDiv + 1
    BY ProgDivRange
  <2>3. ~InGap(b, clock) => d # MaxProgDiv + 1
    BY <1>2 DEF InGap, ProgReaches
  <2> HIDE DEF c, d, fast
  <2>4. d \in Nat \ {0} /\ div \in 0 .. 1023
    BY <2>2 DEF Field, MaxProgDiv
  <2>5. d # MaxProgDiv + 1 => div + 1 = d
    BY <2>2 DEF Field, MaxProgDiv
  <2> HIDE DEF div
  <2>6. q \in Nat
    BY <1>0, <2>4, Quotient
  <2> HIDE DEF q
  <2>7. c.prog = TRUE
    BY <2>1
  <2>8. c.div = div /\ c.actual = q
    BY <2>1
  <2>9. div + 1 = d => Wire(b, c) = q
    BY <2>7, <2>8, ProgWire DEF q, fast
  <2>10. c.div \in 0 .. 1023 /\ c.actual \in Nat
    BY <2>4, <2>6, <2>8
  <2>11. ~InGap(b, clock) => c.actual = Wire(b, c)
    BY <2>3, <2>5, <2>8, <2>9
  <2>12. Told(b, clock, c)
    BY <2>7, <2>10, <2>11, TellsProg, Zenon
  <2> QED
    BY <2>12 DEF c
<1>3. CASE ~(b.version >= Spec300 /\ preset_enabled)
           /\ ~(b.version >= Spec300 /\ ProgReaches(b, clock))
  <2> DEFINE d == BaseDiv(b, clock)
             div == Field(d \div 2)
             q == b.max_clk \div d
  <2>1. c = [prog |-> FALSE, div |-> div, actual |-> q]
    BY <1>3 DEF CalcClk
  <2>2. /\ d \in Nat \ {0}
        /\ d = 1 \/ (d % 2 = 0 /\ d <= MaxDivSpec300)
    BY BaseDivFound
  <2> HIDE DEF c, d, fast
  <2>3. div \in 0 .. 1023
    BY <2>2 DEF Field
  <2>4. ASSUME d = 1 PROVE div = 0
    <3>1. 1 \div 2 = 0 /\ Field(0) = 0
      BY DEF Field
    <3> QED
      BY <2>4, <3>1
  <2>5. ASSUME d % 2 = 0, d <= MaxDivSpec300
        PROVE  div # 0 /\ 2 * div = d
    BY <2>2, <2>5, EvenField
  <2> HIDE DEF div
  <2>6. (div = 0 => d = 1) /\ (div # 0 => 2 * div = d)
    BY <2>2, <2>4, <2>5
  <2>7. q \in Nat
    BY <1>0, <2>2, Quotient
  <2> HIDE DEF q
  <2>8. c.prog = FALSE
    BY <2>1
  <2>9. c.div = div /\ c.actual = q
    BY <2>1
  <2>10. Wire(b, c) = q
    <3>1. /\ c.div \in 0 .. 1023 /\ d \in Nat
          /\ (c.div = 0 => d = 1) /\ (c.div # 0 => 2 * c.div = d)
      BY <2>2, <2>3, <2>6, <2>9
    <3> QED
      BY <2>8, <3>1, BaseWire DEF q
  <2>11. c.div \in 0 .. 1023 /\ c.actual \in Nat /\ c.actual = Wire(b, c)
    BY <2>3, <2>7, <2>9, <2>10
  <2>12. Told(b, clock, c)
    BY <2>8, <2>11, TellsBase
  <2> QED
    BY <2>12 DEF c
<1> QED
  BY <1>1, <1>2, <1>3

\* Without preset values, the clock on the wire and the clock that is reported
\* are at most the clock asked for, unless it is below the slowest one or in
\* the gap behind the last programmable divider (sdhci_calc_clk).
THEOREM ClockNotFaster ==
  ASSUME NEW b, Board(b), NEW timing, NEW clock \in Nat,
         clock >= SlowestClk(b), ~InGap(b, clock)
  PROVE  LET c == CalcClk(b, FALSE, timing, clock)
         IN  Wire(b, c) <= clock /\ c.actual = Wire(b, c)
<1> DEFINE c == CalcClk(b, FALSE, timing, clock)
           fast == b.max_clk * b.clk_mul
<1>1. SUFFICES Wire(b, c) <= clock /\ c.actual = Wire(b, c)
  OBVIOUS
<1>2. CASE b.version >= Spec300 /\ ProgReaches(b, clock)
  <2> DEFINE d == ProgDiv(b, clock)
  <2>1. c = [prog |-> TRUE, div |-> Field(d - 1), actual |-> fast \div d]
    BY <1>2 DEF CalcClk
  <2>2. d # MaxProgDiv + 1
    BY <1>2 DEF InGap, ProgReaches
  <2>3. d \in 1 .. MaxProgDiv /\ fast \div d <= clock
    BY <2>2, ProgDivFound
  <2> HIDE DEF c, d, fast
  <2>4. Field(d - 1) + 1 = d
    BY <2>3 DEF Field, MaxProgDiv
  <2>5. Wire(b, c) = fast \div d
    BY <2>1, <2>4 DEF Wire, fast
  <2> QED
    BY <2>1, <2>3, <2>5
<1>3. CASE ~(b.version >= Spec300 /\ ProgReaches(b, clock))
  <2> DEFINE d == BaseDiv(b, clock)
  <2>1. c = [prog |-> FALSE, div |-> Field(d \div 2),
             actual |-> b.max_clk \div d]
    BY <1>3 DEF CalcClk
  <2>2. /\ d \in Nat \ {0} /\ b.max_clk \div d <= clock
        /\ d = 1 \/ (d % 2 = 0 /\ d <= MaxDivSpec300)
    BY BaseDivFound
  <2>3. b.max_clk \in Nat
    BY DEF Board
  <2> HIDE DEF c, d
  <2>4. CASE d = 1
    <3>1. Field(d \div 2) = 0 /\ b.max_clk \div d = b.max_clk
      BY <2>3, <2>4 DEF Field
    <3>2. Wire(b, c) = b.max_clk
      BY <2>1, <3>1 DEF Wire
    <3> QED
      BY <2>1, <2>2, <3>1, <3>2
  <2>5. CASE d % 2 = 0 /\ d <= MaxDivSpec300
    <3>1. Field(d \div 2) # 0 /\ 2 * Field(d \div 2) = d
      BY <2>2, <2>5, EvenField
    <3>2. Wire(b, c) = b.max_clk \div d
      BY <2>1, <3>1 DEF Wire
    <3> QED
      BY <2>1, <2>2, <3>2
  <2> QED
    BY <2>2, <2>4, <2>5
<1>4. QED
  BY <1>2, <1>3

\* In the gap the divider 1025 is written as 0: the card gets the undivided
\* programmable clock, while a clock no faster than asked is reported.
THEOREM GapIsUndivided ==
  ASSUME NEW b, Board(b), NEW timing, NEW clock \in Nat, InGap(b, clock)
  PROVE  LET c == CalcClk(b, FALSE, timing, clock)
         IN  /\ Wire(b, c) = b.max_clk * b.clk_mul
             /\ c.actual <= clock
<1> DEFINE c == CalcClk(b, FALSE, timing, clock)
           fast == b.max_clk * b.clk_mul
<1>1. SUFFICES Wire(b, c) = fast /\ c.actual <= clock
  OBVIOUS
<1>2. c = [prog |-> TRUE, div |-> Field(MaxProgDiv),
           actual |-> fast \div (MaxProgDiv + 1)]
  BY DEF InGap, CalcClk, MaxProgDiv
<1>3. Field(MaxProgDiv) = 0
  BY DEF Field, MaxProgDiv
<1>4. fast \in Nat
  BY ProgClock
<1>5. fast \div (MaxProgDiv + 1) <= clock
  BY DEF InGap, ProgReaches
<1> HIDE DEF c, fast
<1>6. fast \div (0 + 1) = fast
  BY <1>4
<1>7. Wire(b, c) = fast
  BY <1>2, <1>3, <1>6 DEF Wire, fast
<1>8. QED
  BY <1>2, <1>5, <1>7

-----------------------------------------------------------------------------
(* The search for a sampling tap *)

\* A set of naturals that holds 0, and n + 1 with every n, is all of them.
LEMMA Induction ==
  ASSUME NEW S, 0 \in S, \A n \in Nat : n \in S => n + 1 \in S
  PROVE  Nat \subseteq S
<1> DEFINE below == {ss \in Nat \X Nat : ss[1] < ss[2]}
           T == Nat \ S
<1>1. IsWellFoundedOn(below, Nat)
  BY NatLessThanWellFounded DEF OpToRel
<1> HIDE DEF below
<1>2. SUFFICES ASSUME T # {} PROVE FALSE
  OBVIOUS
<1>3. PICK m \in T : \A y \in T : ~(<<y, m>> \in below)
  BY <1>1, <1>2, WFMin
<1>4. m \in Nat /\ m # 0 /\ m - 1 \in Nat
  OBVIOUS
<1>5. <<m - 1, m>> \in below
  BY <1>4 DEF below
<1>6. m - 1 \in S
  BY <1>3, <1>4, <1>5
<1>7. (m - 1) + 1 \in S
  BY <1>4, <1>6
<1> QED
  BY <1>4, <1>7

\* The windows that FinalTap computes, before each tap and after the last.
Window(bad) ==
  CHOOSE window : window = [k \in 0 .. MaxPhCode |->
        IF k = 0 THEN NoWindow ELSE Turn(window[k - 1], k - 1, bad)]

\* FinalTap is what is left after the last tap.
LEMMA FinalTapIs ==
  ASSUME NEW bad
  PROVE  FinalTap(bad) = Window(bad)[MaxPhCode].final
BY DEF FinalTap, Window

\* There is a function as FinalTap defines it: up to every tap one exists, and
\* it can be continued by one more.
LEMMA WindowExists ==
  ASSUME NEW bad
  PROVE  /\ Window(bad)[0] = NoWindow
         /\ \A k \in 0 .. MaxPhCode - 1 :
              Window(bad)[k + 1] = Turn(Window(bad)[k], k, bad)
<1> DEFINE Is(g, n) == g = [k \in 0 .. n |->
        IF k = 0 THEN NoWindow ELSE Turn(g[k - 1], k - 1, bad)]
           S == {n \in Nat : \E g : Is(g, n)}
<1>1. 0 \in S
  <2> DEFINE g == [k \in 0 .. 0 |-> NoWindow]
  <2>1. Is(g, 0)
    OBVIOUS
  <2> QED
    BY <2>1
<1>2. ASSUME NEW n \in Nat, n \in S
      PROVE  n + 1 \in S
  <2>1. PICK g : Is(g, n)
    BY <1>2
  <2> DEFINE h == [k \in 0 .. n + 1 |->
                     IF k \in 0 .. n THEN g[k] ELSE Turn(g[n], n, bad)]
  <2>2. ASSUME NEW k \in 0 .. n + 1
        PROVE  h[k] = IF k = 0 THEN NoWindow ELSE Turn(h[k - 1], k - 1, bad)
    <3>1. CASE k = 0
      BY <2>1, <3>1
    <3>2. CASE k \in 1 .. n
      <4>1. h[k] = g[k] /\ h[k - 1] = g[k - 1]
        BY <3>2
      <4>2. g[k] = Turn(g[k - 1], k - 1, bad)
        BY <2>1, <3>2
      <4> QED
        BY <3>2, <4>1, <4>2
    <3>3. CASE k = n + 1
      <4>1. h[k] = Turn(g[n], n, bad) /\ h[n] = g[n] /\ k - 1 = n
        BY <3>3
      <4> QED
        BY <3>3, <4>1
    <3> QED
      BY <3>1, <3>2, <3>3
  <2>3. Is(h, n + 1)
    BY <2>2
  <2> HIDE DEF h, Is
  <2> QED
    BY <2>3
<1> HIDE DEF S
<1>3. MaxPhCode \in S
  BY <1>1, <1>2, Induction, TapAssumption
<1>4. \E g : Is(g, MaxPhCode)
  BY <1>3 DEF S
<1>5. Is(Window(bad), MaxPhCode)
  BY <1>4 DEF Window
<1> HIDE DEF Is
<1>6. MaxPhCode \in Nat
  BY TapAssumption
<1>7. Window(bad)[0] = NoWindow
  BY <1>5, <1>6 DEF Is
<1>8. ASSUME NEW k \in 0 .. MaxPhCode - 1
      PROVE  Window(bad)[k + 1] = Turn(Window(bad)[k], k, bad)
  <2>1. k + 1 \in 0 .. MaxPhCode /\ k + 1 # 0 /\ (k + 1) - 1 = k
    BY <1>6
  <2> QED
    BY <1>5, <2>1 DEF Is
<1> QED
  BY <1>7, <1>8

\* A window of good taps.
Good(a, b, bad) == \A t \in a .. b : t \notin bad

\* What the search knows before tap k: the window that ends with k - 1 ...
Current(w, k, bad) ==
  /\ w.size \in 0 .. k /\ w.max \in 0 .. k /\ w.size <= w.max
  /\ w.size = 0 <=> w.cur = NoTap
  /\ w.size > 0 => w.cur = k - w.size
  /\ Good(k - w.size, k - 1, bad)
  /\ w.size < k => k - w.size - 1 \in bad

\* ... the size of the widest one ...
Bound(w, k, bad) ==
  \A a, b \in 0 .. k - 1 : a <= b /\ Good(a, b, bad) => b - a + 1 <= w.max

\* ... and the middle of the first that is as wide.
Middle(w, k, bad) ==
  IF w.max < TapThld THEN w.final = NoTap
  ELSE \E a \in 0 .. k - 1 :
         /\ w.final = a + w.max \div 2
         /\ a + w.max <= k /\ Good(a, a + w.max - 1, bad)
         /\ \A c \in 0 .. a - 1 : ~Good(c, c + w.max - 1, bad)

Seen(w, k, bad) == Current(w, k, bad) /\ Bound(w, k, bad) /\ Middle(w, k, bad)

WindowFields == {"cur", "size", "max", "final"}

\* Before the first tap there is no window.
LEMMA SeenFirst ==
  ASSUME NEW bad
  PROVE  Seen(NoWindow, 0, bad)
BY TapAssumption DEF Seen, Current, Bound, Middle, NoWindow, NoTap, Good

\* A turn of the loop: a bad tap ends the window, a good one widens it, and
\* only a window that is wider than all before takes the place of the widest.
LEMMA SeenNext ==
  ASSUME NEW bad, NEW k \in Nat, NEW w, DOMAIN w = WindowFields, Seen(w, k, bad)
  PROVE  /\ DOMAIN Turn(w, k, bad) = WindowFields
         /\ Seen(Turn(w, k, bad), k + 1, bad)
<1> DEFINE v == Turn(w, k, bad)
<1>0. TapThld \in Nat \ {0} /\ NoTap = -1
  BY TapAssumption DEF NoTap
<1>1. CASE k \in bad
  <2>1. v = [w EXCEPT !.cur = NoTap, !.size = 0]
    BY <1>1 DEF Turn
  <2>2. /\ DOMAIN v = WindowFields /\ v.cur = NoTap /\ v.size = 0 /\ v.max = w.max
        /\ v.final = w.final
    BY <2>1 DEF WindowFields
  <2> HIDE DEF v
  <2>3. ASSUME NEW a \in 0 .. k, NEW b \in 0 .. k, a <= b, Good(a, b, bad)
        PROVE  b - a + 1 <= w.max
    <3>1. b # k
      BY <1>1, <2>3 DEF Good
    <3> QED
      BY <2>3, <3>1 DEF Seen, Current, Bound, Middle
  <2>4. IF w.max < TapThld THEN w.final = NoTap
        ELSE \E a \in 0 .. k :
            /\ w.final = a + w.max \div 2
            /\ a + w.max <= k + 1 /\ Good(a, a + w.max - 1, bad)
            /\ \A c \in 0 .. a - 1 : ~Good(c, c + w.max - 1, bad)
    BY DEF Seen, Current, Bound, Middle
  <2>5. /\ w.max \in 0 .. k + 1 /\ Good(k + 1, k, bad)
    BY DEF Seen, Current, Good
  <2>6. \A a, b \in 0 .. (k + 1) - 1 :
          a <= b /\ Good(a, b, bad) => b - a + 1 <= w.max
    BY <2>3
  <2>7. Current(v, k + 1, bad)
    BY <1>0, <1>1, <2>2, <2>5 DEF Current, Good
  <2>8. Bound(v, k + 1, bad)
    BY <2>2, <2>6 DEF Bound
  <2>9. Middle(v, k + 1, bad)
    BY <2>2, <2>4 DEF Middle
  <2> QED
    BY <2>2, <2>7, <2>8, <2>9 DEF Seen, v
<1>2. CASE k \notin bad
  <2> DEFINE size == w.size + 1
             cur == k + 1 - size
  <2>1. (IF w.cur = NoTap THEN k ELSE w.cur) = cur
    BY DEF Seen, Current, Bound, Middle
  <2>2. v = [cur |-> cur, size |-> size,
              max |-> IF size > w.max THEN size ELSE w.max,
              final |-> IF size > w.max /\ size >= TapThld
                          THEN cur + size \div 2 ELSE w.final]
    BY <1>2, <2>1 DEF Turn
  <2>3. /\ DOMAIN v = WindowFields /\ v.cur = cur /\ v.size = size
        /\ v.max = (IF size > w.max THEN size ELSE w.max)
        /\ v.final = (IF size > w.max /\ size >= TapThld
                          THEN cur + size \div 2 ELSE w.final)
    BY <2>2 DEF WindowFields
  <2> HIDE DEF v
  <2>4. size \in 1 .. k + 1 /\ cur \in 0 .. k /\ w.max \in 0 .. k
    BY DEF Seen, Current, Bound, Middle
  <2>5. Good(cur, k, bad) /\ (size < k + 1 => cur - 1 \in bad)
    BY <1>2 DEF Good, Seen, Current
  <2>6. ASSUME NEW a \in 0 .. k, a < cur
        PROVE  ~Good(a, k, bad)
    BY <2>4, <2>5, <2>6 DEF Good
  <2>7. ASSUME NEW a \in 0 .. k, NEW b \in 0 .. k, a <= b, Good(a, b, bad)
        PROVE  b - a + 1 <= v.max
    <3>1. CASE b = k
      BY <2>3, <2>4, <2>6, <2>7, <3>1
    <3>2. CASE b # k
      <4>1. b - a + 1 <= w.max
        BY <2>7, <3>2 DEF Seen, Current, Bound, Middle
      <4> QED
        BY <2>3, <2>4, <4>1
    <3> QED
      BY <3>1, <3>2
  <2>8. v.max \in 0 .. k + 1 /\ v.size \in 0 .. k + 1 /\ v.size <= v.max
    BY <2>3, <2>4
  <2>9. IF v.max < TapThld THEN v.final = NoTap
        ELSE \E a \in 0 .. k :
            /\ v.final = a + v.max \div 2
            /\ a + v.max <= k + 1 /\ Good(a, a + v.max - 1, bad)
            /\ \A c \in 0 .. a - 1 : ~Good(c, c + v.max - 1, bad)
    <3>1. CASE size > w.max
      <4>1. v.max = size
        BY <2>3, <3>1
      <4>2. CASE size < TapThld
        BY <1>0, <2>3, <2>4, <3>1, <4>1, <4>2 DEF Seen, Current, Bound, Middle
      <4>3. CASE size >= TapThld
        <5>1. v.final = cur + v.max \div 2
          BY <2>3, <3>1, <4>1, <4>3
        <5>2. cur + v.max = k + 1 /\ Good(cur, cur + v.max - 1, bad)
          BY <2>4, <2>5, <4>1
        <5>3. ASSUME NEW c \in 0 .. cur - 1
              PROVE  ~Good(c, c + v.max - 1, bad)
          <6>1. c \in 0 .. k - 1 /\ c + size - 1 \in 0 .. k - 1 /\ c <= c + size - 1
            BY <2>4
          <6>2. Good(c, c + size - 1, bad) => (c + size - 1) - c + 1 <= w.max
            BY <6>1 DEF Seen, Current, Bound, Middle
          <6> QED
            BY <2>4, <3>1, <4>1, <6>1, <6>2
        <5>4. ~(v.max < TapThld) /\ cur + v.max <= k + 1
          BY <1>0, <2>4, <4>1, <4>3
        <5> HIDE DEF cur
        <5> QED
          BY <2>4, <5>1, <5>2, <5>3, <5>4
      <4> QED
        BY <1>0, <2>4, <4>2, <4>3
    <3>2. CASE ~(size > w.max)
      <4>1. v.max = w.max /\ v.final = w.final
        BY <2>3, <3>2
      <4> QED
        BY <4>1 DEF Seen, Current, Bound, Middle
    <3> QED
      BY <3>1, <3>2
  <2>10. v.size > 0 /\ v.cur # NoTap /\ v.cur = k + 1 - v.size
    BY <1>0, <2>3, <2>4
  <2>11. /\ Good(k + 1 - v.size, k, bad)
         /\ v.size < k + 1 => k + 1 - v.size - 1 \in bad
    BY <2>3, <2>4, <2>5
  <2>12. Current(v, k + 1, bad)
    BY <1>0, <2>3, <2>4, <2>8, <2>10, <2>11 DEF Current
  <2>13. Bound(v, k + 1, bad)
    BY <2>7 DEF Bound
  <2>14. Middle(v, k + 1, bad)
    BY <2>9 DEF Middle
  <2> QED
    BY <2>3, <2>12, <2>13, <2>14 DEF Seen, v
<1> QED
  BY <1>1, <1>2

\* So it is after the last tap.
LEMMA SeenAll ==
  ASSUME NEW bad
  PROVE  Seen(Window(bad)[MaxPhCode], MaxPhCode, bad)
<1> DEFINE S == {k \in Nat : k > MaxPhCode \/ /\ DOMAIN Window(bad)[k] = WindowFields
                                              /\ Seen(Window(bad)[k], k, bad)}
<1>0. MaxPhCode \in Nat
  BY TapAssumption
<1>1. 0 \in S
  BY WindowExists, SeenFirst DEF NoWindow, WindowFields
<1>2. ASSUME NEW k \in Nat, k \in S PROVE k + 1 \in S
  <2>1. CASE k + 1 > MaxPhCode
    BY <2>1
  <2>2. CASE k + 1 <= MaxPhCode
    <3>1. k \in 0 .. MaxPhCode - 1 /\ ~(k > MaxPhCode)
      BY <1>0, <2>2
    <3>2. Window(bad)[k + 1] = Turn(Window(bad)[k], k, bad)
      BY <3>1, WindowExists
    <3> QED
      BY <1>2, <3>1, <3>2, SeenNext
  <2> QED
    BY <1>0, <2>1, <2>2
<1> HIDE DEF S
<1>3. MaxPhCode \in S
  BY <1>0, <1>1, <1>2, Induction
<1> QED
  BY <1>0, <1>3 DEF S

\* One pass over the taps of sdhci_cv181x_general_execute_tuning finds the
\* middle of the widest window of good taps, the first of those as wide, or
\* none if it is too narrow: for any number of taps, any threshold and any set
\* of bad taps.
THEOREM TapSearchFinds ==
  ASSUME NEW bad
  PROVE  /\ FinalTap(bad) = MedianOfWidest(bad)
         /\ FinalTap(bad) \in Taps \cup {NoTap}
<1> DEFINE w == Window(bad)[MaxPhCode]
           m == w.max
           widest == {x \in Windows(bad) :
                        \A v \in Windows(bad) : Width(v) <= Width(x)}
           first == CHOOSE x \in widest : \A v \in widest : x[1] <= v[1]
<1>0. MaxPhCode \in Nat /\ TapThld \in Nat \ {0} /\ NoTap = -1
  BY TapAssumption DEF NoTap
<1>1. Seen(w, MaxPhCode, bad) /\ FinalTap(bad) = w.final
  BY SeenAll, FinalTapIs
<1>2. MedianOfWidest(bad) = IF widest = {} \/ Width(first) < TapThld THEN NoTap
                            ELSE first[1] + Width(first) \div 2
  BY DEF MedianOfWidest
<1> HIDE DEF w
<1>3. \A x : x \in Windows(bad) <=>
        \E a, b \in Taps : x = <<a, b>> /\ a <= b /\ Good(a, b, bad)
  BY DEF Windows, Good
<1>4. \A a, b : Width(<<a, b>>) = b - a + 1
  BY DEF Width
<1>5. \A x \in Windows(bad) : /\ x[1] \in Taps /\ x[2] \in Taps
                              /\ x[1] <= x[2] /\ Good(x[1], x[2], bad)
                              /\ Width(x) = x[2] - x[1] + 1
  BY DEF Windows, Good, Width
<1>6. \A x \in Windows(bad) : Width(x) \in Nat /\ Width(x) <= m
  BY <1>0, <1>1, <1>5 DEF Seen, Bound, Taps
<1>7. m \in 0 .. MaxPhCode
  BY <1>1 DEF Seen, Current
<1>8. CASE m < TapThld
  <2>1. w.final = NoTap
    BY <1>1, <1>8 DEF Seen, Middle
  <2>2. ASSUME widest # {} PROVE Width(first) < TapThld
    <3> DEFINE starts == {x[1] : x \in widest}
    <3>1. starts \in SUBSET Nat /\ starts # {}
      BY <1>0, <1>5, <2>2 DEF Taps
    <3>2. PICK s \in starts : \A y \in starts : s <= y
      BY <3>1, LeastIs
    <3>3. PICK x \in widest : x[1] = s
      BY <3>2
    <3>4. \A v \in widest : x[1] <= v[1]
      BY <3>2, <3>3
    <3>5. first \in widest
      BY <3>3, <3>4
    <3> QED
      BY <1>0, <1>6, <1>7, <1>8, <3>5
  <2> QED
    BY <1>1, <1>2, <2>1, <2>2
<1>9. CASE ~(m < TapThld)
  <2>1. PICK a \in 0 .. MaxPhCode - 1 :
           /\ w.final = a + m \div 2
           /\ a + m <= MaxPhCode /\ Good(a, a + m - 1, bad)
           /\ \A c \in 0 .. a - 1 : ~Good(c, c + m - 1, bad)
    BY <1>1, <1>9 DEF Seen, Middle
  <2> DEFINE x == <<a, a + m - 1>>
  <2>2. a \in Taps /\ a + m - 1 \in Taps /\ a <= a + m - 1
    BY <1>0, <1>7, <1>9, <2>1 DEF Taps
  <2>3. x \in Windows(bad) /\ Width(x) = m /\ x[1] = a
    BY <1>3, <1>4, <1>0, <1>7, <2>1, <2>2
  <2>4. x \in widest
    BY <1>6, <2>3
  <2>5. ASSUME NEW v \in widest PROVE Width(v) = m /\ a <= v[1]
    <3>1. v \in Windows(bad) /\ Width(v) = m
      BY <1>6, <1>7, <2>3, <2>5
    <3>2. v[1] \in Taps /\ v[2] = v[1] + m - 1 /\ Good(v[1], v[2], bad)
      BY <1>5, <1>7, <3>1 DEF Taps
    <3> QED
      BY <2>1, <3>1, <3>2 DEF Taps
  <2> HIDE DEF x, widest
  <2>6. /\ first \in widest /\ \A v \in widest : first[1] <= v[1]
    BY <2>3, <2>4, <2>5
  <2>7. first[1] = a /\ Width(first) = m
    <3>1. first[1] <= a /\ a <= first[1] /\ Width(first) = m
      BY <2>3, <2>4, <2>5, <2>6
    <3>2. first[1] \in Taps
      BY <1>5, <2>6 DEF widest
    <3> QED
      BY <3>1, <3>2, <2>2 DEF Taps
  <2> HIDE DEF first
  <2>8. MedianOfWidest(bad) = a + m \div 2
    BY <1>2, <1>9, <2>4, <2>7
  <2>9. a + m \div 2 \in Taps
    BY <1>0, <1>7, <1>9, <2>1 DEF Taps
  <2> QED
    BY <1>1, <2>1, <2>8, <2>9
<1> QED
  BY <1>8, <1>9

=============================================================================
