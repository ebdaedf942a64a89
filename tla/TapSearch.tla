------------------------------ MODULE TapSearch ------------------------------
(***************************************************************************)
(* The search for the sampling tap in sdhci_cv181x_general_execute_tuning: *)
(* one pass over the taps, with the current window of good taps and the    *)
(* widest one seen so far.                                                 *)
(***************************************************************************)
EXTENDS Integers

CONSTANTS
  MaxPhCode,    (* number of taps, TUNE_MAX_PHCODE (128)                    *)
  TapThld       (* width a window must have, TAP_WINDOW_THLD (20)           *)

ASSUME TapAssumption ==
  /\ MaxPhCode \in Nat \ {0}
  /\ TapThld \in Nat \ {0}

Taps == 0 .. MaxPhCode - 1
NoTap == -1

NoWindow == [cur |-> NoTap, size |-> 0, max |-> 0, final |-> NoTap]

\* Mutant: a window that is as wide as the widest takes its place.
TurnLast(w, k, bad) ==
  LET cur == IF w.cur = NoTap THEN k ELSE w.cur
      size == w.size + 1
      widest == size >= w.max
  IN  IF k \in bad
        THEN [w EXCEPT !.cur = NoTap, !.size = 0]
        ELSE [cur |-> cur, size |-> size,
              max |-> IF widest THEN size ELSE w.max,
              final |-> IF widest /\ size >= TapThld
                          THEN cur + size \div 2 ELSE w.final]

\* One turn of the loop.
Turn(w, k, bad) ==
  LET cur == IF w.cur = NoTap THEN k ELSE w.cur
      size == w.size + 1
      widest == size > w.max
  IN  IF k \in bad
        THEN [w EXCEPT !.cur = NoTap, !.size = 0]
        ELSE [cur |-> cur, size |-> size,
              max |-> IF widest THEN size ELSE w.max,
              final |-> IF widest /\ size >= TapThld
                          THEN cur + size \div 2 ELSE w.final]

\* final_tap for a set of taps whose test failed.
FinalTap(bad) ==
  LET window[k \in 0 .. MaxPhCode] ==
        IF k = 0 THEN NoWindow ELSE Turn(window[k - 1], k - 1, bad)
  IN  window[MaxPhCode].final

-----------------------------------------------------------------------------
(* What the search is for. *)

\* The middle of the widest window of good taps, the first one if several
\* are as wide, if it is wide enough.
Windows(bad) ==
  {w \in Taps \X Taps : w[1] <= w[2] /\ (w[1] .. w[2]) \cap bad = {}}
Width(w) == w[2] - w[1] + 1
MedianOfWidest(bad) ==
  LET widest == {w \in Windows(bad) :
                   \A v \in Windows(bad) : Width(v) <= Width(w)}
      first == CHOOSE w \in widest : \A v \in widest : w[1] <= v[1]
  IN  IF widest = {} \/ Width(first) < TapThld THEN NoTap
      ELSE first[1] + Width(first) \div 2

=============================================================================
