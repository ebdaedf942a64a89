--------------------------- MODULE SdhciBus_proofs ---------------------------
(***************************************************************************)
(* What holds of SdhciBus for every board, every clock, width and timing   *)
(* asked for and any number of taps: the properties of its run, but        *)
(* Returns, which is about fairness.                                       *)
(*                                                                         *)
(* The invariant says in which parts of a call the driver and the          *)
(* controller may disagree, and that they agree everywhere else.           *)
(***************************************************************************)
EXTENDS SdhciBus, SdhciClock_proofs

-----------------------------------------------------------------------------
(* The inductive invariant *)

IsRec(r) == r = [f \in DOMAIN r |-> r[f]]

HostFields == {"clock", "actual_clock", "pwr", "timing", "preset_enabled",
               "final_tap", "tuning_done"}
HostTyped(h) ==
  /\ IsRec(h) /\ DOMAIN h = HostFields
  /\ h.clock \in Nat /\ h.actual_clock \in Nat /\ h.pwr \in Levels
  /\ h.timing \in Timings /\ h.preset_enabled \in BOOLEAN
  /\ h.final_tap \in 0 .. 2 * MaxPhCode - 1 /\ h.tuning_done \in BOOLEAN

RegFields == {"clk", "power", "width", "hispd", "uhs", "preset_en", "exec",
              "tuned_clk", "enable", "signal", "phy", "switch", "pads"}
RegTyped(r) ==
  /\ IsRec(r) /\ DOMAIN r = RegFields
  /\ r.clk \in Clk /\ r.power \in Levels /\ r.width \in Widths
  /\ r.hispd \in BOOLEAN /\ r.uhs \in Modes /\ r.preset_en \in BOOLEAN
  /\ r.exec \in BOOLEAN /\ r.tuned_clk \in BOOLEAN
  /\ r.enable \in IntSets /\ r.signal \in IntSets /\ r.phy \in Phy
  /\ r.switch \in {"on", "discharge"} /\ r.pads \in {"boot", "sdio", "gpio"}

\* TypeOK with all fields, and the taps of the pass in bounds.
Typed ==
  /\ board \in Boards /\ HostTyped(host) /\ RegTyped(reg) /\ ios \in Ios
  /\ pc \in Steps /\ tune \in Tune /\ present \in BOOLEAN
  /\ tuned \in Taps \cup {NoTap}
  /\ pc \in {"tap", "test"} => tune.min < MaxPhCode

Tapping == {"tap", "test", "choose", "last"}
Sending == {"send", "check"}

\* In a set_ios that switches the power off, after its reset.
Pending == pc \in {"preset", "clock", "power"} /\ ios.power = "off"

\* What the driver remembers of the power and of presets.
Remembered ==
  /\ reg.preset_en = host.preset_enabled
  /\ Pending => reg.power = "off"
  /\ ~Pending => reg.power = host.pwr
  /\ board.ops = "sd" =>
       /\ reg.pads = "gpio" <=> reg.switch = "discharge"
       /\ ~Pending => (reg.power # "off" <=> reg.pads = "sdio")
  /\ pc = "reset" => ios.power = "off"

\* The clock of the card is the one that was asked for, once the step that
\* changes it is done.
Clocked ==
  /\ pc \notin {"reset", "preset", "clock"} => host.clock = ios.clock
  /\ ios.power = "on" => ios.clock # 0
  /\ pc \in Tapping \cup Sending => ios.power = "on"
  /\ reg.clk.on => host.clock # 0
  /\ pc = "uhs" => ~reg.clk.on
  /\ host.clock # 0 /\ ~InGap(board, host.clock) =>
       host.actual_clock = Wire(board, reg.clk)

\* A controller without presets never has a clock that is too fast; one with
\* presets, or with the dividers of version 3.00, between calls.
Limited ==
  /\ board.version < Spec300 =>
       ~host.preset_enabled /\ pc \notin {"gate", "uhs", "reclock"}
  /\ \/ board.version < Spec300
     \/ pc \in {"idle"} \cup Tapping \cup Sending
     => (host.clock # 0 /\ host.clock >= SlowestClk(board)
           /\ ~InGap(board, host.clock) /\ ~host.preset_enabled
           => Wire(board, reg.clk) <= host.clock)

\* The interrupts of tuning are enabled in the tuning of the core only.
Masked ==
  /\ pc \notin Sending => reg.enable = "ier" /\ reg.signal = "ier" /\ ~reg.exec
  /\ pc \in Tapping => board.ops # "generic"

\* The tap in the PHY is the tap of the last tuning.
Tapped ==
  /\ pc \in Tapping \cup Sending => tuned = NoTap
  /\ pc = "last" => /\ reg.phy = TapPhy(host.final_tap)
                    /\ host.final_tap = MedianOfWidest(tune.bad) % (2 * MaxPhCode)
  /\ tuned # NoTap =>
       /\ board.ops # "generic"
       /\ tuned = host.final_tap % MaxPhCode
       /\ reg.uhs = "SDR104" => reg.phy = TapPhy(tuned)

Inv == Typed /\ Remembered /\ Clocked /\ Limited /\ Masked /\ Tapped

-----------------------------------------------------------------------------
(* Taps and registers *)

\* A tap is reduced to the number of taps, once or by way of eight bits.
LEMMA TapBounds ==
  ASSUME NEW tap \in Int
  PROVE  /\ tap % MaxPhCode \in Taps
         /\ tap % (2 * MaxPhCode) \in 0 .. 2 * MaxPhCode - 1
BY TapAssumption, SMT DEF Taps

LEMMA TapReduced ==
  ASSUME NEW tap \in Taps \cup {NoTap}
  PROVE  /\ (tap % (2 * MaxPhCode)) % MaxPhCode = tap % MaxPhCode
         /\ (tap % MaxPhCode) % MaxPhCode = tap % MaxPhCode
<1>0. MaxPhCode \in Nat \ {0}
  BY TapAssumption
<1>1. \A t, n \in Nat : t < n => t % n = t
  BY SMT
<1>2. CASE tap \in Taps
  <2>1. tap \in Nat /\ tap < MaxPhCode /\ tap < 2 * MaxPhCode
    BY <1>0, <1>2 DEF Taps
  <2> QED
    BY <1>0, <1>1, <2>1
<1>3. CASE tap = NoTap
  <2>1. \A n \in Nat \ {0} : (-1) % n = n - 1
    BY SMT
  <2>2. tap % MaxPhCode = MaxPhCode - 1
    BY <1>0, <1>3, <2>1 DEF NoTap
  <2> DEFINE n == 2 * MaxPhCode
  <2>6. n \in Nat \ {0}
    BY <1>0
  <2> HIDE DEF n
  <2>7. tap % n = n - 1
    BY <1>3, <2>1, <2>6 DEF NoTap
  <2>3. tap % (2 * MaxPhCode) = 2 * MaxPhCode - 1
    BY <2>7 DEF n
  <2>4. (2 * MaxPhCode - 1) % MaxPhCode = MaxPhCode - 1
    BY <1>0, SMT
  <2>5. (MaxPhCode - 1) % MaxPhCode = MaxPhCode - 1
    BY <1>0, <1>1
  <2> QED
    BY <2>2, <2>3, <2>4, <2>5
<1> QED
  BY <1>2, <1>3

LEMMA TapPhyTyped ==
  ASSUME NEW tap \in Int
  PROVE  TapPhy(tap) \in Phy /\ TapPhy(tap).tap = tap % MaxPhCode
BY TapBounds DEF TapPhy, Phy

\* The phase of a tap is that of the tap it is reduced to.
LEMMA SamePhy ==
  ASSUME NEW tap \in Taps \cup {NoTap}
  PROVE  /\ TapPhy(tap % (2 * MaxPhCode)) = TapPhy(tap)
         /\ TapPhy(tap % MaxPhCode) = TapPhy(tap)
BY TapReduced DEF TapPhy

\* Writing a field keeps a record one.
LEMMA StillRec ==
  ASSUME NEW r, IsRec(r), NEW f, NEW v
  PROVE  IsRec([r EXCEPT ![f] = v])
BY DEF IsRec

\* What Reset-all does to the registers.
LEMMA ResetAllFields ==
  ASSUME NEW r, RegTyped(r)
  PROVE  LET s == ResetAll(r)
         IN  /\ RegTyped(s)
             /\ s.clk = ClockOff /\ s.power = "off" /\ s.width = 1
             /\ s.uhs = "SDR12" /\ ~s.preset_en /\ ~s.exec
             /\ s.enable = r.enable /\ s.signal = r.signal /\ s.phy = r.phy
             /\ s.switch = r.switch /\ s.pads = r.pads
<1> DEFINE s == ResetAll(r)
<1>1. s = [r EXCEPT !.clk = ClockOff, !.power = "off", !.width = 1, !.hispd = FALSE,
                    !.uhs = "SDR12", !.preset_en = FALSE, !.exec = FALSE,
                    !.tuned_clk = FALSE]
  BY DEF ResetAll
<1>2. IsRec(s)
  BY <1>1 DEF RegTyped, IsRec
<1>3. /\ DOMAIN s = RegFields
      /\ s.clk = ClockOff /\ s.power = "off" /\ s.width = 1 /\ s.hispd = FALSE
      /\ s.uhs = "SDR12" /\ s.preset_en = FALSE /\ s.exec = FALSE
      /\ s.tuned_clk = FALSE
      /\ s.enable = r.enable /\ s.signal = r.signal /\ s.phy = r.phy
      /\ s.switch = r.switch /\ s.pads = r.pads
  BY <1>1 DEF RegTyped, RegFields
<1>4. ClockOff \in Clk /\ "off" \in Levels /\ 1 \in Widths /\ "SDR12" \in Modes
  BY BusAssumption DEF ClockOff, Clk, Levels, Modes
<1> HIDE DEF s
<1>5. RegTyped(s)
  BY <1>2, <1>3, <1>4 DEF RegTyped
<1> QED
  BY <1>3, <1>5 DEF s

\* What the invariant asks of the registers that a step leaves alone.
SlotKept(r, s) == s.power = r.power /\ s.switch = r.switch /\ s.pads = r.pads
IntsKept(r, s) == s.enable = r.enable /\ s.signal = r.signal /\ s.exec = r.exec
ModeKept(r, s) == s.uhs = r.uhs /\ s.preset_en = r.preset_en /\ s.phy = r.phy

\* The reset function of the platform sets the PHY and the interrupts anew.
PhySet(r, h, s) ==
  /\ RegTyped(s)
  /\ s.clk = r.clk /\ SlotKept(r, s)
  /\ s.uhs = r.uhs /\ s.preset_en = r.preset_en /\ s.exec = r.exec
  /\ s.phy = CviPhy(r, h.final_tap)
  /\ s.enable = "ier" /\ s.signal = "ier"

LEMMA CviResetFields ==
  ASSUME NEW r, RegTyped(r), NEW h, HostTyped(h)
  PROVE  PhySet(r, h, [r EXCEPT !.phy = CviPhy(r, h.final_tap),
                                !.enable = "ier", !.signal = "ier"])
<1> DEFINE phy == CviPhy(r, h.final_tap)
           s == [r EXCEPT !.phy = phy, !.enable = "ier", !.signal = "ier"]
<1>1. h.final_tap \in Int
  BY TapAssumption DEF HostTyped
<1>2. phy \in Phy
  <2>1. DsPhy \in Phy
    BY TapAssumption DEF DsPhy, Phy, Taps
  <2> QED
    BY <1>1, <2>1, TapPhyTyped DEF CviPhy
<1> HIDE DEF phy
<1>3. IsRec(s)
  BY DEF RegTyped, IsRec
<1>4. /\ DOMAIN s = RegFields
      /\ s.clk = r.clk /\ s.power = r.power /\ s.width = r.width
      /\ s.hispd = r.hispd /\ s.uhs = r.uhs /\ s.preset_en = r.preset_en
      /\ s.exec = r.exec /\ s.tuned_clk = r.tuned_clk
      /\ s.enable = "ier" /\ s.signal = "ier" /\ s.phy = phy
      /\ s.switch = r.switch /\ s.pads = r.pads
  BY DEF RegTyped, RegFields
<1> HIDE DEF s
<1>5. RegTyped(s)
  BY <1>2, <1>3, <1>4 DEF RegTyped, IntSets
<1> QED
  BY <1>4, <1>5 DEF s, phy, SlotKept, PhySet

\* A reset of the command and data circuits, and one of all.
CircuitsReset(b, h, r, s) ==
  /\ RegTyped(s)
  /\ s.clk = r.clk /\ SlotKept(r, s)
  /\ s.uhs = r.uhs /\ s.preset_en = r.preset_en /\ s.exec = r.exec
  /\ IF b.ops = "generic"
       THEN s.phy = r.phy /\ s.enable = r.enable /\ s.signal = r.signal
       ELSE /\ s.phy = CviPhy(r, h.final_tap)
            /\ s.enable = "ier" /\ s.signal = "ier"

LEMMA ResetFields ==
  ASSUME NEW b, NEW r, RegTyped(r), NEW h, HostTyped(h)
  PROVE  CircuitsReset(b, h, r, Reset(b, h, r, FALSE))
<1> USE DEF CircuitsReset
<1>1. CASE b.ops = "generic"
  <2>1. Reset(b, h, r, FALSE) = r
    BY <1>1 DEF Reset
  <2> QED
    BY <1>1, <2>1 DEF SlotKept
<1>2. CASE b.ops # "generic"
  <2> DEFINE s == [r EXCEPT !.phy = CviPhy(r, h.final_tap),
                            !.enable = "ier", !.signal = "ier"]
  <2>1. Reset(b, h, r, FALSE) = s
    BY <1>2 DEF Reset
  <2>2. PhySet(r, h, s)
    BY CviResetFields
  <2> HIDE DEF s
  <2> QED
    BY <1>2, <2>1, <2>2 DEF PhySet
<1> QED
  BY <1>1, <1>2

\* What a full reset leaves: the clock and the power are off, the pads stay.
Stopped(r, s) ==
  /\ RegTyped(s) /\ s.clk = ClockOff /\ s.power = "off"
  /\ s.switch = r.switch /\ s.pads = r.pads /\ ~s.preset_en /\ ~s.exec

LEMMA FullResetFields ==
  ASSUME NEW b, NEW r, RegTyped(r), NEW h, HostTyped(h)
  PROVE  Stopped(r, Reset(b, h, r, TRUE))
<1> USE DEF Stopped
<1> DEFINE a == ResetAll(r)
<1>0. /\ RegTyped(a) /\ a.clk = ClockOff /\ a.power = "off"
      /\ a.switch = r.switch /\ a.pads = r.pads /\ ~a.preset_en /\ ~a.exec
  BY ResetAllFields
<1> HIDE DEF a
<1>1. CASE b.ops = "generic"
  <2>1. Reset(b, h, r, TRUE) = a
    BY <1>1 DEF Reset, a
  <2> QED
    BY <1>0, <2>1
<1>2. CASE b.ops # "generic"
  <2> DEFINE s == [a EXCEPT !.phy = CviPhy(a, h.final_tap),
                            !.enable = "ier", !.signal = "ier"]
  <2>1. Reset(b, h, r, TRUE) = s
    BY <1>2 DEF Reset, a
  <2>2. PhySet(a, h, s)
    BY <1>0, CviResetFields
  <2> HIDE DEF s
  <2> QED
    BY <1>0, <2>1, <2>2 DEF PhySet, SlotKept
<1> QED
  BY <1>1, <1>2

\* A write of the clock register.
LEMMA ClkFields ==
  ASSUME NEW r, RegTyped(r), NEW clk \in Clk
  PROVE  LET s == [r EXCEPT !.clk = clk]
         IN  RegTyped(s) /\ s.clk = clk /\ SlotKept(r, s) /\ IntsKept(r, s)
             /\ ModeKept(r, s)
<1> DEFINE s == [r EXCEPT !.clk = clk]
<1>1. IsRec(s)
  BY DEF RegTyped, IsRec
<1>2. /\ DOMAIN s = RegFields
      /\ s.clk = clk /\ s.power = r.power /\ s.width = r.width
      /\ s.hispd = r.hispd /\ s.uhs = r.uhs /\ s.preset_en = r.preset_en
      /\ s.exec = r.exec /\ s.tuned_clk = r.tuned_clk
      /\ s.enable = r.enable /\ s.signal = r.signal /\ s.phy = r.phy
      /\ s.switch = r.switch /\ s.pads = r.pads
  BY DEF RegTyped, RegFields
<1> HIDE DEF s
<1>3. RegTyped(s)
  BY <1>1, <1>2 DEF RegTyped
<1> QED
  BY <1>2, <1>3 DEF s, SlotKept, IntsKept, ModeKept

\* What sdhci_set_clock leaves: the clock on the wire is the one reported, and
\* without presets it is not too fast.
ClockSet(b, h, r, clock, s) ==
  /\ HostTyped(s.host) /\ RegTyped(s.reg)
  /\ s.host.clock = h.clock /\ s.host.pwr = h.pwr
  /\ s.host.preset_enabled = h.preset_enabled
  /\ s.host.final_tap = h.final_tap
  /\ SlotKept(r, s.reg) /\ IntsKept(r, s.reg) /\ ModeKept(r, s.reg)
  /\ s.reg.clk.on => clock # 0
  /\ clock # 0 /\ ~InGap(b, clock) =>
       /\ s.host.actual_clock = Wire(b, s.reg.clk)
       /\ /\ clock >= SlowestClk(b)
          /\ ~(b.version >= Spec300 /\ h.preset_enabled)
          => Wire(b, s.reg.clk) <= clock

\* A board is one of those of the dividers.
LEMMA BoardTyped ==
  ASSUME NEW b \in Boards
  PROVE  /\ Board(b)
         /\ \A t \in Timings : PresetDiv(b, t)
<1> DEFINE Assumed(x) ==
      /\ x.ops \in {"generic", "sd", "emmc"}
      /\ x.version \in Nat /\ x.max_clk \in Nat \ {0} /\ x.clk_mul \in Nat
      /\ \A t \in Timings : x.preset[t].div \in 0 .. 1023
<1>1. \A x \in Boards : Assumed(x)
  BY BoardAssumption
<1> HIDE DEF Assumed
<1>2. Assumed(b)
  BY <1>1
<1>3. Board(b)
  BY <1>2 DEF Assumed, Board
<1>4. \A t \in Timings : PresetDiv(b, t)
  BY <1>2 DEF Assumed, PresetDiv, Preset
<1> QED
  BY <1>3, <1>4

LEMMA SetClockFields ==
  ASSUME NEW b \in Boards, NEW h, HostTyped(h), NEW r, RegTyped(r),
         NEW clock \in Nat, NEW stable \in BOOLEAN
  PROVE  ClockSet(b, h, r, clock, SetClock(b, h, r, clock, stable))
<1> USE DEF ClockSet
<1> DEFINE c == CalcClk(b, h.preset_enabled, h.timing, clock)
           clk == IF clock = 0 THEN ClockOff
                  ELSE [on |-> stable, prog |-> c.prog, div |-> c.div]
           actual == IF clock = 0 THEN 0 ELSE c.actual
           s == SetClock(b, h, r, clock, stable)
<1>1. Board(b) /\ PresetDiv(b, h.timing)
  <2>1. h.timing \in Timings
    BY DEF HostTyped
  <2> QED
    BY <2>1, BoardTyped
<1>2. /\ c.prog \in BOOLEAN /\ c.div \in 0 .. 1023 /\ c.actual \in Nat
      /\ ~InGap(b, clock) => c.actual = Wire(b, c)
  <2>1. Told(b, clock, c)
    BY <1>1, ClockReported
  <2> HIDE DEF c
  <2> QED
    BY <2>1 DEF Told
<1>3. /\ clock >= SlowestClk(b) /\ ~InGap(b, clock)
      /\ ~(b.version >= Spec300 /\ h.preset_enabled)
      => Wire(b, c) <= clock
  <2>1. ASSUME ~(b.version >= Spec300 /\ h.preset_enabled)
        PROVE  c = CalcClk(b, FALSE, h.timing, clock)
    BY <2>1 DEF CalcClk
  <2> QED
    BY <1>1, <2>1, ClockNotFaster
<1>4. s = [host |-> [h EXCEPT !.actual_clock = actual], reg |-> [r EXCEPT !.clk = clk]]
  BY DEF SetClock
<1> HIDE DEF c
<1>5. clk \in Clk /\ actual \in Nat
  BY <1>2 DEF Clk, ClockOff
<1>6. clock # 0 => Wire(b, clk) = Wire(b, c) /\ actual = c.actual
  BY DEF Wire
<1>7. clk.on => clock # 0
  BY DEF ClockOff
<1> HIDE DEF clk, actual, s
<1> DEFINE g == [h EXCEPT !.actual_clock = actual]
<1>8. IsRec(g)
  BY DEF HostTyped, IsRec
<1>9. /\ DOMAIN g = HostFields /\ g.clock = h.clock /\ g.actual_clock = actual
      /\ g.pwr = h.pwr /\ g.timing = h.timing
      /\ g.preset_enabled = h.preset_enabled /\ g.final_tap = h.final_tap
      /\ g.tuning_done = h.tuning_done
  BY DEF HostTyped, HostFields
<1>10. s.host = g /\ s.reg = [r EXCEPT !.clk = clk]
  BY <1>4
<1> HIDE DEF g
<1>11. HostTyped(s.host)
  BY <1>5, <1>8, <1>9, <1>10 DEF HostTyped
<1>12. RegTyped(s.reg) /\ s.reg.clk = clk /\ SlotKept(r, s.reg) /\ IntsKept(r, s.reg)
       /\ ModeKept(r, s.reg)
  BY <1>5, <1>10, ClkFields
<1> QED
  BY <1>2, <1>3, <1>6, <1>7, <1>9, <1>10, <1>11, <1>12 DEF s
-----------------------------------------------------------------------------
(* What each write of registers, and of fields of the host, leaves *)

HostKept(h, g, F) == \A f \in HostFields \ F : g[f] = h[f]
RegKept(r, s, F) == \A f \in RegFields \ F : s[f] = r[f]

\* sdhci_do_reset forgets the clock and the presets.
LEMMA HostReset ==
  ASSUME NEW h, HostTyped(h)
  PROVE  LET g == [h EXCEPT !.clock = 0, !.preset_enabled = FALSE]
         IN  /\ HostTyped(g)
             /\ HostKept(h, g, {"clock", "preset_enabled"})
             /\ g.clock = 0 /\ g.preset_enabled = FALSE
<1> DEFINE g == [h EXCEPT !.clock = 0, !.preset_enabled = FALSE]
<1>1. IsRec(g)
  BY DEF HostTyped, IsRec
<1>2. /\ DOMAIN g = HostFields /\ g.clock = 0 /\ g.actual_clock = h.actual_clock
      /\ g.pwr = h.pwr /\ g.timing = h.timing /\ g.preset_enabled = FALSE
      /\ g.final_tap = h.final_tap /\ g.tuning_done = h.tuning_done
  BY DEF HostTyped, HostFields
<1> HIDE DEF g
<1>3. 0 \in Nat /\ FALSE \in BOOLEAN
  OBVIOUS
<1>4. HostTyped(g)
  BY <1>1, <1>2, <1>3 DEF HostTyped
<1> QED
  BY <1>2, <1>4 DEF g, HostKept, HostFields

\* Presets are disabled.
LEMMA HostPreset ==
  ASSUME NEW h, HostTyped(h)
  PROVE  LET g == [h EXCEPT !.preset_enabled = FALSE]
         IN  /\ HostTyped(g)
             /\ HostKept(h, g, {"preset_enabled"})
             /\ g.preset_enabled = FALSE
<1> DEFINE g == [h EXCEPT !.preset_enabled = FALSE]
<1>1. IsRec(g)
  BY DEF HostTyped, IsRec
<1>2. /\ DOMAIN g = HostFields /\ g.clock = h.clock
      /\ g.actual_clock = h.actual_clock /\ g.pwr = h.pwr /\ g.timing = h.timing
      /\ g.preset_enabled = FALSE /\ g.final_tap = h.final_tap
      /\ g.tuning_done = h.tuning_done
  BY DEF HostTyped, HostFields
<1> HIDE DEF g
<1>3. HostTyped(g)
  BY <1>1, <1>2 DEF HostTyped
<1> QED
  BY <1>2, <1>3 DEF g, HostKept, HostFields

\* A clock is remembered.
LEMMA HostClock ==
  ASSUME NEW h, HostTyped(h), NEW c \in Nat
  PROVE  LET g == [h EXCEPT !.clock = c]
         IN  /\ HostTyped(g)
             /\ HostKept(h, g, {"clock"})
             /\ g.clock = c
<1> DEFINE g == [h EXCEPT !.clock = c]
<1>1. IsRec(g)
  BY DEF HostTyped, IsRec
<1>2. /\ DOMAIN g = HostFields /\ g.clock = c /\ g.actual_clock = h.actual_clock
      /\ g.pwr = h.pwr /\ g.timing = h.timing /\ g.preset_enabled = h.preset_enabled
      /\ g.final_tap = h.final_tap /\ g.tuning_done = h.tuning_done
  BY DEF HostTyped, HostFields
<1> HIDE DEF g
<1>3. HostTyped(g)
  BY <1>1, <1>2 DEF HostTyped
<1> QED
  BY <1>2, <1>3 DEF g, HostKept, HostFields

\* A power level is remembered.
LEMMA HostPower ==
  ASSUME NEW h, HostTyped(h), NEW p \in Levels
  PROVE  LET g == [h EXCEPT !.pwr = p]
         IN  /\ HostTyped(g)
             /\ HostKept(h, g, {"pwr"})
             /\ g.pwr = p
<1> DEFINE g == [h EXCEPT !.pwr = p]
<1>1. IsRec(g)
  BY DEF HostTyped, IsRec
<1>2. /\ DOMAIN g = HostFields /\ g.clock = h.clock
      /\ g.actual_clock = h.actual_clock /\ g.pwr = p /\ g.timing = h.timing
      /\ g.preset_enabled = h.preset_enabled /\ g.final_tap = h.final_tap
      /\ g.tuning_done = h.tuning_done
  BY DEF HostTyped, HostFields
<1> HIDE DEF g
<1>3. HostTyped(g)
  BY <1>1, <1>2 DEF HostTyped
<1> QED
  BY <1>2, <1>3 DEF g, HostKept, HostFields

\* A timing is remembered, and presets with it.
LEMMA HostMode ==
  ASSUME NEW h, HostTyped(h), NEW t \in Timings, NEW e \in BOOLEAN
  PROVE  LET g == [h EXCEPT !.timing = t, !.preset_enabled = e]
         IN  /\ HostTyped(g)
             /\ HostKept(h, g, {"timing", "preset_enabled"})
             /\ g.timing = t /\ g.preset_enabled = e
<1> DEFINE g == [h EXCEPT !.timing = t, !.preset_enabled = e]
<1>1. IsRec(g)
  BY DEF HostTyped, IsRec
<1>2. /\ DOMAIN g = HostFields /\ g.clock = h.clock
      /\ g.actual_clock = h.actual_clock /\ g.pwr = h.pwr /\ g.timing = t
      /\ g.preset_enabled = e /\ g.final_tap = h.final_tap
      /\ g.tuning_done = h.tuning_done
  BY DEF HostTyped, HostFields
<1> HIDE DEF g
<1>3. HostTyped(g)
  BY <1>1, <1>2 DEF HostTyped
<1> QED
  BY <1>2, <1>3 DEF g, HostKept, HostFields

\* A tap is remembered.
LEMMA HostTap ==
  ASSUME NEW h, HostTyped(h),
         NEW tap \in 0 .. 2 * MaxPhCode - 1
  PROVE  LET g == [h EXCEPT !.final_tap = tap]
         IN  /\ HostTyped(g)
             /\ HostKept(h, g, {"final_tap"})
             /\ g.final_tap = tap
<1> DEFINE g == [h EXCEPT !.final_tap = tap]
<1>1. IsRec(g)
  BY DEF HostTyped, IsRec
<1>2. /\ DOMAIN g = HostFields /\ g.clock = h.clock
      /\ g.actual_clock = h.actual_clock /\ g.pwr = h.pwr /\ g.timing = h.timing
      /\ g.preset_enabled = h.preset_enabled /\ g.final_tap = tap
      /\ g.tuning_done = h.tuning_done
  BY DEF HostTyped, HostFields
<1> HIDE DEF g
<1>3. HostTyped(g)
  BY <1>1, <1>2 DEF HostTyped
<1> QED
  BY <1>2, <1>3 DEF g, HostKept, HostFields

\* The flag of a tuning that is done is written.
LEMMA HostDone ==
  ASSUME NEW h, HostTyped(h), NEW d \in BOOLEAN
  PROVE  LET g == [h EXCEPT !.tuning_done = d]
         IN  /\ HostTyped(g)
             /\ HostKept(h, g, {"tuning_done"})
             /\ g.tuning_done = d
<1> DEFINE g == [h EXCEPT !.tuning_done = d]
<1>1. IsRec(g)
  BY DEF HostTyped, IsRec
<1>2. /\ DOMAIN g = HostFields /\ g.clock = h.clock
      /\ g.actual_clock = h.actual_clock /\ g.pwr = h.pwr /\ g.timing = h.timing
      /\ g.preset_enabled = h.preset_enabled /\ g.final_tap = h.final_tap
      /\ g.tuning_done = d
  BY DEF HostTyped, HostFields
<1> HIDE DEF g
<1>3. HostTyped(g)
  BY <1>1, <1>2 DEF HostTyped
<1> QED
  BY <1>2, <1>3 DEF g, HostKept, HostFields

\* Presets are disabled in the controller.
LEMMA RegPreset ==
  ASSUME NEW r, RegTyped(r)
  PROVE  LET s == [r EXCEPT !.preset_en = FALSE]
         IN  /\ RegTyped(s)
             /\ RegKept(r, s, {"preset_en"})
             /\ s.preset_en = FALSE
<1> DEFINE s == [r EXCEPT !.preset_en = FALSE]
<1>1. IsRec(s)
  BY DEF RegTyped, IsRec
<1>2. /\ DOMAIN s = RegFields /\ s.clk = r.clk /\ s.power = r.power
      /\ s.width = r.width /\ s.hispd = r.hispd /\ s.uhs = r.uhs
      /\ s.preset_en = FALSE /\ s.exec = r.exec /\ s.tuned_clk = r.tuned_clk
      /\ s.enable = r.enable /\ s.signal = r.signal /\ s.phy = r.phy
      /\ s.switch = r.switch /\ s.pads = r.pads
  BY DEF RegTyped, RegFields
<1> HIDE DEF s
<1>3. RegTyped(s)
  BY <1>1, <1>2 DEF RegTyped
<1> QED
  BY <1>2, <1>3 DEF s, RegKept, RegFields

\* A power level is written.
LEMMA RegPower ==
  ASSUME NEW r, RegTyped(r), NEW p \in Levels
  PROVE  LET s == [r EXCEPT !.power = p]
         IN  /\ RegTyped(s)
             /\ RegKept(r, s, {"power"})
             /\ s.power = p
<1> DEFINE s == [r EXCEPT !.power = p]
<1>1. IsRec(s)
  BY DEF RegTyped, IsRec
<1>2. /\ DOMAIN s = RegFields /\ s.clk = r.clk /\ s.power = p /\ s.width = r.width
      /\ s.hispd = r.hispd /\ s.uhs = r.uhs /\ s.preset_en = r.preset_en
      /\ s.exec = r.exec /\ s.tuned_clk = r.tuned_clk /\ s.enable = r.enable
      /\ s.signal = r.signal /\ s.phy = r.phy /\ s.switch = r.switch
      /\ s.pads = r.pads
  BY DEF RegTyped, RegFields
<1> HIDE DEF s
<1>3. RegTyped(s)
  BY <1>1, <1>2 DEF RegTyped
<1> QED
  BY <1>2, <1>3 DEF s, RegKept, RegFields

\* The setting of the PHY for DS/HS is one of its settings.
LEMMA DsPhyTyped == DsPhy \in Phy
BY TapAssumption DEF DsPhy, Phy, Taps

\* The power switch of the slot is turned, and the PHY set to DS/HS.
LEMMA RegSwitch ==
  ASSUME NEW r, RegTyped(r),
         NEW w \in {"on", "discharge"}
  PROVE  LET s == [r EXCEPT !.switch = w, !.phy = DsPhy]
         IN  /\ RegTyped(s)
             /\ RegKept(r, s, {"switch", "phy"})
             /\ s.switch = w /\ s.phy = DsPhy
<1> DEFINE s == [r EXCEPT !.switch = w, !.phy = DsPhy]
<1>1. IsRec(s)
  BY DEF RegTyped, IsRec
<1>2. /\ DOMAIN s = RegFields /\ s.clk = r.clk /\ s.power = r.power
      /\ s.width = r.width /\ s.hispd = r.hispd /\ s.uhs = r.uhs
      /\ s.preset_en = r.preset_en /\ s.exec = r.exec /\ s.tuned_clk = r.tuned_clk
      /\ s.enable = r.enable /\ s.signal = r.signal /\ s.phy = DsPhy /\ s.switch = w
      /\ s.pads = r.pads
  BY DEF RegTyped, RegFields
<1> HIDE DEF s
<1>3. RegTyped(s)
  BY <1>1, <1>2, DsPhyTyped DEF RegTyped
<1> QED
  BY <1>2, <1>3 DEF s, RegKept, RegFields

\* The pads of the slot are set.
LEMMA RegPads ==
  ASSUME NEW r, RegTyped(r), NEW p \in {"sdio", "gpio"}
  PROVE  LET s == [r EXCEPT !.pads = p]
         IN  /\ RegTyped(s)
             /\ RegKept(r, s, {"pads"})
             /\ s.pads = p
<1> DEFINE s == [r EXCEPT !.pads = p]
<1>1. IsRec(s)
  BY DEF RegTyped, IsRec
<1>2. /\ DOMAIN s = RegFields /\ s.clk = r.clk /\ s.power = r.power
      /\ s.width = r.width /\ s.hispd = r.hispd /\ s.uhs = r.uhs
      /\ s.preset_en = r.preset_en /\ s.exec = r.exec /\ s.tuned_clk = r.tuned_clk
      /\ s.enable = r.enable /\ s.signal = r.signal /\ s.phy = r.phy
      /\ s.switch = r.switch /\ s.pads = p
  BY DEF RegTyped, RegFields
<1> HIDE DEF s
<1>3. RegTyped(s)
  BY <1>1, <1>2 DEF RegTyped
<1> QED
  BY <1>2, <1>3 DEF s, RegKept, RegFields

\* The bus width and the high speed bit are written.
LEMMA RegMode ==
  ASSUME NEW r, RegTyped(r), NEW w \in Widths, NEW e \in BOOLEAN
  PROVE  LET s == [r EXCEPT !.width = w, !.hispd = e]
         IN  /\ RegTyped(s)
             /\ RegKept(r, s, {"width", "hispd"})
             /\ s.width = w /\ s.hispd = e
<1> DEFINE s == [r EXCEPT !.width = w, !.hispd = e]
<1>1. IsRec(s)
  BY DEF RegTyped, IsRec
<1>2. /\ DOMAIN s = RegFields /\ s.clk = r.clk /\ s.power = r.power /\ s.width = w
      /\ s.hispd = e /\ s.uhs = r.uhs /\ s.preset_en = r.preset_en
      /\ s.exec = r.exec /\ s.tuned_clk = r.tuned_clk /\ s.enable = r.enable
      /\ s.signal = r.signal /\ s.phy = r.phy /\ s.switch = r.switch
      /\ s.pads = r.pads
  BY DEF RegTyped, RegFields
<1> HIDE DEF s
<1>3. RegTyped(s)
  BY <1>1, <1>2 DEF RegTyped
<1> QED
  BY <1>2, <1>3 DEF s, RegKept, RegFields

\* The bus speed mode is written, and preset enable with it.
LEMMA RegUhs ==
  ASSUME NEW r, RegTyped(r), NEW m \in Modes, NEW e \in BOOLEAN
  PROVE  LET s == [r EXCEPT !.uhs = m, !.preset_en = e]
         IN  /\ RegTyped(s)
             /\ RegKept(r, s, {"uhs", "preset_en"})
             /\ s.uhs = m /\ s.preset_en = e
<1> DEFINE s == [r EXCEPT !.uhs = m, !.preset_en = e]
<1>1. IsRec(s)
  BY DEF RegTyped, IsRec
<1>2. /\ DOMAIN s = RegFields /\ s.clk = r.clk /\ s.power = r.power
      /\ s.width = r.width /\ s.hispd = r.hispd /\ s.uhs = m /\ s.preset_en = e
      /\ s.exec = r.exec /\ s.tuned_clk = r.tuned_clk /\ s.enable = r.enable
      /\ s.signal = r.signal /\ s.phy = r.phy /\ s.switch = r.switch
      /\ s.pads = r.pads
  BY DEF RegTyped, RegFields
<1> HIDE DEF s
<1>3. RegTyped(s)
  BY <1>1, <1>2 DEF RegTyped
<1> QED
  BY <1>2, <1>3 DEF s, RegKept, RegFields

\* The enabled interrupts are written.
LEMMA RegInts ==
  ASSUME NEW r, RegTyped(r), NEW i \in IntSets
  PROVE  LET s == [r EXCEPT !.enable = i, !.signal = i]
         IN  /\ RegTyped(s)
             /\ RegKept(r, s, {"enable", "signal"})
             /\ s.enable = i /\ s.signal = i
<1> DEFINE s == [r EXCEPT !.enable = i, !.signal = i]
<1>1. IsRec(s)
  BY DEF RegTyped, IsRec
<1>2. /\ DOMAIN s = RegFields /\ s.clk = r.clk /\ s.power = r.power
      /\ s.width = r.width /\ s.hispd = r.hispd /\ s.uhs = r.uhs
      /\ s.preset_en = r.preset_en /\ s.exec = r.exec /\ s.tuned_clk = r.tuned_clk
      /\ s.enable = i /\ s.signal = i /\ s.phy = r.phy /\ s.switch = r.switch
      /\ s.pads = r.pads
  BY DEF RegTyped, RegFields
<1> HIDE DEF s
<1>3. RegTyped(s)
  BY <1>1, <1>2 DEF RegTyped, IntSets
<1> QED
  BY <1>2, <1>3 DEF s, RegKept, RegFields

\* The bits of tuning are written.
LEMMA RegExec ==
  ASSUME NEW r, RegTyped(r), NEW e \in BOOLEAN, NEW t \in BOOLEAN
  PROVE  LET s == [r EXCEPT !.exec = e, !.tuned_clk = t]
         IN  /\ RegTyped(s)
             /\ RegKept(r, s, {"exec", "tuned_clk"})
             /\ s.exec = e /\ s.tuned_clk = t
<1> DEFINE s == [r EXCEPT !.exec = e, !.tuned_clk = t]
<1>1. IsRec(s)
  BY DEF RegTyped, IsRec
<1>2. /\ DOMAIN s = RegFields /\ s.clk = r.clk /\ s.power = r.power
      /\ s.width = r.width /\ s.hispd = r.hispd /\ s.uhs = r.uhs
      /\ s.preset_en = r.preset_en /\ s.exec = e /\ s.tuned_clk = t
      /\ s.enable = r.enable /\ s.signal = r.signal /\ s.phy = r.phy
      /\ s.switch = r.switch /\ s.pads = r.pads
  BY DEF RegTyped, RegFields
<1> HIDE DEF s
<1>3. RegTyped(s)
  BY <1>1, <1>2 DEF RegTyped
<1> QED
  BY <1>2, <1>3 DEF s, RegKept, RegFields

\* Tuning is started.
LEMMA RegStart ==
  ASSUME NEW r, RegTyped(r)
  PROVE  LET s == [r EXCEPT !.exec = TRUE, !.enable = "tuning", !.signal = "tuning"]
         IN  /\ RegTyped(s)
             /\ RegKept(r, s, {"exec", "enable", "signal"})
             /\ s.exec = TRUE /\ s.enable = "tuning" /\ s.signal = "tuning"
<1> DEFINE s == [r EXCEPT !.exec = TRUE, !.enable = "tuning", !.signal = "tuning"]
<1>1. IsRec(s)
  BY DEF RegTyped, IsRec
<1>2. /\ DOMAIN s = RegFields /\ s.clk = r.clk /\ s.power = r.power
      /\ s.width = r.width /\ s.hispd = r.hispd /\ s.uhs = r.uhs
      /\ s.preset_en = r.preset_en /\ s.exec = TRUE /\ s.tuned_clk = r.tuned_clk
      /\ s.enable = "tuning" /\ s.signal = "tuning" /\ s.phy = r.phy
      /\ s.switch = r.switch /\ s.pads = r.pads
  BY DEF RegTyped, RegFields
<1> HIDE DEF s
<1>3. RegTyped(s)
  BY <1>1, <1>2 DEF RegTyped, IntSets
<1> QED
  BY <1>2, <1>3 DEF s, RegKept, RegFields

\* The tuned clock is given up.
LEMMA RegTunedClk ==
  ASSUME NEW r, RegTyped(r)
  PROVE  LET s == [r EXCEPT !.tuned_clk = FALSE]
         IN  /\ RegTyped(s)
             /\ RegKept(r, s, {"tuned_clk"})
             /\ s.tuned_clk = FALSE
<1> DEFINE s == [r EXCEPT !.tuned_clk = FALSE]
<1>1. IsRec(s)
  BY DEF RegTyped, IsRec
<1>2. /\ DOMAIN s = RegFields /\ s.clk = r.clk /\ s.power = r.power
      /\ s.width = r.width /\ s.hispd = r.hispd /\ s.uhs = r.uhs
      /\ s.preset_en = r.preset_en /\ s.exec = r.exec /\ s.tuned_clk = FALSE
      /\ s.enable = r.enable /\ s.signal = r.signal /\ s.phy = r.phy
      /\ s.switch = r.switch /\ s.pads = r.pads
  BY DEF RegTyped, RegFields
<1> HIDE DEF s
<1>3. RegTyped(s)
  BY <1>1, <1>2 DEF RegTyped
<1> QED
  BY <1>2, <1>3 DEF s, RegKept, RegFields

-----------------------------------------------------------------------------
(* Power *)

LEMMA PowerLevels ==
  ASSUME NEW mode \in {"off", "up", "on"}
  PROVE  /\ PowerLevel(mode, Vdd) \in Levels
         /\ PowerLevel(mode, Vdd) = "off" <=> mode = "off"
BY BusAssumption DEF PowerLevel, Levels

\* sdhci_set_power_noreg skips the write of a level that is remembered.
LEMMA SetPowerNoregFields ==
  ASSUME NEW h, HostTyped(h), NEW r, RegTyped(r),
         NEW mode \in {"off", "up", "on"}
  PROVE  LET p == SetPowerNoreg(h, r, mode, Vdd)
             pwr == PowerLevel(mode, Vdd)
         IN  /\ p = [host |-> p.host, reg |-> p.reg]
             /\ HostTyped(p.host) /\ HostKept(h, p.host, {"pwr"})
             /\ RegTyped(p.reg) /\ RegKept(r, p.reg, {"power"})
             /\ p.host.pwr = pwr
             /\ r.power \in {pwr, h.pwr} => p.reg.power = pwr
<1> DEFINE pwr == PowerLevel(mode, Vdd)
           p == SetPowerNoreg(h, r, mode, Vdd)
<1>1. pwr \in Levels
  BY PowerLevels
<1>2. p = IF h.pwr = pwr THEN [host |-> h, reg |-> r]
          ELSE [host |-> [h EXCEPT !.pwr = pwr], reg |-> [r EXCEPT !.power = pwr]]
  BY DEF SetPowerNoreg
<1> HIDE DEF p, pwr
<1>3. CASE h.pwr = pwr
  <2>1. p = [host |-> h, reg |-> r]
    BY <1>2, <1>3
  <2>2. p = [host |-> p.host, reg |-> p.reg] /\ p.host = h /\ p.reg = r
    BY <2>1
  <2> QED
    BY <1>3, <2>2 DEF p, pwr, HostKept, RegKept
<1>4. CASE h.pwr # pwr
  <2> DEFINE g == [h EXCEPT !.pwr = pwr]
             s == [r EXCEPT !.power = pwr]
  <2>1. HostTyped(g) /\ HostKept(h, g, {"pwr"}) /\ g.pwr = pwr
    BY <1>1, HostPower
  <2>2. RegTyped(s) /\ RegKept(r, s, {"power"}) /\ s.power = pwr
    BY <1>1, RegPower
  <2>3. p = [host |-> g, reg |-> s]
    BY <1>2, <1>4
  <2> HIDE DEF g, s
  <2>4. p = [host |-> p.host, reg |-> p.reg] /\ p.host = g /\ p.reg = s
    BY <2>3
  <2> QED
    BY <2>1, <2>2, <2>4 DEF p, pwr
<1> QED
  BY <1>3, <1>4

\* The power, the switch and the pads of a slot change together, also if the
\* card is not there or was powered before.
SlotInStep(r) == /\ r.pads = "gpio" <=> r.switch = "discharge"
                 /\ r.power # "off" <=> r.pads = "sdio"

PowerSet(b, h, r, p) ==
  /\ HostTyped(p.host) /\ HostKept(h, p.host, {"pwr"})
  /\ RegTyped(p.reg)
  /\ RegKept(r, p.reg, {"power", "switch", "pads", "phy"})
  /\ p.reg.power = p.host.pwr
  /\ b.ops = "sd" => SlotInStep(p.reg)
  /\ b.ops # "sd" => p.reg.phy = r.phy

LEMMA SetPowerFields ==
  ASSUME NEW b, NEW h, HostTyped(h), NEW r, RegTyped(r),
         NEW mode \in {"off", "up", "on"},
         mode = "off" => r.power = "off", mode # "off" => r.power = h.pwr,
         b.ops = "sd" /\ mode # "off" => SlotInStep(r)
  PROVE  PowerSet(b, h, r, SetPower(b, h, r, mode, Vdd))
<1> USE DEF PowerSet
<1> DEFINE p == SetPower(b, h, r, mode, Vdd)
           pwr == PowerLevel(mode, Vdd)
           n == SetPowerNoreg(h, r, mode, Vdd)
<1>1. pwr = "off" <=> mode = "off"
  BY PowerLevels
<1>2. /\ n = [host |-> n.host, reg |-> n.reg]
      /\ HostTyped(n.host) /\ HostKept(h, n.host, {"pwr"})
      /\ RegTyped(n.reg) /\ RegKept(r, n.reg, {"power"})
      /\ n.host.pwr = pwr /\ n.reg.power = pwr
  <2>1. r.power \in {pwr, h.pwr}
    BY <1>1
  <2> QED
    BY <2>1, SetPowerNoregFields
<1> HIDE DEF pwr
<1>3. CASE b.ops # "sd"
  <2>1. p = n
    BY <1>3 DEF SetPower
  <2> HIDE DEF n, p
  <2>2. n.reg.phy = r.phy /\ RegKept(r, n.reg, {"power", "switch", "pads", "phy"})
    BY <1>2 DEF RegKept, RegFields
  <2> QED
    BY <1>2, <1>3, <2>1, <2>2 DEF p
<1>4. CASE b.ops = "sd" /\ mode = "on" /\ GetCd(b)
  <2> DEFINE v == [n.reg EXCEPT !.switch = "on", !.phy = DsPhy]
             s == [v EXCEPT !.pads = "sdio"]
  <2>1. p = [n EXCEPT !.reg = SetupPad(VoltageRestore(n.reg, FALSE), FALSE)]
    BY <1>4 DEF SetPower
  <2>2. SetupPad(VoltageRestore(n.reg, FALSE), FALSE) = s
    BY DEF SetupPad, VoltageRestore
  <2> HIDE DEF n, p
  <2>3. RegTyped(v) /\ RegKept(n.reg, v, {"switch", "phy"}) /\ v.switch = "on"
    BY <1>2, RegSwitch
  <2> HIDE DEF v
  <2>4. RegTyped(s) /\ RegKept(v, s, {"pads"}) /\ s.pads = "sdio"
    BY <2>3, RegPads
  <2> HIDE DEF s
  <2>5. p = [n EXCEPT !.reg = s]
    BY <2>1, <2>2
  <2>6. p.reg = s /\ p.host = n.host
    BY <1>2, <2>5
  <2>7. /\ RegKept(r, s, {"power", "switch", "pads", "phy"})
        /\ s.power = pwr /\ s.switch = "on"
    BY <1>2, <2>3, <2>4 DEF RegKept, RegFields
  <2> QED
    BY <1>1, <1>2, <1>4, <2>4, <2>6, <2>7 DEF p, SlotInStep
<1>5. CASE b.ops = "sd" /\ mode = "off"
  <2> DEFINE s == [r EXCEPT !.pads = "gpio"]
             v == [s EXCEPT !.switch = "discharge", !.phy = DsPhy]
             m == SetPowerNoreg(h, v, mode, Vdd)
  <2>1. p = SetPowerNoreg(h, VoltageRestore(SetupPad(r, TRUE), TRUE), mode, Vdd)
    BY <1>5 DEF SetPower
  <2>2. VoltageRestore(SetupPad(r, TRUE), TRUE) = v
    BY DEF SetupPad, VoltageRestore
  <2> HIDE DEF n, p
  <2>3. RegTyped(s) /\ RegKept(r, s, {"pads"}) /\ s.pads = "gpio"
    BY RegPads
  <2> HIDE DEF s
  <2>4. RegTyped(v) /\ RegKept(s, v, {"switch", "phy"}) /\ v.switch = "discharge"
    BY <2>3, RegSwitch
  <2> HIDE DEF v
  <2>5. RegKept(r, v, {"switch", "phy", "pads"}) /\ v.pads = "gpio"
    BY <2>3, <2>4 DEF RegKept, RegFields
  <2>6. v.power = "off" /\ pwr = "off"
    BY <1>1, <1>5, <2>5 DEF RegKept, RegFields
  <2>7. /\ HostTyped(m.host) /\ HostKept(h, m.host, {"pwr"})
        /\ RegTyped(m.reg) /\ RegKept(v, m.reg, {"power"})
        /\ m.host.pwr = pwr /\ m.reg.power = pwr
    <3>1. v.power \in {pwr, h.pwr}
      BY <2>6
    <3> QED
      BY <2>4, <3>1, SetPowerNoregFields DEF pwr
  <2> HIDE DEF m
  <2>8. p = m
    BY <2>1, <2>2 DEF m
  <2>9. /\ RegKept(r, m.reg, {"power", "switch", "pads", "phy"})
        /\ m.reg.switch = "discharge" /\ m.reg.pads = "gpio"
    BY <2>4, <2>5, <2>7 DEF RegKept, RegFields
  <2> QED
    BY <1>5, <2>6, <2>7, <2>8, <2>9 DEF p, SlotInStep
<1>6. CASE b.ops = "sd" /\ ~(mode = "on" /\ GetCd(b)) /\ mode # "off"
  <2>1. p = [host |-> h, reg |-> r]
    BY <1>6 DEF SetPower
  <2> HIDE DEF p
  <2>2. p.host = h /\ p.reg = r
    BY <2>1
  <2> QED
    BY <1>6, <2>2 DEF p, HostKept, RegKept
<1> QED
  BY <1>3, <1>4, <1>5, <1>6

-----------------------------------------------------------------------------
(* The card clock, the delay line and the interrupts *)

\* The bit of the card clock does not change the clock.
LEMMA CardClock ==
  ASSUME NEW clk \in Clk, NEW e \in BOOLEAN
  PROVE  LET c == [clk EXCEPT !.on = e]
         IN  /\ c \in Clk /\ c.on = e
             /\ \A b : Wire(b, c) = Wire(b, clk)
<1> DEFINE c == [clk EXCEPT !.on = e]
<1>1. c \in Clk /\ c.on = e /\ c.prog = clk.prog /\ c.div = clk.div
  BY DEF Clk
<1> HIDE DEF c
<1> QED
  BY <1>1 DEF c, Wire

LEMMA GateFields ==
  ASSUME NEW r, RegTyped(r)
  PROVE  LET s == [r EXCEPT !.clk.on = FALSE]
         IN  /\ RegTyped(s) /\ ~s.clk.on
             /\ SlotKept(r, s) /\ IntsKept(r, s) /\ ModeKept(r, s)
             /\ \A b : Wire(b, s.clk) = Wire(b, r.clk)
<1> DEFINE c == [r.clk EXCEPT !.on = FALSE]
           s == [r EXCEPT !.clk = c]
<1>1. c \in Clk /\ c.on = FALSE /\ \A b : Wire(b, c) = Wire(b, r.clk)
  BY CardClock DEF RegTyped
<1>2. [r EXCEPT !.clk.on = FALSE] = s
  OBVIOUS
<1> HIDE DEF c
<1>3. /\ RegTyped(s) /\ s.clk = c
      /\ SlotKept(r, s) /\ IntsKept(r, s) /\ ModeKept(r, s)
  BY <1>1, ClkFields
<1> HIDE DEF s
<1> QED
  BY <1>1, <1>2, <1>3

LEMMA SetTapFields ==
  ASSUME NEW r, RegTyped(r), NEW tap \in Int
  PROVE  LET s == SetTap(r, tap)
         IN  /\ RegTyped(s) /\ s.clk.on /\ s.phy = TapPhy(tap)
             /\ SlotKept(r, s) /\ IntsKept(r, s)
             /\ s.uhs = r.uhs /\ s.preset_en = r.preset_en
             /\ \A b : Wire(b, s.clk) = Wire(b, r.clk)
<1> DEFINE c == [r.clk EXCEPT !.on = TRUE]
           phy == TapPhy(tap)
           s == [r EXCEPT !.phy = phy, !.clk = c]
<1>1. c \in Clk /\ c.on = TRUE /\ \A b : Wire(b, c) = Wire(b, r.clk)
  BY CardClock DEF RegTyped
<1>2. phy \in Phy
  BY TapPhyTyped
<1>3. SetTap(r, tap) = s
  BY DEF SetTap
<1> HIDE DEF c, phy
<1>4. IsRec(s)
  BY DEF RegTyped, IsRec
<1>5. /\ DOMAIN s = RegFields /\ s.clk = c /\ s.power = r.power
      /\ s.width = r.width /\ s.hispd = r.hispd /\ s.uhs = r.uhs
      /\ s.preset_en = r.preset_en /\ s.exec = r.exec
      /\ s.tuned_clk = r.tuned_clk /\ s.enable = r.enable
      /\ s.signal = r.signal /\ s.phy = phy /\ s.switch = r.switch
      /\ s.pads = r.pads
  BY DEF RegTyped, RegFields
<1> HIDE DEF s
<1>6. RegTyped(s)
  BY <1>1, <1>2, <1>4, <1>5 DEF RegTyped
<1> QED
  BY <1>1, <1>3, <1>5, <1>6 DEF phy, SlotKept, IntsKept

\* However tuning ends, the interrupts and the bits of tuning are back.
LEMMA EndTuningFields ==
  ASSUME NEW r, RegTyped(r)
  PROVE  LET s == EndTuning(r)
         IN  /\ RegTyped(s) /\ RegKept(r, s, {"enable", "signal"})
             /\ s.enable = "ier" /\ s.signal = "ier"
BY RegInts DEF EndTuning, IntSets

LEMMA ResetTuningFields ==
  ASSUME NEW r, RegTyped(r)
  PROVE  LET s == ResetTuning(r)
         IN  RegTyped(s) /\ RegKept(r, s, {"exec", "tuned_clk"}) /\ ~s.exec
BY RegExec DEF ResetTuning

-----------------------------------------------------------------------------
(* The first state *)

LEMMA InitInv == Init => Inv
<1> SUFFICES ASSUME Init PROVE Inv
  OBVIOUS
<1>0. /\ MaxPhCode \in Nat \ {0} /\ MaxRetry \in Nat /\ MaxLoops \in Nat \ {0}
      /\ 1 \in Widths /\ "LEGACY" \in Timings
  BY TapAssumption, BusAssumption
<1>1. HostTyped(host)
  <2>1. IsRec(host)
    BY DEF Init, IsRec
  <2>2. DOMAIN host = HostFields
    BY DEF Init, HostFields
  <2>3. /\ host.clock = 0 /\ host.actual_clock = 0 /\ host.pwr = "off"
        /\ host.timing = "LEGACY" /\ host.preset_enabled = FALSE
        /\ host.final_tap = 0 /\ host.tuning_done = FALSE
    BY DEF Init
  <2>4. 0 \in Nat /\ FALSE \in BOOLEAN /\ 0 \in 0 .. 2 * MaxPhCode - 1
    BY <1>0
  <2> QED
    BY <1>0, <2>1, <2>2, <2>3, <2>4 DEF HostTyped, Levels
<1>2. /\ reg.clk = ClockOff /\ reg.power = "off" /\ reg.width = 1
      /\ reg.hispd = FALSE /\ reg.uhs = "SDR12" /\ reg.preset_en = FALSE
      /\ reg.exec = FALSE /\ reg.tuned_clk = FALSE /\ reg.enable = "ier"
      /\ reg.signal = "ier" /\ reg.phy = DsPhy /\ reg.switch = "on"
      /\ reg.pads = "boot"
  BY DEF Init
<1>3. RegTyped(reg)
  <2>1. IsRec(reg)
    BY DEF Init, IsRec
  <2>2. DOMAIN reg = RegFields
    BY DEF Init, RegFields
  <2>3. ClockOff \in Clk
    BY DEF ClockOff, Clk
  <2> QED
    BY <1>0, <1>2, <2>1, <2>2, <2>3, DsPhyTyped
    DEF RegTyped, Levels, Modes, IntSets
<1>4. /\ ios \in Ios /\ ios.power = "off" /\ ios.clock = 0
      /\ tune \in Tune /\ tune.min = 0
  BY <1>0 DEF Init, PoweredOff, Ios, NewTune, Tune, Taps
<1>5. /\ board \in Boards /\ pc = "idle" /\ present \in BOOLEAN /\ tuned = NoTap
  BY DEF Init
<1>6. host.clock = 0 /\ host.pwr = "off" /\ host.preset_enabled = FALSE
  BY DEF Init
<1>7. ~reg.clk.on
  BY <1>2 DEF ClockOff
<1>8. Typed
  BY <1>1, <1>3, <1>4, <1>5 DEF Typed, Steps
<1>9. Remembered /\ Clocked /\ Limited /\ Masked /\ Tapped
  BY <1>2, <1>4, <1>5, <1>6, <1>7
  DEF Remembered, Pending, Clocked, Limited, Masked, Tapped, Tapping, Sending
<1> QED
  BY <1>8, <1>9 DEF Inv

-----------------------------------------------------------------------------
(* The steps of set_ios *)

\* The version of a board is a number.
LEMMA Version ==
  ASSUME NEW b \in Boards
  PROVE  b.version < Spec300 <=> ~(b.version >= Spec300)
<1>1. b.version \in Nat
  BY BoardTyped DEF Board
<1> QED
  BY <1>1 DEF Spec300

LEMMA NextIosTyped ==
  ASSUME board \in Boards, ios \in Ios, ios.power = "on" => ios.clock # 0,
         NEW i \in NextIos
  PROVE  i \in Ios /\ (i.power = "on" => i.clock # 0)
<1>0. /\ 1 \in Widths /\ "LEGACY" \in Timings /\ FreqMin # 0
      /\ \A c \in Clocks : c # 0
  BY BusAssumption
<1>1. CASE i = PoweredUp
  BY <1>0, <1>1 DEF PoweredUp, Ios
<1>2. CASE i = PoweredOff
  BY <1>0, <1>2 DEF PoweredOff, Ios
<1>3. CASE i = PoweredOn
  BY <1>0, <1>3 DEF PoweredOn, Ios
<1>4. CASE \E c \in Clocks : i = [ios EXCEPT !.clock = c]
  BY <1>0, <1>4 DEF Ios
<1>5. CASE ios.power = "on" /\ \E w \in Widths : i = [ios EXCEPT !.width = w]
  BY <1>5 DEF Ios
<1>6. CASE ios.power = "on" /\ \E t \in Timings : i = [ios EXCEPT !.timing = t]
  BY <1>6 DEF Ios
<1> QED
  BY <1>1, <1>2, <1>3, <1>4, <1>5, <1>6 DEF NextIos

LEMMA SetIosKeeps ==
  ASSUME Inv, SetIos
  PROVE  Inv'
<1>1. /\ pc = "idle" /\ ios' \in NextIos
      /\ pc' = IF ios'.power = "off" THEN "reset" ELSE "preset"
      /\ UNCHANGED <<board, host, reg, tune, present, tuned>>
  BY DEF SetIos, Idle
<1>2. ios' \in Ios /\ (ios'.power = "on" => ios'.clock # 0)
  BY <1>1, NextIosTyped DEF Inv, Typed, Clocked
<1>3. Typed'
  BY <1>1, <1>2 DEF Inv, Typed, Steps
<1>4. Remembered' /\ Clocked' /\ Limited' /\ Masked' /\ Tapped'
  BY <1>1, <1>2
  DEF Inv, Remembered, Pending, Clocked, Limited, Masked, Tapped, Tapping, Sending
<1> QED
  BY <1>3, <1>4 DEF Inv

LEMMA ReinitKeeps ==
  ASSUME Inv, Reinit
  PROVE  Inv'
<1> DEFINE f == Reset(board, host, reg, TRUE)
<1>1. /\ pc = "reset" /\ pc' = "preset" /\ tuned' = NoTap
      /\ host' = [host EXCEPT !.clock = 0, !.preset_enabled = FALSE]
      /\ reg' = [f EXCEPT !.enable = "ier", !.signal = "ier"]
      /\ UNCHANGED <<board, ios, tune, present>>
  BY DEF Reinit, DoResetHost
<1>2. /\ HostTyped(host') /\ HostKept(host, host', {"clock", "preset_enabled"})
      /\ host'.clock = 0 /\ host'.preset_enabled = FALSE
  BY <1>1, HostReset DEF Inv, Typed
<1>3. /\ RegTyped(f) /\ f.clk = ClockOff /\ f.power = "off"
      /\ f.switch = reg.switch /\ f.pads = reg.pads /\ ~f.preset_en /\ ~f.exec
  <2>1. RegTyped(reg) /\ HostTyped(host)
    BY DEF Inv, Typed
  <2>2. Stopped(reg, f)
    BY <2>1, FullResetFields
  <2> HIDE DEF f
  <2> QED
    BY <2>2 DEF Stopped
<1> HIDE DEF f
<1>4. /\ RegTyped(reg') /\ RegKept(f, reg', {"enable", "signal"})
      /\ reg'.enable = "ier" /\ reg'.signal = "ier"
  BY <1>1, <1>3, RegInts DEF IntSets
<1>5. /\ reg'.clk = ClockOff /\ reg'.power = "off"
      /\ reg'.switch = reg.switch /\ reg'.pads = reg.pads
      /\ ~reg'.preset_en /\ ~reg'.exec
  BY <1>3, <1>4 DEF RegKept, RegFields
<1>6. reg'.preset_en = FALSE /\ reg'.clk.on = FALSE
  BY <1>4, <1>5 DEF RegTyped, ClockOff
<1>7. Typed'
  BY <1>1, <1>2, <1>4 DEF Inv, Typed, Steps
<1>8. Remembered'
  BY <1>1, <1>2, <1>5, <1>6 DEF Inv, Remembered, Pending
<1>9. Clocked' /\ Limited' /\ Masked' /\ Tapped'
  BY <1>1, <1>2, <1>4, <1>5, <1>6
  DEF Inv, Clocked, Limited, Masked, Tapped, Tapping, Sending
<1> QED
  BY <1>7, <1>8, <1>9 DEF Inv

LEMMA DisablePresetKeeps ==
  ASSUME Inv, DisablePreset
  PROVE  Inv'
<1>1. /\ pc = "preset" /\ pc' = "clock"
      /\ UNCHANGED <<board, ios, tune, present, tuned>>
  BY DEF DisablePreset
<1>2. CASE UNCHANGED <<host, reg>>
  <2>1. Typed'
    BY <1>1, <1>2 DEF Inv, Typed, Steps
  <2>2. Remembered' /\ Clocked' /\ Limited' /\ Masked' /\ Tapped'
    BY <1>1, <1>2
    DEF Inv, Remembered, Pending, Clocked, Limited, Masked, Tapped, Tapping, Sending
  <2> QED
    BY <2>1, <2>2 DEF Inv
<1>3. CASE /\ ios.power = "up" /\ board.version >= Spec300
           /\ host' = [host EXCEPT !.preset_enabled = FALSE]
           /\ reg' = [reg EXCEPT !.preset_en = FALSE]
  <2>1. /\ HostTyped(host') /\ HostKept(host, host', {"preset_enabled"})
        /\ host'.preset_enabled = FALSE
    BY <1>3, HostPreset DEF Inv, Typed
  <2>2. /\ RegTyped(reg') /\ RegKept(reg, reg', {"preset_en"})
        /\ reg'.preset_en = FALSE
    BY <1>3, RegPreset DEF Inv, Typed
  <2>3. /\ host'.clock = host.clock /\ host'.actual_clock = host.actual_clock
        /\ host'.pwr = host.pwr /\ host'.final_tap = host.final_tap
    BY <2>1 DEF HostKept, HostFields
  <2>4. /\ reg'.clk = reg.clk /\ SlotKept(reg, reg') /\ IntsKept(reg, reg')
        /\ reg'.uhs = reg.uhs /\ reg'.phy = reg.phy
    BY <2>2 DEF RegKept, RegFields, SlotKept, IntsKept
  <2>5. Typed'
    BY <1>1, <2>1, <2>2 DEF Inv, Typed, Steps
  <2>6. Remembered'
    BY <1>1, <1>3, <2>1, <2>2, <2>3, <2>4 DEF Inv, Remembered, Pending, SlotKept
  <2>7. Limited'
    <3>1. ~(board.version < Spec300)
      BY <1>3, Version DEF Inv, Typed
    <3> QED
      BY <1>1, <3>1 DEF Limited, Tapping, Sending
  <2>8. Clocked' /\ Masked' /\ Tapped'
    BY <1>1, <2>3, <2>4
    DEF Inv, Clocked, Masked, Tapped, Tapping, Sending, IntsKept
  <2> QED
    BY <2>5, <2>6, <2>7, <2>8 DEF Inv
<1> QED
  BY <1>2, <1>3 DEF DisablePreset

LEMMA ChangeClockKeeps ==
  ASSUME Inv, ChangeClock
  PROVE  Inv'
<1>1. /\ pc = "clock" /\ pc' = "power"
      /\ UNCHANGED <<board, ios, tune, present, tuned>>
  BY DEF ChangeClock
<1>2. CASE ios.clock = host.clock /\ UNCHANGED <<host, reg>>
  <2>1. Typed'
    BY <1>1, <1>2 DEF Inv, Typed, Steps
  <2>2. Remembered' /\ Clocked' /\ Limited' /\ Masked' /\ Tapped'
    BY <1>1, <1>2
    DEF Inv, Remembered, Pending, Clocked, Limited, Masked, Tapped, Tapping, Sending
  <2> QED
    BY <2>1, <2>2 DEF Inv
<1>3. ASSUME NEW stable \in BOOLEAN,
             host' = [SetClock(board, host, reg, ios.clock, stable).host
                        EXCEPT !.clock = ios.clock],
             reg' = SetClock(board, host, reg, ios.clock, stable).reg
      PROVE  Inv'
  <2> DEFINE s == SetClock(board, host, reg, ios.clock, stable)
             g == s.host
  <2>0. board \in Boards /\ HostTyped(host) /\ RegTyped(reg) /\ ios.clock \in Nat
    <3>1. ios.clock \in Clocks \cup {0, FreqMin}
      BY DEF Inv, Typed, Ios
    <3>2. Clocks \subseteq Nat /\ FreqMin \in Nat
      BY BusAssumption
    <3>3. 0 \in Nat
      OBVIOUS
    <3>4. ios.clock \in Nat
      BY ONLY <3>1, <3>2, <3>3
    <3> QED
      BY <3>4 DEF Inv, Typed
  <2>1. ClockSet(board, host, reg, ios.clock, s)
    BY <1>3, <2>0, SetClockFields
  <2>2. host' = [g EXCEPT !.clock = ios.clock] /\ reg' = s.reg
    BY <1>3
  <2> HIDE DEF g, s
  <2>3. /\ HostTyped(host') /\ HostKept(g, host', {"clock"})
        /\ host'.clock = ios.clock
    BY <2>0, <2>1, <2>2, HostClock DEF ClockSet, g
  <2>4. /\ host'.actual_clock = g.actual_clock /\ host'.pwr = host.pwr
        /\ host'.preset_enabled = host.preset_enabled
        /\ host'.final_tap = host.final_tap
    BY <2>1, <2>3 DEF ClockSet, g, HostKept, HostFields
  <2>5. Typed'
    BY <1>1, <2>1, <2>2, <2>3 DEF ClockSet, Inv, Typed, Steps
  <2>6. Remembered'
    BY <1>1, <2>1, <2>2, <2>4 DEF ClockSet, Inv, Remembered, Pending, SlotKept, ModeKept
  <2>7. Clocked'
    BY <1>1, <2>1, <2>2, <2>3, <2>4 DEF ClockSet, g, Inv, Clocked, Tapping, Sending
  <2>8. Limited'
    <3>1. board.version < Spec300 => ~(board.version >= Spec300)
      BY Version DEF Inv, Typed
    <3> QED
      BY <1>1, <2>1, <2>2, <2>3, <2>4, <3>1
      DEF ClockSet, Inv, Limited, Tapping, Sending
  <2>9. Masked' /\ Tapped'
    BY <1>1, <2>1, <2>2, <2>4
    DEF ClockSet, Inv, Masked, Tapped, Tapping, Sending, IntsKept, ModeKept
  <2> QED
    BY <2>5, <2>6, <2>7, <2>8, <2>9 DEF Inv
<1> QED
  BY <1>2, <1>3 DEF ChangeClock

LEMMA ChangePowerSets ==
  ASSUME Inv, pc = "power"
  PROVE  PowerSet(board, host, reg, SetPower(board, host, reg, ios.power, Vdd))
<1>1. /\ HostTyped(host) /\ RegTyped(reg) /\ ios.power \in {"off", "up", "on"}
  BY DEF Inv, Typed, Ios
<1>2. /\ ios.power = "off" => reg.power = "off"
      /\ ios.power # "off" => reg.power = host.pwr
  BY DEF Inv, Remembered, Pending
<1>3. board.ops = "sd" /\ ios.power # "off" => SlotInStep(reg)
  BY DEF PowerSet, Inv, Remembered, Pending, SlotInStep
<1> QED
  BY <1>1, <1>2, <1>3, SetPowerFields

LEMMA ChangePowerKeeps ==
  ASSUME Inv, ChangePower
  PROVE  Inv'
<1> DEFINE p == SetPower(board, host, reg, ios.power, Vdd)
<1>1. /\ pc = "power" /\ pc' = "mode"
      /\ host' = p.host /\ reg' = p.reg
      /\ tuned' = IF board.ops = "sd" THEN NoTap ELSE tuned
      /\ UNCHANGED <<board, ios, tune, present>>
  BY DEF ChangePower
<1>2. PowerSet(board, host, reg, p)
  BY <1>1, ChangePowerSets
<1> HIDE DEF p
<1>3. /\ host'.clock = host.clock /\ host'.actual_clock = host.actual_clock
      /\ host'.preset_enabled = host.preset_enabled
      /\ host'.final_tap = host.final_tap
  BY <1>1, <1>2 DEF PowerSet, HostKept, HostFields
<1>4. /\ reg'.clk = reg.clk /\ IntsKept(reg, reg')
      /\ reg'.uhs = reg.uhs /\ reg'.preset_en = reg.preset_en
  BY <1>1, <1>2 DEF PowerSet, RegKept, RegFields, IntsKept
<1>5. Typed'
  BY <1>1, <1>2 DEF PowerSet, Inv, Typed, Steps
<1>6. Remembered'
  BY <1>1, <1>2, <1>3, <1>4 DEF PowerSet, Inv, Remembered, Pending, SlotInStep
<1>7. Clocked' /\ Limited' /\ Masked'
  BY <1>1, <1>3, <1>4
  DEF Inv, Clocked, Limited, Masked, Tapping, Sending, IntsKept
<1>8. Tapped'
  BY <1>1, <1>2, <1>3, <1>4 DEF PowerSet, Inv, Tapped, Tapping, Sending
<1> QED
  BY <1>5, <1>6, <1>7, <1>8 DEF Inv

LEMMA ChangeModeKeeps ==
  ASSUME Inv, ChangeMode
  PROVE  Inv'
<1> DEFINE w == IF ios.width # 8 /\ reg.width = 8 /\ ~board.cap8 THEN 8
                ELSE ios.width
           e == ios.timing \in HighSpeedTimings
           r == [reg EXCEPT !.width = w, !.hispd = e]
<1>0. [SetBusWidth(board, reg, ios.width) EXCEPT !.hispd = e] = r
  BY DEF SetBusWidth
<1>1. w \in Widths /\ e \in BOOLEAN
  BY DEF Inv, Typed, Ios, RegTyped
<1>2. /\ pc = "mode"
      /\ pc' = IF board.version >= Spec300 THEN "gate" ELSE "idle"
      /\ UNCHANGED <<board, ios, tune, present, tuned>>
  BY DEF ChangeMode
<1>3. \/ reg' = r /\ UNCHANGED host
      \/ /\ board.version >= Spec300
         /\ \E stable \in BOOLEAN :
              LET s == SetClock(board, host, r, host.clock, stable)
              IN  host' = s.host /\ reg' = s.reg
  BY <1>0 DEF ChangeMode
<1> HIDE DEF w, e
<1>4. RegTyped(r) /\ RegKept(reg, r, {"width", "hispd"})
  BY <1>1, RegMode DEF Inv, Typed
<1> HIDE DEF r
<1>5. r.clk = reg.clk /\ SlotKept(reg, r) /\ IntsKept(reg, r) /\ ModeKept(reg, r)
  BY <1>4 DEF RegKept, RegFields, SlotKept, IntsKept, ModeKept
<1>6. board.version < Spec300 <=> ~(board.version >= Spec300)
  BY Version DEF Inv, Typed
<1>7. CASE reg' = r /\ UNCHANGED host
  <2>1. Typed'
    BY <1>2, <1>4, <1>7 DEF Inv, Typed, Steps
  <2>2. Remembered' /\ Clocked' /\ Limited' /\ Masked' /\ Tapped'
    BY <1>2, <1>5, <1>6, <1>7
    DEF Inv, Remembered, Pending, Clocked, Limited, Masked, Tapped, Tapping, Sending,
        SlotKept, IntsKept, ModeKept
  <2> QED
    BY <2>1, <2>2 DEF Inv
<1>8. ASSUME board.version >= Spec300, NEW stable \in BOOLEAN,
             host' = SetClock(board, host, r, host.clock, stable).host,
             reg' = SetClock(board, host, r, host.clock, stable).reg
      PROVE  Inv'
  <2> DEFINE s == SetClock(board, host, r, host.clock, stable)
  <2>0. /\ board \in Boards /\ HostTyped(host) /\ RegTyped(r)
        /\ host.clock \in Nat /\ stable \in BOOLEAN
    BY <1>4, <1>8 DEF Inv, Typed, HostTyped
  <2>1. ClockSet(board, host, r, host.clock, s)
    BY <2>0, SetClockFields
  <2>2. host' = s.host /\ reg' = s.reg
    BY <1>8
  <2> HIDE DEF s
  <2>3. Typed'
    BY <1>2, <2>1, <2>2 DEF ClockSet, Inv, Typed, Steps
  <2>4. Remembered' /\ Masked' /\ Tapped'
    BY <1>2, <1>5, <1>6, <1>8, <2>1, <2>2
    DEF ClockSet, Inv, Remembered, Pending, Masked, Tapped, Tapping, Sending,
        SlotKept, IntsKept, ModeKept
  <2>5. Clocked'
    BY <1>2, <1>8, <2>1, <2>2 DEF ClockSet, Inv, Clocked, Tapping, Sending
  <2>6. Limited'
    BY <1>2, <1>6, <1>8 DEF Limited, Tapping, Sending
  <2> QED
    BY <2>3, <2>4, <2>5, <2>6 DEF Inv
<1> QED
  BY <1>3, <1>7, <1>8

LEMMA GateKeeps ==
  ASSUME Inv, Gate
  PROVE  Inv'
<1>1. /\ pc = "gate" /\ pc' = "uhs" /\ reg' = [reg EXCEPT !.clk.on = FALSE]
      /\ UNCHANGED <<board, host, ios, tune, present, tuned>>
  BY DEF Gate
<1>2. RegTyped(reg)
  BY DEF Inv, Typed
<1>3. /\ RegTyped(reg') /\ ~reg'.clk.on
      /\ SlotKept(reg, reg') /\ IntsKept(reg, reg') /\ ModeKept(reg, reg')
      /\ Wire(board, reg'.clk) = Wire(board, reg.clk)
  BY <1>1, <1>2, GateFields
<1>4. Typed'
  BY <1>1, <1>3 DEF Inv, Typed, Steps
<1>5. Remembered' /\ Clocked' /\ Masked' /\ Tapped'
  BY <1>1, <1>3
  DEF Inv, Remembered, Pending, Clocked, Masked, Tapped, Tapping, Sending,
      SlotKept, IntsKept, ModeKept
<1>6. Limited'
  BY <1>1 DEF Inv, Limited, Tapping, Sending
<1> QED
  BY <1>4, <1>5, <1>6 DEF Inv

LEMMA ChangeUhsKeeps ==
  ASSUME Inv, ChangeUhs
  PROVE  Inv'
<1> DEFINE mode == UhsMode(board, host.clock, ios.timing)
           enable == ~board.preset_broken /\ ios.timing \in PresetTimings
           e == host.preset_enabled \/ enable
<1>1. mode \in Modes
  BY DEF UhsMode, Modes
<1>2. e \in BOOLEAN /\ ios.timing \in Timings
  BY DEF Inv, Typed, Ios
<1>3. (reg.preset_en \/ enable) = e
  BY DEF Inv, Remembered
<1>4. /\ pc = "uhs" /\ pc' = "reclock"
      /\ host' = [host EXCEPT !.timing = ios.timing, !.preset_enabled = e]
      /\ tuned' = IF mode = reg.uhs THEN tuned ELSE NoTap
      /\ UNCHANGED <<board, ios, tune, present>>
  BY DEF ChangeUhs
<1>5. reg' = [reg EXCEPT !.uhs = mode, !.preset_en = e]
  <2>1. reg' = [reg EXCEPT !.uhs = mode, !.preset_en = reg.preset_en \/ enable]
    BY DEF ChangeUhs
  <2> QED
    BY <1>3, <2>1
<1> HIDE DEF mode, enable, e
<1>6. HostTyped(host) /\ RegTyped(reg)
  BY DEF Inv, Typed
<1> DEFINE g == [host EXCEPT !.timing = ios.timing, !.preset_enabled = e]
           s == [reg EXCEPT !.uhs = mode, !.preset_en = e]
<1>7. HostTyped(g) /\ HostKept(host, g, {"timing", "preset_enabled"})
  BY <1>2, <1>6, HostMode
<1>8. RegTyped(s) /\ RegKept(reg, s, {"uhs", "preset_en"})
  BY <1>1, <1>2, <1>6, RegUhs
<1>9. g.preset_enabled = e /\ s.preset_en = e /\ s.uhs = mode
  BY <1>6 DEF HostTyped, HostFields, RegTyped, RegFields
<1>10. host' = g /\ reg' = s
  BY <1>4, <1>5
<1> HIDE DEF g, s
<1>11. /\ host'.clock = host.clock /\ host'.actual_clock = host.actual_clock
       /\ host'.pwr = host.pwr /\ host'.final_tap = host.final_tap
  BY <1>7, <1>10 DEF HostKept, HostFields
<1>12. /\ reg'.clk = reg.clk /\ SlotKept(reg, reg') /\ IntsKept(reg, reg')
       /\ reg'.phy = reg.phy
  BY <1>8, <1>10 DEF RegKept, RegFields, SlotKept, IntsKept
<1>13. Typed'
  BY <1>4, <1>7, <1>8, <1>10 DEF Inv, Typed, Steps
<1>14. Remembered'
  BY <1>4, <1>7, <1>8, <1>9, <1>10, <1>11, <1>12 DEF Inv, Remembered, Pending, SlotKept
<1>15. Clocked' /\ Limited' /\ Masked'
  BY <1>4, <1>11, <1>12
  DEF Inv, Clocked, Limited, Masked, Tapping, Sending, IntsKept
<1>16. Tapped'
  BY <1>4, <1>8, <1>9, <1>10, <1>11, <1>12 DEF Inv, Tapped, Tapping, Sending
<1> QED
  BY <1>13, <1>14, <1>15, <1>16 DEF Inv

LEMMA ReclockKeeps ==
  ASSUME Inv, Reclock
  PROVE  Inv'
<1>1. /\ pc = "reclock" /\ pc' = "idle"
      /\ UNCHANGED <<board, ios, tune, present, tuned>>
  BY DEF Reclock
<1>2. PICK stable \in BOOLEAN :
         LET s == SetClock(board, host, reg, host.clock, stable)
         IN  host' = s.host /\ reg' = s.reg
  BY DEF Reclock
<1> DEFINE s == SetClock(board, host, reg, host.clock, stable)
<1>3. host' = s.host /\ reg' = s.reg
  BY <1>2
<1>4. /\ board \in Boards /\ HostTyped(host) /\ RegTyped(reg)
      /\ host.clock \in Nat /\ stable \in BOOLEAN
  BY DEF Inv, Typed, HostTyped
<1>5. ClockSet(board, host, reg, host.clock, s)
  BY <1>4, SetClockFields
<1> HIDE DEF s
<1>6. ~(board.version < Spec300)
  BY <1>1 DEF Inv, Limited
<1>7. Typed'
  BY <1>1, <1>3, <1>5 DEF ClockSet, Inv, Typed, Steps
<1>8. Remembered' /\ Masked' /\ Tapped'
  BY <1>1, <1>3, <1>5
  DEF ClockSet, Inv, Remembered, Pending, Masked, Tapped, Tapping, Sending,
      SlotKept, IntsKept, ModeKept
<1>9. Clocked'
  BY <1>1, <1>3, <1>5 DEF ClockSet, Inv, Clocked, Tapping, Sending
<1>10. Limited'
  BY <1>1, <1>3, <1>5, <1>6 DEF ClockSet, Inv, Limited, Tapping, Sending
<1> QED
  BY <1>7, <1>8, <1>9, <1>10 DEF Inv

-----------------------------------------------------------------------------
(* The steps of tuning *)

LEMMA Bounds == MaxRetry \in Nat /\ MaxLoops \in Nat \ {0}
BY BusAssumption

LEMMA NewTuneTyped == NewTune \in Tune /\ NewTune.min < MaxPhCode
<1>1. MaxPhCode \in Nat \ {0} /\ MaxRetry \in Nat /\ MaxLoops \in Nat \ {0}
  BY TapAssumption, BusAssumption
<1> QED
  BY <1>1 DEF NewTune, Tune

LEMMA ExecuteTuningKeeps ==
  ASSUME Inv, ExecuteTuning
  PROVE  Inv'
<1>1. /\ pc = "idle" /\ ios.power = "on"
      /\ tune' = NewTune /\ tuned' = NoTap
      /\ UNCHANGED <<board, host, ios, present>>
  BY DEF ExecuteTuning, Idle
<1>2. RegTyped(reg)
  BY DEF Inv, Typed
<1>3. tune' \in Tune /\ tune'.min < MaxPhCode
  BY <1>1, NewTuneTyped
<1>4. CASE /\ board.ops = "generic" /\ pc' = "send"
           /\ reg' = [reg EXCEPT !.exec = TRUE, !.enable = "tuning",
                                 !.signal = "tuning"]
  <2> DEFINE s == [reg EXCEPT !.exec = TRUE, !.enable = "tuning",
                              !.signal = "tuning"]
  <2>1. RegTyped(s) /\ RegKept(reg, s, {"exec", "enable", "signal"})
    BY <1>2, RegStart
  <2> HIDE DEF s
  <2>2. reg' = s
    BY <1>4 DEF s
  <2>3. /\ reg'.clk = reg.clk /\ SlotKept(reg, reg') /\ ModeKept(reg, reg')
    BY <2>1, <2>2 DEF RegKept, RegFields, SlotKept, ModeKept
  <2>4. Typed'
    BY <1>1, <1>3, <1>4, <2>1, <2>2 DEF Inv, Typed, Steps
  <2>5. Remembered' /\ Clocked' /\ Limited' /\ Masked' /\ Tapped'
    BY <1>1, <1>4, <2>3
    DEF Inv, Remembered, Pending, Clocked, Limited, Masked, Tapped, Tapping, Sending,
        SlotKept, ModeKept
  <2> QED
    BY <2>4, <2>5 DEF Inv
<1>5. CASE /\ board.ops # "generic" /\ pc' = "tap"
           /\ reg' = [reg EXCEPT !.tuned_clk = FALSE]
  <2> DEFINE s == [reg EXCEPT !.tuned_clk = FALSE]
  <2>1. RegTyped(s) /\ RegKept(reg, s, {"tuned_clk"})
    BY <1>2, RegTunedClk
  <2> HIDE DEF s
  <2>2. reg' = s
    BY <1>5 DEF s
  <2>3. /\ reg'.clk = reg.clk /\ SlotKept(reg, reg') /\ ModeKept(reg, reg')
        /\ IntsKept(reg, reg')
    BY <2>1, <2>2 DEF RegKept, RegFields, SlotKept, ModeKept, IntsKept
  <2>4. Typed'
    BY <1>1, <1>3, <1>5, <2>1, <2>2 DEF Inv, Typed, Steps
  <2>5. Remembered' /\ Clocked' /\ Limited' /\ Masked' /\ Tapped'
    BY <1>1, <1>5, <2>3
    DEF Inv, Remembered, Pending, Clocked, Limited, Masked, Tapped, Tapping, Sending,
        SlotKept, ModeKept, IntsKept
  <2> QED
    BY <2>4, <2>5 DEF Inv
<1> QED
  BY <1>4, <1>5 DEF ExecuteTuning

\* What set_tap keeps of the invariant, for any tap: in tuning the card has a
\* clock to be turned on again.
LEMMA SetTapKeeps ==
  ASSUME Inv, pc \in {"tap", "choose"}, pc' \in {"test", "last"},
         NEW tap \in Int, reg' = SetTap(reg, tap), HostTyped(host'),
         HostKept(host, host', {"final_tap"}),
         UNCHANGED <<board, ios, present, tuned>>
  PROVE  /\ RegTyped(reg') /\ reg'.phy = TapPhy(tap)
         /\ Remembered' /\ Clocked' /\ Limited' /\ Masked'
<1>1. RegTyped(reg)
  BY DEF Inv, Typed
<1>2. /\ RegTyped(reg') /\ reg'.phy = TapPhy(tap)
      /\ SlotKept(reg, reg') /\ IntsKept(reg, reg')
      /\ reg'.uhs = reg.uhs /\ reg'.preset_en = reg.preset_en
      /\ Wire(board, reg'.clk) = Wire(board, reg.clk)
  BY <1>1, SetTapFields
<1>3. host.clock # 0
  BY DEF Inv, Clocked, Tapping
<1>4. /\ host'.clock = host.clock /\ host'.actual_clock = host.actual_clock
      /\ host'.pwr = host.pwr /\ host'.preset_enabled = host.preset_enabled
  BY DEF HostKept, HostFields
<1>5. Remembered'
  BY <1>2, <1>4 DEF Inv, Remembered, Pending, SlotKept
<1>6. Clocked' /\ Masked'
  BY <1>2, <1>3, <1>4 DEF Inv, Clocked, Masked, Tapping, Sending, IntsKept
<1>7. Limited'
  BY <1>2, <1>4 DEF Inv, Limited, Tapping, Sending
<1> QED
  BY <1>2, <1>5, <1>6, <1>7

LEMMA TryTapKeeps ==
  ASSUME Inv, TryTap
  PROVE  Inv'
<1>1. /\ pc = "tap" /\ pc' = "test" /\ reg' = SetTap(reg, tune.min)
      /\ tune' = [tune EXCEPT !.retry = 0]
      /\ UNCHANGED <<board, host, ios, present, tuned>>
  BY DEF TryTap
<1>2. tune.min \in Int /\ tune' \in Tune /\ tune'.min = tune.min
  <2>1. tune \in Tune
    BY DEF Inv, Typed
  <2> QED
    BY <1>1, <2>1, Bounds DEF Tune
<1>3. HostTyped(host') /\ HostKept(host, host', {"final_tap"})
  BY <1>1 DEF Inv, Typed, HostKept
<1>4. RegTyped(reg') /\ Remembered' /\ Clocked' /\ Limited' /\ Masked'
  BY <1>1, <1>2, <1>3, SetTapKeeps
<1>5. Typed'
  BY <1>1, <1>2, <1>4 DEF Inv, Typed, Steps
<1>6. Tapped'
  BY <1>1 DEF Inv, Tapped, Tapping, Sending
<1> QED
  BY <1>4, <1>5, <1>6 DEF Inv

LEMMA ChooseTapKeeps ==
  ASSUME Inv, ChooseTap
  PROVE  Inv'
<1> DEFINE tap == FinalTap(tune.bad)
           final == tap % (2 * MaxPhCode)
<1>1. /\ pc = "choose" /\ pc' = "last" /\ reg' = SetTap(reg, tap)
      /\ host' = [host EXCEPT !.final_tap = final]
      /\ UNCHANGED <<board, ios, tune, present, tuned>>
  BY DEF ChooseTap
<1>2. tap = MedianOfWidest(tune.bad) /\ tap \in Taps \cup {NoTap}
  BY TapSearchFinds
<1>3. tap \in Int
  BY <1>2, TapAssumption DEF Taps, NoTap
<1>4. final \in 0 .. 2 * MaxPhCode - 1 /\ TapPhy(final) = TapPhy(tap)
  BY <1>2, <1>3, TapBounds, SamePhy
<1>5. /\ HostTyped(host') /\ HostKept(host, host', {"final_tap"})
      /\ host'.final_tap = final
  <2> HIDE DEF final
  <2>1. HostTyped(host)
    BY DEF Inv, Typed
  <2> QED
    BY <1>1, <1>4, <2>1, HostTap
<1> HIDE DEF tap
<1>6. /\ RegTyped(reg') /\ reg'.phy = TapPhy(tap)
      /\ Remembered' /\ Clocked' /\ Limited' /\ Masked'
  BY <1>1, <1>3, <1>5, SetTapKeeps
<1>7. Typed'
  BY <1>1, <1>5, <1>6 DEF Inv, Typed, Steps
<1>8. Tapped'
  BY <1>1, <1>2, <1>4, <1>5, <1>6 DEF Inv, Tapped, Tapping, Sending
<1> QED
  BY <1>6, <1>7, <1>8 DEF Inv

\* The pass over the taps ends after the last one.
LEMMA PassTyped ==
  ASSUME tune \in Tune, tune.min < MaxPhCode
  PROVE  /\ [tune EXCEPT !.min = @ + 1] \in Tune
         /\ [tune EXCEPT !.min = @ + 1, !.bad = @ \cup {tune.min}] \in Tune
         /\ [tune EXCEPT !.min = @ + 1].min = tune.min + 1
         /\ [tune EXCEPT !.min = @ + 1, !.bad = @ \cup {tune.min}].min = tune.min + 1
<1>1. MaxPhCode \in Nat
  BY TapAssumption
<1>2. /\ tune.min \in 0 .. MaxPhCode /\ tune.retry \in 0 .. MaxRetry
      /\ tune.bad \in SUBSET Taps /\ tune.loops \in 0 .. MaxLoops - 1
  BY DEF Tune
<1>3. tune.min \in Taps /\ tune.min + 1 \in 0 .. MaxPhCode
  BY <1>1, <1>2 DEF Taps
<1> QED
  BY <1>2, <1>3 DEF Tune

LEMMA TestPassesKeeps ==
  ASSUME Inv, TestPasses
  PROVE  Inv'
<1>1. /\ pc = "test" /\ pc' \in {"test", "tap", "choose"}
      /\ UNCHANGED <<board, host, reg, ios, present, tuned>>
  BY DEF TestPasses
<1>2. tune \in Tune /\ tune.min < MaxPhCode
  BY <1>1 DEF Inv, Typed
<1>3. tune' \in Tune /\ (pc' \in {"tap", "test"} => tune'.min < MaxPhCode)
  <2>1. CASE /\ tune.retry < MaxRetry
             /\ tune' = [tune EXCEPT !.retry = @ + 1] /\ pc' = pc
    BY <1>2, <2>1, Bounds DEF Tune
  <2>2. CASE /\ tune' = [tune EXCEPT !.min = @ + 1]
             /\ pc' = IF tune.min + 1 < MaxPhCode THEN "tap" ELSE "choose"
    BY <1>2, <2>2, PassTyped
  <2> QED
    BY <2>1, <2>2 DEF TestPasses
<1>4. Typed'
  BY <1>1, <1>3 DEF Inv, Typed, Steps
<1>5. Remembered' /\ Clocked' /\ Limited' /\ Masked' /\ Tapped'
  BY <1>1
  DEF Inv, Remembered, Pending, Clocked, Limited, Masked, Tapped, Tapping, Sending
<1> QED
  BY <1>4, <1>5 DEF Inv

\* What a failed request leaves: with the reset of cv181x the PHY and the
\* enabled interrupts are written.
LEMMA AfterFailureFields ==
  ASSUME Inv, NEW s \in AfterFailure(reg)
  PROVE  /\ RegTyped(s) /\ s.clk = reg.clk /\ SlotKept(reg, s)
         /\ s.uhs = reg.uhs /\ s.preset_en = reg.preset_en /\ s.exec = reg.exec
         /\ reg.enable = "ier" /\ reg.signal = "ier" =>
              s.enable = "ier" /\ s.signal = "ier"
<1>1. HostTyped(host) /\ RegTyped(reg)
  BY DEF Inv, Typed
<1>2. CASE s = reg
  BY <1>1, <1>2 DEF SlotKept
<1>3. CASE s = Reset(board, host, reg, FALSE)
  <2> DEFINE f == Reset(board, host, reg, FALSE)
  <2>1. CircuitsReset(board, host, reg, f)
    BY <1>1, ResetFields
  <2> HIDE DEF f
  <2>2. s = f
    BY <1>3 DEF f
  <2> QED
    BY <2>1, <2>2 DEF CircuitsReset
<1> QED
  BY <1>2, <1>3 DEF AfterFailure

\* A test of a tap that fails leaves the rest of the invariant alone.
LEMMA FailureKeeps ==
  ASSUME Inv, pc \in {"test", "last"}, pc' \in {"tap", "choose", "idle"},
         reg' \in AfterFailure(reg),
         UNCHANGED <<board, host, ios, present, tuned>>
  PROVE  RegTyped(reg') /\ Remembered' /\ Clocked' /\ Limited' /\ Masked' /\ Tapped'
<1>1. /\ RegTyped(reg') /\ reg'.clk = reg.clk /\ SlotKept(reg, reg')
      /\ reg'.uhs = reg.uhs /\ reg'.preset_en = reg.preset_en
      /\ reg'.exec = reg.exec
      /\ reg.enable = "ier" /\ reg.signal = "ier" =>
           reg'.enable = "ier" /\ reg'.signal = "ier"
  BY AfterFailureFields
<1>2. Remembered'
  BY <1>1 DEF Inv, Remembered, Pending, SlotKept
<1>3. Clocked' /\ Limited'
  BY <1>1 DEF Inv, Clocked, Limited, Tapping, Sending
<1>4. Masked'
  BY <1>1 DEF Inv, Masked, Tapping, Sending
<1>5. Tapped'
  BY DEF Inv, Tapped, Tapping, Sending
<1> QED
  BY <1>1, <1>2, <1>3, <1>4, <1>5

LEMMA TestFailsKeeps ==
  ASSUME Inv, TestFails
  PROVE  Inv'
<1>1. /\ pc = "test" /\ reg' \in AfterFailure(reg)
      /\ tune' = [tune EXCEPT !.min = @ + 1, !.bad = @ \cup {tune.min}]
      /\ pc' = IF tune.min + 1 < MaxPhCode THEN "tap" ELSE "choose"
      /\ UNCHANGED <<board, host, ios, present, tuned>>
  BY DEF TestFails
<1>2. tune \in Tune /\ tune.min < MaxPhCode
  BY <1>1 DEF Inv, Typed
<1>3. tune' \in Tune /\ tune'.min = tune.min + 1
  BY <1>1, <1>2, PassTyped
<1>4. RegTyped(reg') /\ Remembered' /\ Clocked' /\ Limited' /\ Masked' /\ Tapped'
  BY <1>1, FailureKeeps
<1>5. Typed'
  BY <1>1, <1>3, <1>4 DEF Inv, Typed, Steps
<1> QED
  BY <1>4, <1>5 DEF Inv

LEMMA LastFailsKeeps ==
  ASSUME Inv, LastFails
  PROVE  Inv'
<1>1. /\ pc = "last" /\ reg' \in AfterFailure(reg)
      /\ tune' = NewTune /\ pc' = "idle"
      /\ UNCHANGED <<board, host, ios, present, tuned>>
  BY DEF LastFails, Return
<1>2. RegTyped(reg') /\ Remembered' /\ Clocked' /\ Limited' /\ Masked' /\ Tapped'
  BY <1>1, FailureKeeps
<1>3. Typed'
  BY <1>1, <1>2, NewTuneTyped DEF Inv, Typed, Steps
<1> QED
  BY <1>2, <1>3 DEF Inv

\* The tap of a tuning that succeeds is the one remembered, in seven bits.
LEMMA LastPassesKeeps ==
  ASSUME Inv, LastPasses
  PROVE  Inv'
<1>1. /\ pc = "last" /\ pc' = "idle" /\ tuned' = reg.phy.tap
      /\ tune' = NewTune /\ UNCHANGED <<board, host, reg, ios, present>>
  BY DEF LastPasses, Return
<1>2. reg.phy = TapPhy(host.final_tap) /\ host.final_tap \in Int
  BY <1>1, TapAssumption DEF Inv, Typed, HostTyped, Tapped
<1>3. tuned' = host.final_tap % MaxPhCode /\ tuned' \in Taps
  BY <1>1, <1>2, TapPhyTyped, TapBounds
<1>4. tuned' % MaxPhCode = tuned'
  <2>1. tuned' \in Nat /\ tuned' < MaxPhCode /\ MaxPhCode \in Nat
    BY <1>3, TapAssumption DEF Taps
  <2>2. \A t, n \in Nat : t < n => t % n = t
    BY SMT
  <2> QED
    BY <2>1, <2>2
<1>5. reg.phy = TapPhy(tuned')
  BY <1>2, <1>3, <1>4 DEF TapPhy
<1>6. Typed'
  BY <1>1, <1>3, NewTuneTyped DEF Inv, Typed, Steps
<1>7. Remembered' /\ Clocked' /\ Limited' /\ Masked'
  BY <1>1
  DEF Inv, Remembered, Pending, Clocked, Limited, Masked, Tapping, Sending
<1>8. Tapped'
  BY <1>1, <1>3, <1>5 DEF Inv, Tapped, Masked, Tapping, Sending
<1> QED
  BY <1>6, <1>7, <1>8 DEF Inv

\* What a write of the interrupts and bits of tuning leaves of the invariant.
LEMMA SendingKeeps ==
  ASSUME Inv, pc \in {"send", "check"}, pc' \in {"send", "check", "idle"},
         HostTyped(host'), HostKept(host, host', {"tuning_done"}),
         RegTyped(reg'), reg'.clk = reg.clk, SlotKept(reg, reg'),
         reg'.uhs = reg.uhs, reg'.preset_en = reg.preset_en,
         pc' = "idle" => reg'.enable = "ier" /\ reg'.signal = "ier" /\ ~reg'.exec,
         tune' \in Tune, UNCHANGED <<board, ios, present, tuned>>
  PROVE  Inv'
<1>1. /\ host'.clock = host.clock /\ host'.actual_clock = host.actual_clock
      /\ host'.pwr = host.pwr /\ host'.preset_enabled = host.preset_enabled
      /\ host'.final_tap = host.final_tap
  BY DEF HostKept, HostFields
<1>2. Typed'
  BY DEF Inv, Typed, Steps
<1>3. Remembered'
  BY <1>1 DEF Inv, Remembered, Pending, SlotKept
<1>4. Clocked' /\ Limited'
  BY <1>1 DEF Inv, Clocked, Limited, Tapping, Sending
<1>5. Masked' /\ Tapped'
  BY DEF Inv, Masked, Tapped, Tapping, Sending
<1> QED
  BY <1>2, <1>3, <1>4, <1>5 DEF Inv

LEMMA SendTuningKeeps ==
  ASSUME Inv, SendTuning
  PROVE  Inv'
<1>1. /\ pc = "send" /\ pc' = "check"
      /\ host' = [host EXCEPT !.tuning_done = FALSE]
      /\ UNCHANGED <<board, reg, ios, tune, present, tuned>>
  BY DEF SendTuning
<1>2. HostTyped(host) /\ RegTyped(reg) /\ tune \in Tune
  BY DEF Inv, Typed
<1> DEFINE g == [host EXCEPT !.tuning_done = FALSE]
<1>3. HostTyped(g) /\ HostKept(host, g, {"tuning_done"})
  BY <1>2, HostDone
<1> HIDE DEF g
<1>4. host' = g
  BY <1>1 DEF g
<1> QED
  BY <1>1, <1>2, <1>3, <1>4, SendingKeeps DEF SlotKept

LEMMA TuningIrqKeeps ==
  ASSUME Inv, TuningIrq
  PROVE  Inv'
<1>1. /\ pc = "check" /\ pc' = pc
      /\ host' = [host EXCEPT !.tuning_done = TRUE]
      /\ reg' \in {reg} \cup
           {[reg EXCEPT !.exec = FALSE, !.tuned_clk = t] : t \in BOOLEAN}
      /\ UNCHANGED <<board, ios, tune, present, tuned>>
  BY DEF TuningIrq
<1>2. HostTyped(host) /\ RegTyped(reg) /\ tune \in Tune
  BY DEF Inv, Typed
<1> DEFINE g == [host EXCEPT !.tuning_done = TRUE]
<1>3. HostTyped(g) /\ HostKept(host, g, {"tuning_done"})
  BY <1>2, HostDone
<1> HIDE DEF g
<1>4. host' = g
  BY <1>1 DEF g
<1>5. /\ RegTyped(reg') /\ reg'.clk = reg.clk /\ SlotKept(reg, reg')
      /\ reg'.uhs = reg.uhs /\ reg'.preset_en = reg.preset_en
  <2>1. CASE reg' = reg
    BY <1>2, <2>1 DEF SlotKept
  <2>2. ASSUME NEW t \in BOOLEAN, reg' = [reg EXCEPT !.exec = FALSE, !.tuned_clk = t]
        PROVE  /\ RegTyped(reg') /\ reg'.clk = reg.clk /\ SlotKept(reg, reg')
               /\ reg'.uhs = reg.uhs /\ reg'.preset_en = reg.preset_en
    <3> DEFINE s == [reg EXCEPT !.exec = FALSE, !.tuned_clk = t]
    <3>1. RegTyped(s) /\ RegKept(reg, s, {"exec", "tuned_clk"})
      BY <1>2, RegExec
    <3> HIDE DEF s
    <3>2. reg' = s
      BY <2>2 DEF s
    <3> QED
      BY <3>1, <3>2 DEF RegKept, RegFields, SlotKept
  <2> QED
    BY <1>1, <2>1, <2>2
<1> QED
  BY <1>1, <1>2, <1>3, <1>4, <1>5, SendingKeeps

LEMMA GiveUpTuningKeeps ==
  ASSUME Inv, GiveUpTuning
  PROVE  Inv'
<1> DEFINE q == ResetTuning(reg)
           f == Reset(board, host, q, FALSE)
           s == EndTuning(f)
<1>1. /\ pc = "check" /\ pc' = "idle" /\ reg' = s /\ tune' = NewTune
      /\ UNCHANGED <<board, host, ios, present, tuned>>
  BY DEF GiveUpTuning, Return
<1>2. HostTyped(host) /\ RegTyped(reg)
  BY DEF Inv, Typed
<1>3. RegTyped(q) /\ RegKept(reg, q, {"exec", "tuned_clk"}) /\ ~q.exec
  BY <1>2, ResetTuningFields
<1> HIDE DEF q
<1>4. CircuitsReset(board, host, q, f)
  BY <1>2, <1>3, ResetFields
<1> HIDE DEF f
<1>5. /\ RegTyped(s) /\ RegKept(f, s, {"enable", "signal"})
      /\ s.enable = "ier" /\ s.signal = "ier"
  BY <1>4, EndTuningFields DEF CircuitsReset
<1> HIDE DEF s
<1>6. /\ s.clk = reg.clk /\ SlotKept(reg, s)
      /\ s.uhs = reg.uhs /\ s.preset_en = reg.preset_en /\ s.exec = q.exec
  BY <1>3, <1>4, <1>5 DEF CircuitsReset, RegKept, RegFields, SlotKept
<1>7. HostKept(host, host', {"tuning_done"}) /\ HostTyped(host')
  BY <1>1, <1>2 DEF HostKept
<1>8. tune' \in Tune
  BY <1>1, NewTuneTyped
<1> QED
  BY <1>1, <1>3, <1>5, <1>6, <1>7, <1>8, SendingKeeps

LEMMA CheckTuningKeeps ==
  ASSUME Inv, CheckTuning
  PROVE  Inv'
<1>1. /\ pc = "check" /\ UNCHANGED <<board, host, ios, present, tuned>>
  BY DEF CheckTuning
<1>2. HostTyped(host) /\ RegTyped(reg) /\ tune \in Tune
  BY DEF Inv, Typed
<1>3. HostKept(host, host', {"tuning_done"}) /\ HostTyped(host')
  BY <1>1, <1>2 DEF HostKept
<1>4. CASE /\ tune.loops + 1 < MaxLoops
           /\ tune' = [tune EXCEPT !.loops = @ + 1]
           /\ pc' = "send" /\ UNCHANGED reg
  <2>1. tune' \in Tune
    BY <1>2, <1>4, Bounds DEF Tune
  <2> QED
    BY <1>1, <1>2, <1>3, <1>4, <2>1, SendingKeeps DEF SlotKept
<1> DEFINE q == IF ~reg.exec /\ reg.tuned_clk THEN reg ELSE ResetTuning(reg)
           s == EndTuning(q)
<1>5. CASE reg' = s /\ tune' = NewTune /\ pc' = "idle"
  <2>1. /\ RegTyped(q) /\ RegKept(reg, q, {"exec", "tuned_clk"}) /\ ~q.exec
    <3>1. CASE ~reg.exec /\ reg.tuned_clk
      BY <1>2, <3>1 DEF RegKept
    <3>2. CASE ~(~reg.exec /\ reg.tuned_clk)
      <4>1. q = ResetTuning(reg)
        BY <3>2
      <4> HIDE DEF q
      <4> QED
        BY <1>2, <4>1, ResetTuningFields
    <3> QED
      BY <3>1, <3>2
  <2> HIDE DEF q
  <2>2. /\ RegTyped(s) /\ RegKept(q, s, {"enable", "signal"})
        /\ s.enable = "ier" /\ s.signal = "ier"
    BY <2>1, EndTuningFields
  <2> HIDE DEF s
  <2>3. /\ s.clk = reg.clk /\ SlotKept(reg, s)
        /\ s.uhs = reg.uhs /\ s.preset_en = reg.preset_en /\ s.exec = q.exec
    BY <2>1, <2>2 DEF RegKept, RegFields, SlotKept
  <2> QED
    BY <1>1, <1>3, <1>5, <2>1, <2>2, <2>3, NewTuneTyped, SendingKeeps
<1> QED
  BY <1>4, <1>5 DEF CheckTuning, Return

-----------------------------------------------------------------------------
(* Around the calls *)

LEMMA RequestFailsKeeps ==
  ASSUME Inv, RequestFails
  PROVE  Inv'
<1>1. /\ pc = "idle" /\ reg' = Reset(board, host, reg, FALSE)
      /\ UNCHANGED <<board, host, ios, pc, tune, present, tuned>>
  BY DEF RequestFails, Idle
<1>2. CircuitsReset(board, host, reg, reg')
  <2>1. HostTyped(host) /\ RegTyped(reg)
    BY DEF Inv, Typed
  <2> QED
    BY <1>1, <2>1, ResetFields
<1>3. ASSUME tuned # NoTap, reg.uhs = "SDR104"
      PROVE  reg'.phy = TapPhy(tuned)
  <2>1. reg'.phy = TapPhy(host.final_tap)
    BY <1>2, <1>3 DEF CircuitsReset, CviPhy, Inv, Tapped
  <2>2. tuned = host.final_tap % MaxPhCode /\ tuned \in Taps
    BY <1>3 DEF Inv, Tapped, Typed
  <2>3. TapPhy(tuned) = TapPhy(host.final_tap)
    <3>1. tuned % MaxPhCode = tuned
      <4>1. tuned \in Nat /\ tuned < MaxPhCode /\ MaxPhCode \in Nat
        BY <2>2, TapAssumption DEF Taps
      <4>2. \A t, n \in Nat : t < n => t % n = t
        BY SMT
      <4> QED
        BY <4>1, <4>2
    <3> QED
      BY <2>2, <3>1 DEF TapPhy
  <2> QED
    BY <2>1, <2>3
<1>4. Typed'
  BY <1>1, <1>2 DEF CircuitsReset, Inv, Typed
<1>5. Remembered' /\ Clocked' /\ Limited' /\ Masked'
  BY <1>1, <1>2
  DEF CircuitsReset, SlotKept, Inv, Remembered, Pending, Clocked, Limited, Masked,
      Tapping, Sending
<1>6. Tapped'
  BY <1>1, <1>2, <1>3 DEF CircuitsReset, Inv, Tapped, Tapping, Sending
<1> QED
  BY <1>4, <1>5, <1>6 DEF Inv

LEMMA CardMovesKeeps ==
  ASSUME Inv, CardMoves
  PROVE  Inv'
<1>1. Typed'
  BY DEF CardMoves, Inv, Typed
<1>2. Remembered' /\ Clocked' /\ Limited' /\ Masked' /\ Tapped'
  BY DEF CardMoves, Inv, Remembered, Pending, Clocked, Limited, Masked, Tapped,
         Tapping, Sending
<1> QED
  BY <1>1, <1>2 DEF Inv

-----------------------------------------------------------------------------
(* All steps *)

LEMMA StepInv == Inv /\ [Next]_vars => Inv'
<1> SUFFICES ASSUME Inv, [Next]_vars PROVE Inv'
  OBVIOUS
<1>1. CASE UNCHANGED vars
  <2>1. Typed'
    BY <1>1 DEF vars, Inv, Typed
  <2>2. Remembered' /\ Clocked' /\ Limited' /\ Masked' /\ Tapped'
    BY <1>1 DEF vars, Inv, Remembered, Pending, Clocked, Limited, Masked, Tapped,
                Tapping, Sending
  <2> QED
    BY <2>1, <2>2 DEF Inv
<1>2. CASE SetIos
  BY <1>2, SetIosKeeps
<1>3. CASE ExecuteTuning
  BY <1>3, ExecuteTuningKeeps
<1>4. CASE Reinit
  BY <1>4, ReinitKeeps
<1>5. CASE DisablePreset
  BY <1>5, DisablePresetKeeps
<1>6. CASE ChangeClock
  BY <1>6, ChangeClockKeeps
<1>7. CASE ChangePower
  BY <1>7, ChangePowerKeeps
<1>8. CASE ChangeMode
  BY <1>8, ChangeModeKeeps
<1>9. CASE Gate
  BY <1>9, GateKeeps
<1>10. CASE ChangeUhs
  BY <1>10, ChangeUhsKeeps
<1>11. CASE Reclock
  BY <1>11, ReclockKeeps
<1>12. CASE TryTap
  BY <1>12, TryTapKeeps
<1>13. CASE TestPasses
  BY <1>13, TestPassesKeeps
<1>14. CASE TestFails
  BY <1>14, TestFailsKeeps
<1>15. CASE ChooseTap
  BY <1>15, ChooseTapKeeps
<1>16. CASE LastPasses
  BY <1>16, LastPassesKeeps
<1>17. CASE LastFails
  BY <1>17, LastFailsKeeps
<1>18. CASE SendTuning
  BY <1>18, SendTuningKeeps
<1>19. CASE GiveUpTuning
  BY <1>19, GiveUpTuningKeeps
<1>20. CASE CheckTuning
  BY <1>20, CheckTuningKeeps
<1>21. CASE TuningIrq
  BY <1>21, TuningIrqKeeps
<1>22. CASE RequestFails
  BY <1>22, RequestFailsKeeps
<1>23. CASE CardMoves
  BY <1>23, CardMovesKeeps
<1> QED
  BY <1>1, <1>2, <1>3, <1>4, <1>5, <1>6, <1>7, <1>8, <1>9, <1>10, <1>11, <1>12,
     <1>13, <1>14, <1>15, <1>16, <1>17, <1>18, <1>19, <1>20, <1>21, <1>22, <1>23
  DEF Next, Step

\* The invariant, for every board and everything the upper layer asks for.
THEOREM InvAlways == Spec => []Inv
BY InitInv, StepInv, PTL DEF Spec

\* Registers stay within their fields, and the loops of tuning within their
\* bounds.
THEOREM TypeAlways == Spec => []TypeOK
<1>1. ASSUME NEW h, HostTyped(h) PROVE h \in Host
  BY <1>1 DEF HostTyped, HostFields, IsRec, Host
<1>2. ASSUME NEW r, RegTyped(r) PROVE r \in Reg
  BY <1>2 DEF RegTyped, RegFields, IsRec, Reg
<1>3. Inv => TypeOK
  BY <1>1, <1>2 DEF Inv, Typed, TypeOK
<1> QED
  BY <1>3, InvAlways, PTL

\* Between calls and in tuning the card never has a faster clock than the
\* upper layer asked for, whatever settings and resets came before: without
\* presets, and for every clock but those below the slowest and those in the
\* gap.
THEOREM NotFasterAlways == Spec => []NotFaster
<1>1. Inv => NotFaster
  <2> SUFFICES ASSUME Inv, reg.clk.on, ~reg.preset_en,
                      pc \in {"idle", "tap", "test", "choose", "last", "send",
                              "check"},
                      host.clock >= SlowestClk(board), ~InGap(board, host.clock)
               PROVE  Wire(board, reg.clk) <= host.clock
    BY DEF NotFaster
  <2>1. host.clock # 0 /\ ~host.preset_enabled
    BY DEF Inv, Clocked, Remembered
  <2> QED
    BY <2>1 DEF Inv, Limited, Tapping, Sending
<1> QED
  BY <1>1, InvAlways, PTL

\* Outside the gap mmc->actual_clock is the clock on the wire, with presets or
\* without, whatever settings and resets came before.
THEOREM ReportedAlways == Spec => []Reported
<1>1. Inv => Reported
  BY DEF Inv, Clocked, Reported
<1> QED
  BY <1>1, InvAlways, PTL

\* Between calls, what the driver remembers of the power level, of presets and
\* of the clock is in the registers, and the slot of cv181x has its power,
\* switch and pads in one state.
THEOREM InStepAlways == Spec => []InStep
<1>1. Inv => InStep
  BY DEF Inv, Remembered, Pending, Clocked, InStep, Idle
<1> QED
  BY <1>1, InvAlways, PTL

\* However tuning ends, the interrupts of the host are enabled again.
THEOREM RestoredAlways == Spec => []Restored
<1>1. Inv => Restored
  BY DEF Inv, Masked, Sending, Restored, Idle
<1> QED
  BY <1>1, InvAlways, PTL

\* The tap set is the middle of the widest window, for any number of taps and
\* whatever the tests gave.
THEOREM MedianAlways == Spec => []Median
<1>1. Inv => Median
  BY DEF Inv, Tapped, Median
<1> QED
  BY <1>1, InvAlways, PTL

\* The tap found stays in the PHY as long as its mode is in use: through every
\* reset, and through every setting where set_ios leaves the PHY alone.  Where
\* set_power restores the PHY (the SD slot) each set_ios with power also ends
\* what is said here, as ChangePower clears tuned with the tap.
THEOREM TapKeptAlways == Spec => []TapKept
<1>1. Inv => TapKept
  BY DEF Inv, Tapped, TapKept
<1> QED
  BY <1>1, InvAlways, PTL

\* Only two steps change the bus speed mode: sdhci_set_ios where it writes the
\* mode, and a reset of all.
LEMMA ModeChanges ==
  ASSUME Inv, Next, reg'.uhs # reg.uhs
  PROVE  Reinit \/ ChangeUhs
<1>0. RegTyped(reg) /\ HostTyped(host) /\ board \in Boards
  BY DEF Inv, Typed
<1>1. ASSUME NEW r, RegTyped(r), r.uhs = reg.uhs,
             NEW clock \in Nat, NEW stable \in BOOLEAN,
             reg' = SetClock(board, host, r, clock, stable).reg
      PROVE  FALSE
  <2> DEFINE s == SetClock(board, host, r, clock, stable)
  <2>1. ClockSet(board, host, r, clock, s)
    BY <1>0, <1>1, SetClockFields
  <2> HIDE DEF s
  <2>2. reg' = s.reg
    BY <1>1 DEF s
  <2> QED
    BY <1>1, <2>1, <2>2 DEF ClockSet, ModeKept
<1>2. ~ChangeClock
  <2> SUFFICES ASSUME ChangeClock PROVE FALSE
    OBVIOUS
  <2>1. PICK stable \in BOOLEAN :
          reg' = SetClock(board, host, reg, ios.clock, stable).reg
    BY DEF ChangeClock
  <2>2. ios.clock \in Clocks \cup {0, FreqMin}
    BY DEF Inv, Typed, Ios
  <2>3. Clocks \subseteq Nat /\ FreqMin \in Nat
    BY BusAssumption
  <2>4. 0 \in Nat
    OBVIOUS
  <2>5. ios.clock \in Nat
    BY ONLY <2>2, <2>3, <2>4
  <2> QED
    BY <1>0, <1>1, <2>1, <2>5
<1>3. ~Reclock
  <2> SUFFICES ASSUME Reclock PROVE FALSE
    OBVIOUS
  <2>1. PICK stable \in BOOLEAN :
          reg' = SetClock(board, host, reg, host.clock, stable).reg
    BY DEF Reclock
  <2> QED
    BY <1>0, <1>1, <2>1 DEF HostTyped
<1>4. ~ChangeMode
  <2> SUFFICES ASSUME ChangeMode PROVE FALSE
    OBVIOUS
  <2> DEFINE w == IF ios.width # 8 /\ reg.width = 8 /\ ~board.cap8 THEN 8
                  ELSE ios.width
             e == ios.timing \in HighSpeedTimings
             r == [reg EXCEPT !.width = w, !.hispd = e]
  <2>1. w \in Widths /\ e \in BOOLEAN
    BY DEF Inv, Typed, Ios, RegTyped
  <2>2. [SetBusWidth(board, reg, ios.width) EXCEPT !.hispd = e] = r
    BY DEF SetBusWidth
  <2>3. \/ reg' = r
        \/ \E stable \in BOOLEAN :
             reg' = SetClock(board, host, r, host.clock, stable).reg
    BY <2>2 DEF ChangeMode
  <2> HIDE DEF w, e
  <2>4. RegTyped(r) /\ RegKept(reg, r, {"width", "hispd"})
    BY <1>0, <2>1, RegMode
  <2> HIDE DEF r
  <2>5. r.uhs = reg.uhs
    BY <2>4 DEF RegKept, RegFields
  <2>6. host.clock \in Nat
    BY <1>0 DEF HostTyped
  <2> QED
    BY <1>1, <2>3, <2>4, <2>5, <2>6
<1>5. ~ChangePower
  <2> SUFFICES ASSUME ChangePower PROVE FALSE
    OBVIOUS
  <2> DEFINE p == SetPower(board, host, reg, ios.power, Vdd)
  <2>1. PowerSet(board, host, reg, p)
    BY ChangePowerSets DEF ChangePower
  <2> HIDE DEF p
  <2>2. reg' = p.reg
    BY DEF ChangePower, p
  <2> QED
    BY <2>1, <2>2 DEF PowerSet, RegKept, RegFields
<1>6. ~(TryTap \/ ChooseTap)
  <2>1. ASSUME NEW tap \in Int, reg' = SetTap(reg, tap) PROVE FALSE
    BY <1>0, <2>1, SetTapFields
  <2>2. tune.min \in Int
    BY DEF Inv, Typed, Tune
  <2>3. FinalTap(tune.bad) \in Int
    BY TapSearchFinds, TapAssumption DEF Taps, NoTap
  <2> QED
    BY <2>1, <2>2, <2>3 DEF TryTap, ChooseTap
<1>7. ~(TestFails \/ LastFails)
  BY AfterFailureFields DEF TestFails, LastFails
<1>8. ~GiveUpTuning
  <2> SUFFICES ASSUME GiveUpTuning PROVE FALSE
    OBVIOUS
  <2> DEFINE q == ResetTuning(reg)
             f == Reset(board, host, q, FALSE)
             s == EndTuning(f)
  <2>1. RegTyped(q) /\ RegKept(reg, q, {"exec", "tuned_clk"})
    BY <1>0, ResetTuningFields
  <2> HIDE DEF q
  <2>2. CircuitsReset(board, host, q, f)
    BY <1>0, <2>1, ResetFields
  <2> HIDE DEF f
  <2>3. RegKept(f, s, {"enable", "signal"})
    BY <2>2, EndTuningFields DEF CircuitsReset
  <2> HIDE DEF s
  <2>4. reg' = s
    BY DEF GiveUpTuning, s, f, q
  <2> QED
    BY <2>1, <2>2, <2>3, <2>4 DEF CircuitsReset, RegKept, RegFields
<1>9. ~RequestFails
  <2> SUFFICES ASSUME RequestFails PROVE FALSE
    OBVIOUS
  <2>1. CircuitsReset(board, host, reg, reg')
    BY <1>0, ResetFields DEF RequestFails
  <2> QED
    BY <2>1 DEF CircuitsReset
<1>10. ~(CheckTuning \/ TuningIrq \/ ExecuteTuning)
  BY <1>0 DEF CheckTuning, TuningIrq, ExecuteTuning, EndTuning, ResetTuning, RegTyped,
              RegFields
<1>11. ~(DisablePreset \/ Gate)
  BY <1>0 DEF DisablePreset, Gate, RegTyped, RegFields
<1>12. ~(SetIos \/ TestPasses \/ LastPasses \/ SendTuning \/ CardMoves)
  BY DEF SetIos, TestPasses, LastPasses, SendTuning, CardMoves
<1> QED
  BY <1>2, <1>3, <1>4, <1>5, <1>6, <1>7, <1>8, <1>9, <1>10, <1>11, <1>12
  DEF Next, Step

\* The bus speed mode changes only while the card has no clock, or in a reset
\* that stops it.
THEOREM GlitchlessAlways == Spec => Glitchless
<1>1. ASSUME Inv, [Next]_vars, reg'.uhs # reg.uhs
      PROVE  ~reg'.clk.on /\ (~reg.clk.on \/ pc = "reset")
  <2>1. Reinit \/ ChangeUhs
    <3>1. Next
      BY <1>1 DEF vars
    <3> QED
      BY <1>1, <3>1, ModeChanges
  <2>2. CASE Reinit
    <3>1. pc = "reset" /\ pc' = "preset" /\ host'.clock = 0
      <4>1. host' = [host EXCEPT !.clock = 0, !.preset_enabled = FALSE]
        BY <2>2 DEF Reinit, DoResetHost
      <4> QED
        BY <1>1, <2>2, <4>1, HostReset DEF Reinit, Inv, Typed
    <3>2. Inv'
      BY <1>1, <2>2, ReinitKeeps
    <3> QED
      BY <3>1, <3>2 DEF Inv, Clocked
  <2>3. CASE ChangeUhs
    <3>1. pc = "uhs" /\ pc' = "reclock" /\ ~reg.clk.on
      BY <1>1, <2>3 DEF ChangeUhs, Inv, Clocked
    <3>2. reg'.clk = reg.clk
      <4>1. RegTyped(reg)
        BY <1>1 DEF Inv, Typed
      <4> QED
        BY <2>3, <4>1 DEF ChangeUhs, RegTyped, RegFields
    <3> QED
      BY <3>1, <3>2
  <2> QED
    BY <2>1, <2>2, <2>3
<1>2. Inv /\ [Next]_vars => [reg'.uhs # reg.uhs
                               => ~reg'.clk.on /\ (~reg.clk.on \/ pc = "reset")]_vars
  BY <1>1
<1> QED
  BY <1>2, InvAlways, PTL DEF Spec, Glitchless

=============================================================================
