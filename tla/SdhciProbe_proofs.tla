-------------------------- MODULE SdhciProbe_proofs --------------------------
(***************************************************************************)
(* What holds of SdhciProbe for every board, every controller and every    *)
(* choice of the steps that fail: the properties of its run, but Noticed,  *)
(* which is about fairness.                                                *)
(*                                                                         *)
(* The prober runs once through its steps, so each part of the invariant   *)
(* says from which step to which a fact holds.  The handler can be in its  *)
(* card part only once the prober has armed card detection (Watching),     *)
(* with two of its steps to come: this is why no handler that wakes the    *)
(* thread meets a host that is half built.                                 *)
(***************************************************************************)
EXTENDS SdhciProbe, FiniteSetTheorems, TLAPS

-----------------------------------------------------------------------------
(* The inductive invariant *)

Flags == {"330", "180", "sdma", "adma", "64bit", "auto_cmd12", "auto_cmd23"}
Fields == {"flags", "caps", "quirks", "can", "adma_table", "bounce", "max_req",
           "max_seg", "max_segs", "max_blk", "ocr", "valid_ocr", "rmh_flags"}
HostTyped ==
  /\ DOMAIN host = Fields
  /\ host.flags \subseteq Flags
  /\ host.adma_table \in BOOLEAN /\ host.bounce \in {0, 64}
  /\ host.max_req \in 0 .. 512 /\ host.max_segs \in 0 .. 128
  /\ host.max_blk \in {0, 512, 1024, 2048}
IrqRecord == [
  pc: {"idle", "card", "arm", "signal", "again", "wake", "lost"},
  intmask: SUBSET Ints, present: BOOLEAN, loops: 0 .. MaxLoops, wake: BOOLEAN]

\* The registers: what is pending is enabled, card states apart.
RegTyped(r) ==
  /\ r \in [enable: SUBSET Ints, signal: SUBSET Ints, status: SUBSET Ints]
  /\ r.status \subseteq r.enable \cup Card

\* TypeOK with all fields.
Typed ==
  /\ board \in Boards /\ ctl \in Controllers /\ pc \in Steps
  /\ ret \in {"0", "EINVAL", "ENXIO", "ENOMEM", "ENODEV", "ERROR"}
  /\ HostTyped
  /\ held \subseteq {"host", "table", "bounce", "queue", "desc"}
  /\ RegTyped(reg)
  /\ ier \subseteq Ints
  /\ irq \in IrqRecord
  /\ line \in [handler: BOOLEAN, waitq: BOOLEAN, thread: BOOLEAN]
  /\ thread \in [pc: {"waiting", "event"}, isr: SUBSET Card, woken: BOOLEAN]
  /\ present \in BOOLEAN /\ known \in BOOLEAN
  /\ loc \in [present: BOOLEAN, ier: SUBSET Ints]
  /\ events \in 0 .. MaxEvents

\* The prober has armed card detection.
Watching == pc \in {"load", "signal", "ready"} /\ Detects(host)

\* The two sets differ at most in which card interrupt they hold.
Alike(a, b) ==
  /\ a \ Card = b \ Card
  /\ \E c, d \in Card : a \cap Card = {c} /\ b \cap Card = {d}

\* The two registers hold host->ier, but for the moments in which it is written
\* to them and for the stale value of the prober, and card interrupts are for
\* a host that watches the card.
Arming ==
  /\ reg.enable = ier
  /\ \/ reg.signal = ier \/ pc \in {"load", "signal"} \/ irq.pc = "signal"
     \/ pc = "ready" /\ Detects(host) /\ reg.signal = Crossed
  /\ pc \in {"init", "parse", "read_caps"} => ier = {}
  /\ pc \in {"arm", "load", "signal"} => Detects(host)
  /\ pc = "signal" => Alike(loc.ier, ier)
  /\ IF Watching THEN \E c \in Card : ier \cap Card = {c}
     ELSE /\ ier \cap Card = {} /\ reg.status \cap Card = {}
          /\ irq.pc \notin {"card", "arm", "signal", "wake"} /\ ~irq.wake

\* The handler runs once it is installed, and its descriptor goes only when
\* the thread could not be created.
Live ==
  /\ irq.pc # "idle" => line.handler
  /\ line.handler =>
       "desc" \in held \/ (pc \in {"unwq", "failed"} /\ ret = "ENOMEM")

\* The steps from which on a resource is there.
FromQueue == {"sdhci_init", "install", "waitq", "thread", "add", "detect", "arm",
              "load", "signal", "ready"}
FromThread == {"add", "detect", "arm", "load", "signal", "ready"}
FromTable == {"clocks", "caps", "limits", "queue"} \cup FromQueue

Resources ==
  /\ pc \in {"waitq", "thread"} \cup FromThread => "desc" \in held
  /\ pc \in {"thread"} \cup FromThread => line.waitq
  /\ pc \in {"unwq", "failed"} => ret # "0"
  /\ "queue" \in held => pc \in FromQueue \cup {"unwq"}
  /\ line.thread => pc \in FromThread
  /\ host.adma_table => pc \in FromTable \cup {"unwq"} /\ "table" \in held

\* What the flags promise, as far as the probe has come.
Promised ==
  /\ pc \in FromTable => ("adma" \in host.flags <=> host.adma_table)
  /\ pc \in {"init", "parse", "read_caps", "dma"} => host.flags \subseteq {"330"}
  /\ pc \in {"table", "clocks"} => host.flags \cap {"180", "auto_cmd23"} = {}
  /\ pc = "caps" => "180" \notin host.flags
  /\ pc \in FromTable \ {"clocks", "caps", "limits"} /\ host.bounce > 0 =>
       "bounce" \in held /\ host.flags \cap {"adma", "sdma"} = {"sdma"}
  /\ pc \in FromTable \cup {"table"} => ~({"sdma", "64bit"} \subseteq host.flags)
  /\ pc \in FromTable /\ "auto_cmd23" \in host.flags =>
       "adma" \in host.flags \/ "sdma" \notin host.flags
  /\ pc \in FromTable \ {"clocks", "caps"} => host.ocr # {}
  /\ pc \in {"init", "parse", "read_caps", "dma", "table", "clocks", "caps",
             "limits"} => host.bounce = 0

\* Requests fit in the buffer, segments in a descriptor.
Fits(h) ==
  /\ "adma" \in h.flags => h.max_seg <= 64
  /\ h.bounce > 0 => h.max_req <= h.bounce /\ h.max_seg <= h.bounce

SingleFor(h) ==
  h.flags \cap {"adma", "sdma"} = {"sdma"} /\ h.bounce = 0 => h.max_segs = 1

\* The limits, from the step that sets them on, the last until mmc_add_host.
Limited ==
  /\ pc \in {"queue"} \cup FromQueue => Fits(host)
  /\ pc \in {"queue", "sdhci_init", "install", "waitq", "thread", "add"} =>
       SingleFor(host)

\* A board without 1.8 V.
Low ==
  Has("no-1-8-v") =>
    /\ pc \in FromTable \cup {"read_caps", "dma", "table"} =>
         "no-1-8-v" \in host.quirks
    /\ pc \in FromTable \ {"clocks", "caps"} =>
         /\ "180" \notin host.flags
         /\ host.caps \cap {"ddr_1_8v", "caps2_hs200"} = {}
    /\ pc \in {"read_caps", "dma", "table", "clocks", "caps"} =>
         "caps2_hs200" \notin host.caps
    /\ pc \in FromTable \cup {"read_caps", "dma", "table"} =>
         ("hs200_1_8v" \in host.caps => Has("hs200_1_8v"))
    /\ pc \in FromThread \ {"add"} =>
         /\ "165_195" \notin host.valid_ocr /\ "ddr_1_8v" \notin host.rmh_flags
         /\ "hs200_1_8v" \in host.rmh_flags => Has("hs200_1_8v")

Inv == Typed /\ Arming /\ Live /\ Resources /\ Promised /\ Limited /\ Low

-----------------------------------------------------------------------------
(* Types *)

\* The largest block is one of the three that the specification of the
\* controller allows, whatever the capability field says.
LEMMA BlockSizeIs ==
  ASSUME NEW n \in 0 .. 3
  PROVE  BlockSize(n) \in {512, 1024, 2048}
BY SMT DEF BlockSize

\* The program starts in a state of the invariant.
LEMMA InitInv == Init => Inv
<1> SUFFICES ASSUME Init PROVE Inv
  OBVIOUS
<1>1. Typed
  <2>1. HostTyped
    BY DEF Init, HostTyped, Fields, Flags
  <2>2. irq \in IrqRecord
    BY ProbeAssumption DEF Init, IrqRecord, Ints
  <2>3. events \in 0 .. MaxEvents
    BY ProbeAssumption DEF Init
  <2>4. RegTyped(reg)
    BY DEF Init, Cleared, RegTyped, Ints, Card
  <2>5. thread \in [pc: {"waiting", "event"}, isr: SUBSET Card, woken: BOOLEAN]
    BY DEF Init
  <2> QED
    BY <2>1, <2>2, <2>3, <2>4, <2>5 DEF Init, Typed, Steps
<1>2. Arming
  BY DEF Init, Arming, Watching, Cleared, Card
<1>3. Live /\ Resources /\ Promised /\ Limited /\ Low
  BY DEF Init, Live, Resources, Promised, Limited, Low, FromTable, FromQueue,
    FromThread
<1> QED
  BY <1>1, <1>2, <1>3 DEF Inv

\* A step of the prober keeps the record of the host well formed.
LEMMA ProberHost ==
  ASSUME HostTyped, board \in Boards, ctl \in Controllers, Prober
  PROVE  HostTyped'
<1> SUFFICES ASSUME host' # host PROVE HostTyped'
  BY DEF HostTyped
<1>1. CASE PltfmInit
  <2>1. host' = [host EXCEPT !.flags = {"330"}]
    BY <1>1 DEF PltfmInit
  <2> QED
    BY <2>1 DEF HostTyped, Fields, Flags
<1>2. CASE MmcOfParse
  <2>1. PICK c, q : host' = [host EXCEPT !.caps = c, !.quirks = q]
    BY <1>2 DEF MmcOfParse
  <2> QED
    BY <2>1 DEF HostTyped, Fields
<1>3. CASE ReadCaps
  <2>1. PICK c : host' = [host EXCEPT !.can = c]
    BY <1>3 DEF ReadCaps
  <2> QED
    BY <2>1 DEF HostTyped, Fields
<1>4. CASE ChooseDma
  <2> DEFINE big == host.can \cap {"64bit"}
             sdma == IF big = {} THEN host.can \cap {"sdma"} ELSE {}
             adma == IF ctl.version >= 1 THEN host.can \cap {"adma"} ELSE {}
             flags == host.flags \cup big \cup sdma \cup adma
  <2>1. host' = [host EXCEPT !.flags = flags]
    BY <1>4 DEF ChooseDma
  <2>2. flags \subseteq Flags
    BY DEF HostTyped, Flags
  <2> HIDE DEF flags
  <2> QED
    BY <2>1, <2>2 DEF HostTyped, Fields
<1>5. CASE AllocTable
  <2>1. PICK ok \in BOOLEAN :
           host' = [host EXCEPT !.flags = IF ok THEN @ ELSE @ \ {"adma"},
                                !.adma_table = ok]
    BY <1>5 DEF AllocTable, Outcomes
  <2>2. host.flags \subseteq Flags /\ host.flags \ {"adma"} \subseteq Flags
    BY DEF HostTyped
  <2> QED
    BY <2>1, <2>2 DEF HostTyped, Fields
<1>6. CASE Clocks
  <2>1. CASE ctl.timeout_clk = 0
    <3>1. host' = [host EXCEPT !.adma_table = FALSE]
      BY <1>6, <2>1 DEF Clocks, Undma
    <3> QED
      BY <3>1 DEF HostTyped, Fields
  <2>2. CASE ctl.timeout_clk # 0
    <3>1. PICK f : host' = [host EXCEPT !.flags = f] /\ f \subseteq Flags
      BY <1>6, <2>2 DEF Clocks, HostTyped, Flags
    <3> QED
      BY <3>1 DEF HostTyped, Fields
  <2> QED
    BY <2>1, <2>2
<1>7. CASE Capabilities
  <2>1. CASE ctl.ocr = {}
    <3>1. host' = [host EXCEPT !.adma_table = FALSE]
      BY <1>7, <2>1 DEF Capabilities, Undma
    <3> QED
      BY <3>1 DEF HostTyped, Fields
  <2>2. CASE ctl.ocr # {}
    <3>1. PICK c, f : /\ f \subseteq {"180"}
                      /\ host' = [host EXCEPT !.caps = c, !.ocr = ctl.ocr,
                                              !.flags = @ \cup f]
      BY <1>7, <2>2 DEF Capabilities
    <3> QED
      BY <3>1 DEF HostTyped, Fields, Flags
  <2> QED
    BY <2>1, <2>2
<1>8. CASE Limits
  <2> DEFINE h == Sized(host)
             b == Bounced(h)
  <2>1. host' = h \/ host' = b
    BY <1>8 DEF Limits
  <2>2. BlockSize(ctl.max_block) \in {512, 1024, 2048}
    BY BlockSizeIs, ProbeAssumption
  <2>3. CASE host' = h
    BY <2>2, <2>3 DEF HostTyped, Fields, Sized
  <2>4. CASE host' = b
    BY <2>2, <2>4 DEF HostTyped, Fields, Sized, Bounced
  <2> QED
    BY <2>1, <2>3, <2>4
<1>9. CASE AllocQueue \/ Unwq
  <2>1. host' = [host EXCEPT !.adma_table = FALSE]
    BY <1>9 DEF AllocQueue, Unwq, Undma
  <2> QED
    BY <2>1 DEF HostTyped, Fields
<1>11. CASE MmcAddHost
  <2>1. PICK o, f : host' = [host EXCEPT !.rmh_flags = f, !.max_seg = 64,
                                         !.max_segs = 8, !.valid_ocr = o]
    BY <1>11 DEF MmcAddHost
  <2> QED
    BY <2>1 DEF HostTyped, Fields
<1>12. CASE SdhciInit \/ Install \/ InitWaitQueue \/ CreateThread \/ ReadPresent
              \/ Arm \/ Load \/ Signal
  BY <1>12 DEF SdhciInit, Install, InitWaitQueue, CreateThread, ReadPresent, Arm,
    Load, Signal
<1> QED
  BY <1>1, <1>2, <1>3, <1>4, <1>5, <1>6, <1>7, <1>8, <1>9, <1>11, <1>12
  DEF Prober

\* A controller that detects levels sets a card bit that is enabled, and
\* nothing else changes.
LEMMA LevelTyped ==
  ASSUME NEW r, RegTyped(r), NEW p
  PROVE  /\ RegTyped(Level(r, p))
         /\ Level(r, p).enable = r.enable /\ Level(r, p).signal = r.signal
         /\ Level(r, p).status \subseteq r.status \cup (r.enable \cap Card)
<1> DEFINE u == r.status \cup (Sensed(p) \cap r.enable)
<1>1. u \subseteq Ints /\ u \subseteq r.enable \cup Card
      /\ u \subseteq r.status \cup (r.enable \cap Card)
  BY DEF RegTyped, Sensed, Card
<1>2. Level(r, p) = r \/ Level(r, p) = [r EXCEPT !.status = u]
  BY DEF Level
<1> HIDE DEF u
<1>3. CASE Level(r, p) = r
  BY <1>3 DEF RegTyped
<1>4. CASE Level(r, p) = [r EXCEPT !.status = u]
  BY <1>1, <1>4 DEF RegTyped
<1> QED
  BY <1>2, <1>3, <1>4


\* Every write of the registers keeps them well formed.
LEMMA RegisterTypes ==
  ASSUME RegTyped(reg), ier \subseteq Ints, loc.ier \subseteq Ints,
         reg.enable = ier, Next
  PROVE  RegTyped(reg') /\ ier' \subseteq Ints
<1> SUFFICES ASSUME <<reg, ier>>' # <<reg, ier>>
             PROVE  RegTyped(reg') /\ ier' \subseteq Ints
  OBVIOUS
<1>1. CASE ReadCaps
  <2>1. reg' = Cleared /\ ier' = ier
    BY <1>1 DEF ReadCaps
  <2> QED
    BY <2>1 DEF Cleared, RegTyped
<1>2. CASE SdhciInit
  <2> DEFINE r == [Cleared EXCEPT !.enable = ier', !.signal = ier']
  <2>1. ier' \subseteq Ints
    BY <1>2 DEF SdhciInit, DefaultIrqs, Ints
  <2>2. RegTyped(r)
    BY <2>1 DEF RegTyped, Cleared
  <2>3. reg' = Level(r, present)
    BY <1>2 DEF SdhciInit
  <2> QED
    BY <2>1, <2>2, <2>3, LevelTyped
<1>3. CASE Arm \/ IrqArm
  <2> DEFINE r == [reg EXCEPT !.enable = ier']
  <2>1. reg' = Level(r, present)
    BY <1>3 DEF Arm, IrqArm
  <2>2. ier' \subseteq Ints /\ ier \subseteq ier' \cup Card
    BY <1>3 DEF Arm, IrqArm, Expect, Ints, Card
  <2>3. RegTyped(r)
    BY <2>2 DEF RegTyped
  <2> QED
    BY <2>1, <2>2, <2>3, LevelTyped
<1>4. CASE Signal
  <2>1. reg' = [reg EXCEPT !.signal = loc.ier] /\ ier' = ier
    BY <1>4 DEF Signal
  <2> QED
    BY <2>1 DEF RegTyped
<1>5. CASE IrqSignal
  <2> DEFINE r == [reg EXCEPT !.signal = ier, !.status = @ \ (irq.intmask \cap Card)]
  <2>1. reg' = Level(r, present) /\ ier' = ier
    BY <1>5 DEF IrqSignal
  <2>2. RegTyped(r)
    BY DEF RegTyped
  <2> QED
    BY <2>1, <2>2, LevelTyped
<1>6. CASE IrqEnter \/ IrqAgain
  <2>1. reg' = [reg EXCEPT !.status = @ \ {"power", "cmd", "data"}] /\ ier' = ier
    BY <1>6 DEF IrqEnter, IrqAgain
  <2> QED
    BY <2>1 DEF RegTyped
<1>7. CASE CardMoves
  <2> DEFINE r == [reg EXCEPT !.status = @ \cup (Sensed(~present) \cap reg.enable)]
  <2>1. reg' = Level(r, ~present) /\ ier' = ier
    BY <1>7 DEF CardMoves
  <2>2. RegTyped(r)
    BY DEF RegTyped
  <2> QED
    BY <2>1, <2>2, LevelTyped
<1>8. CASE Overcurrent
  <2>1. reg' = [reg EXCEPT !.status = @ \cup {"power"}] /\ "power" \in reg.enable
        /\ ier' = ier
    BY <1>8 DEF Overcurrent
  <2> QED
    BY <2>1 DEF RegTyped
<1> QED
  BY <1>1, <1>2, <1>3, <1>4, <1>5, <1>6, <1>7, <1>8 DEF Next, Prober, PltfmInit,
    MmcOfParse, ChooseDma, AllocTable, Clocks, Capabilities, Limits, AllocQueue,
    Install, InitWaitQueue, CreateThread, Unwq, MmcAddHost, ReadPresent, Load,
    Handler, IrqLost, IrqCard, IrqWake, Thread, TakeIsr, CardEvent, Rests, vars

\* What a step of the prober leaves alone, and what every other step does.
LEMMA Frames ==
  ASSUME Next
  PROVE  /\ Prober => UNCHANGED <<irq, thread, present, events, board, ctl>>
         /\ ~Prober => UNCHANGED <<pc, ret, host, held, loc, line, board, ctl>>
<1>1. Prober => UNCHANGED <<irq, thread, present, events, board, ctl>>
  BY DEF Prober, PltfmInit, MmcOfParse, ReadCaps, ChooseDma, AllocTable, Clocks,
    Capabilities, Limits, AllocQueue, SdhciInit, Install, InitWaitQueue,
    CreateThread, Unwq, MmcAddHost, ReadPresent, Arm, Load, Signal, Others
<1>2. ~Prober => UNCHANGED <<pc, ret, host, held, loc, line, board, ctl>>
  BY DEF Next, Handler, IrqEnter, IrqLost, IrqCard, IrqArm, IrqSignal, IrqAgain,
    IrqWake, Software, Thread, TakeIsr, CardEvent, CardMoves, Overcurrent, Rests, vars
<1> QED
  BY <1>1, <1>2

\* Types are kept by every step.
LEMMA TypedStep ==
  ASSUME Typed, reg.enable = ier, [Next]_vars
  PROVE  Typed'
<1>0. CASE UNCHANGED vars
  BY <1>0 DEF Typed, HostTyped, vars
<1> SUFFICES ASSUME Next PROVE Typed'
  BY <1>0
<1>1. HostTyped'
  <2>1. CASE Prober
    BY <2>1, ProberHost DEF Typed
  <2>2. CASE ~Prober
    <3>1. UNCHANGED host
      BY <2>2, Frames
    <3> QED
      BY <3>1 DEF Typed, HostTyped
  <2> QED
    BY <2>1, <2>2
<1>2. RegTyped(reg') /\ ier' \subseteq Ints
  <2>1. loc.ier \subseteq Ints
    BY DEF Typed
  <2> QED
    BY <2>1, RegisterTypes DEF Typed
<1>3. irq' \in IrqRecord
  <2> SUFFICES ASSUME irq' # irq PROVE irq' \in IrqRecord
    BY DEF Typed
  <2>1. irq \in IrqRecord /\ reg.status \subseteq Ints /\ present \in BOOLEAN
        /\ MaxLoops \in Nat
    BY ProbeAssumption DEF Typed, RegTyped
  <2>2. CASE IrqEnter
    BY <2>1, <2>2 DEF IrqEnter, Turn, IrqRecord
  <2>8. CASE IrqLost
    BY <2>1, <2>8 DEF IrqLost, IrqRecord
  <2>3. CASE IrqCard
    BY <2>1, <2>3 DEF IrqCard, IrqRecord
  <2>4. CASE IrqArm
    BY <2>1, <2>4 DEF IrqArm, IrqRecord
  <2>5. CASE IrqSignal
    BY <2>1, <2>5 DEF IrqSignal, IrqRecord
  <2>6. CASE IrqAgain
    <3> DEFINE Loops == reg.status # {} /\ irq.loops > 1
    <3>1. CASE Loops
      <4>1. irq' = [irq EXCEPT !.pc = Turn(reg.status), !.intmask = reg.status,
                               !.loops = @ - 1]
        BY <2>6, <3>1 DEF IrqAgain
      <4>2. irq.loops - 1 \in 0 .. MaxLoops
        BY <2>1, <3>1 DEF IrqRecord
      <4> QED
        BY <2>1, <4>1, <4>2 DEF Turn, IrqRecord
    <3>2. CASE ~Loops
      <4>1. irq' = [irq EXCEPT !.pc = IF irq.wake THEN "wake" ELSE "idle"]
        BY <2>6, <3>2 DEF IrqAgain
      <4> QED
        BY <2>1, <4>1 DEF IrqRecord
    <3> QED
      BY <3>1, <3>2
  <2>7. CASE IrqWake
    BY <2>1, <2>7 DEF IrqWake, IrqRecord
  <2> QED
    BY <2>2, <2>3, <2>4, <2>5, <2>6, <2>7, <2>8, Frames DEF Next, Handler, Thread,
      TakeIsr, CardEvent, CardMoves, Overcurrent, Rests, vars
<1>4. thread' \in [pc: {"waiting", "event"}, isr: SUBSET Card, woken: BOOLEAN]
  <2> SUFFICES ASSUME thread' # thread
               PROVE  thread' \in [pc: {"waiting", "event"}, isr: SUBSET Card,
                                   woken: BOOLEAN]
    BY DEF Typed
  <2>1. thread \in [pc: {"waiting", "event"}, isr: SUBSET Card, woken: BOOLEAN]
    BY DEF Typed
  <2>2. CASE IrqSignal
    BY <2>1, <2>2 DEF IrqSignal
  <2>3. CASE IrqWake
    BY <2>1, <2>3 DEF IrqWake
  <2>4. CASE TakeIsr
    BY <2>1, <2>4 DEF TakeIsr
  <2>5. CASE CardEvent
    BY <2>1, <2>5 DEF CardEvent
  <2> QED
    BY <2>2, <2>3, <2>4, <2>5, Frames DEF Next, Handler, IrqEnter, IrqLost, IrqCard,
      IrqArm, IrqAgain, Thread, CardMoves, Overcurrent, Rests, vars
<1>5. /\ board' \in Boards /\ ctl' \in Controllers
  BY Frames DEF Typed
<1>6. events' \in 0 .. MaxEvents /\ present' \in BOOLEAN
  <2>1. CASE CardMoves \/ Overcurrent
    <3>1. events < MaxEvents /\ events' = events + 1 /\ present' \in BOOLEAN
      BY <2>1 DEF CardMoves, Overcurrent, Typed
    <3> QED
      BY <3>1, ProbeAssumption DEF Typed
  <2>2. CASE ~(CardMoves \/ Overcurrent)
    BY <2>2, Frames DEF Typed, Next, Handler, IrqEnter, IrqLost, IrqCard, IrqArm,
      IrqSignal, IrqAgain, IrqWake, Software, Thread, TakeIsr, CardEvent, Rests, vars
  <2> QED
    BY <2>1, <2>2
<1>7. known' \in BOOLEAN /\ loc' \in [present: BOOLEAN, ier: SUBSET Ints]
  <2>1. known \in BOOLEAN /\ present \in BOOLEAN /\ ier \subseteq Ints
        /\ loc \in [present: BOOLEAN, ier: SUBSET Ints]
    BY DEF Typed
  <2>2. CASE ReadPresent
    BY <2>1, <2>2 DEF ReadPresent
  <2>3. CASE Load
    BY <2>1, <2>3 DEF Load, Others
  <2>4. CASE CardEvent
    BY <2>1, <2>4 DEF CardEvent
  <2>5. CASE ~(ReadPresent \/ Load \/ CardEvent)
    <3>1. UNCHANGED <<known, loc>>
      BY <2>5 DEF Next, Prober, PltfmInit, MmcOfParse, ReadCaps, ChooseDma,
        AllocTable, Clocks, Capabilities, Limits, AllocQueue, SdhciInit, Install,
        InitWaitQueue, CreateThread, Unwq, MmcAddHost, Arm, Signal, Others,
        Handler, IrqEnter, IrqLost, IrqCard, IrqArm, IrqSignal, IrqAgain, IrqWake,
        Software, Thread, TakeIsr, CardMoves, Overcurrent, Rests, vars
    <3> QED
      BY <2>1, <3>1
  <2> QED
    BY <2>2, <2>3, <2>4, <2>5
<1>8. /\ pc' \in Steps /\ held' \subseteq {"host", "table", "bounce", "queue", "desc"}
      /\ ret' \in {"0", "EINVAL", "ENXIO", "ENOMEM", "ENODEV", "ERROR"}
      /\ line' \in [handler: BOOLEAN, waitq: BOOLEAN, thread: BOOLEAN]
  <2>1. CASE Prober
    <3>1. pc' \in Steps /\ ret' \in {"0", "EINVAL", "ENXIO", "ENOMEM", "ENODEV", "ERROR"}
      BY <2>1 DEF Typed, Steps, Goto, Fail, Undma, Prober, PltfmInit, MmcOfParse,
        ReadCaps, ChooseDma, AllocTable, Clocks, Capabilities, Limits, AllocQueue,
        SdhciInit, Install, InitWaitQueue, CreateThread, Unwq, MmcAddHost,
        ReadPresent, Arm, Load, Signal
    <3>2. \/ held' = held
          \/ \E r \in {"host", "table", "bounce", "queue", "desc"} :
               held' = held \cup {r} \/ held' = held \ {r}
      BY <2>1 DEF Prober, PltfmInit, MmcOfParse, ReadCaps, ChooseDma, AllocTable,
        Clocks, Capabilities, Limits, AllocQueue, SdhciInit, Install,
        InitWaitQueue, CreateThread, Unwq, MmcAddHost, ReadPresent, Arm, Load, Signal
    <3>3. line' \in [handler: BOOLEAN, waitq: BOOLEAN, thread: BOOLEAN]
      BY <2>1 DEF Typed, Prober, PltfmInit, MmcOfParse, ReadCaps, ChooseDma,
        AllocTable, Clocks, Capabilities, Limits, AllocQueue, SdhciInit, Install,
        InitWaitQueue, CreateThread, Unwq, MmcAddHost, ReadPresent, Arm, Load, Signal
    <3> QED
      BY <3>1, <3>2, <3>3 DEF Typed
  <2>2. CASE ~Prober
    BY <2>2, Frames DEF Typed
  <2> QED
    BY <2>1, <2>2
<1> QED
  BY <1>1, <1>2, <1>3, <1>4, <1>5, <1>6, <1>7, <1>8 DEF Typed

-----------------------------------------------------------------------------
(* Card detection *)

\* Most steps of the prober are before it watches the card and leave the
\* registers alone.
LEMMA ArmingProber ==
  ASSUME Typed, Arming, Prober, UNCHANGED irq
  PROVE  Arming'
<1>1. CASE ReadCaps \/ SdhciInit
  <2>1. /\ pc' \notin {"init", "parse", "read_caps", "arm", "load", "signal",
                      "ready"}
        /\ pc \notin {"load", "signal", "ready"}
    BY <1>1 DEF ReadCaps, SdhciInit, Runs, Goto
  <2>2. irq.pc \notin {"card", "arm", "signal", "wake"} /\ ~irq.wake
    BY <2>1 DEF Arming, Watching
  <2>3. CASE ReadCaps
    <3>1. ier = {} /\ ier' = ier /\ reg' = Cleared
      BY <2>3 DEF Arming, ReadCaps, Runs
    <3> QED
      BY <2>1, <2>2, <3>1 DEF Arming, Watching, Cleared
  <2>4. CASE SdhciInit
    <3> DEFINE r == [Cleared EXCEPT !.enable = ier', !.signal = ier']
    <3>1. reg' = Level(r, present) /\ ier' = DefaultIrqs
      BY <2>4 DEF SdhciInit
    <3>2. ier' \subseteq Ints /\ ier' \cap Card = {}
      BY <3>1 DEF DefaultIrqs, Ints, Card
    <3>3. RegTyped(r) /\ r.enable = ier' /\ r.signal = ier' /\ r.status = {}
      BY <3>2 DEF RegTyped, Cleared
    <3> HIDE DEF r
    <3>4. /\ reg'.enable = r.enable /\ reg'.signal = r.signal
          /\ reg'.status \subseteq r.status \cup (r.enable \cap Card)
      BY <3>1, <3>3, LevelTyped
    <3> QED
      BY <2>1, <2>2, <3>2, <3>3, <3>4 DEF Arming, Watching
  <2> QED
    BY <1>1, <2>3, <2>4
<1>2. CASE ReadPresent
  <2>1. /\ pc = "detect" /\ UNCHANGED <<host, reg, ier>>
        /\ pc' = IF Detects(host) THEN "arm" ELSE "ready"
    BY <1>2 DEF ReadPresent, Runs, Goto
  <2> QED
    BY <2>1 DEF Arming, Watching, Detects
<1>3. CASE Arm
  <2> DEFINE r == [reg EXCEPT !.enable = ier']
             c == Expect(loc.present)
  <2>1. /\ pc = "arm" /\ pc' = "load" /\ UNCHANGED host
        /\ ier' = ier \cup {c} /\ reg' = Level(r, present)
    BY <1>3 DEF Arm, Runs, Goto
  <2>2. /\ ier \cap Card = {} /\ Detects(host) /\ reg.enable = ier
        /\ ier \subseteq Ints /\ RegTyped(reg)
    BY <2>1 DEF Arming, Watching, Typed
  <2>3. c \in Card
    BY DEF Expect, Card
  <2> HIDE DEF c
  <2>4. ier' \subseteq Ints /\ ier' \cap Card = {c} /\ ier \subseteq ier'
    BY <2>1, <2>2, <2>3 DEF Ints
  <2>5. RegTyped(r) /\ r.enable = ier'
    BY <2>2, <2>4 DEF RegTyped
  <2>6. reg'.enable = ier'
    BY <2>1, <2>5, LevelTyped
  <2>7. Detects(host')
    BY <2>1, <2>2 DEF Detects
  <2> QED
    BY <2>1, <2>3, <2>4, <2>6, <2>7 DEF Arming, Watching
<1>4. CASE Load
  <2>1. /\ pc = "load" /\ pc' = "signal" /\ UNCHANGED <<host, ier, reg>>
        /\ loc' = [loc EXCEPT !.ier = ier]
    BY <1>4 DEF Load, Runs, Goto
  <2>2. loc'.ier = ier
    BY <2>1 DEF Typed
  <2>3. PICK c \in Card : ier \cap Card = {c}
    BY <2>1 DEF Arming, Watching
  <2>4. Alike(loc'.ier, ier')
    BY <2>1, <2>2, <2>3 DEF Alike
  <2> QED
    BY <2>1, <2>4 DEF Arming, Watching, Detects
<1>5. CASE Signal
  <2>1. /\ pc = "signal" /\ pc' = "ready" /\ UNCHANGED <<host, ier>>
        /\ reg' = [reg EXCEPT !.signal = loc.ier]
    BY <1>5 DEF Signal, Runs, Goto
  <2>2. reg'.enable = reg.enable /\ reg'.signal = loc.ier /\ reg'.status = reg.status
    BY <2>1 DEF Typed, RegTyped
  <2>3. Alike(loc.ier, ier)
    BY <2>1 DEF Arming
  <2>4. loc.ier = ier \/ loc.ier = (ier \ Card) \cup (Card \ ier)
    BY <2>3 DEF Alike, Card
  <2>5. Crossed' = (ier \ Card) \cup (Card \ ier)
    BY <2>1 DEF Crossed
  <2> QED
    BY <2>1, <2>2, <2>4, <2>5 DEF Arming, Watching, Detects
<1>6. CASE ~(ReadCaps \/ SdhciInit \/ ReadPresent \/ Arm \/ Load \/ Signal)
  <2>1. /\ UNCHANGED <<reg, ier>>
        /\ pc \notin {"load", "signal", "ready"}
        /\ pc' \notin {"arm", "load", "signal", "ready"}
        /\ pc' \in {"init", "parse", "read_caps"} => pc \in {"init", "parse"}
    BY <1>6 DEF Prober, PltfmInit, MmcOfParse, ChooseDma, AllocTable, Clocks,
      Capabilities, Limits, AllocQueue, Install, InitWaitQueue, CreateThread, Unwq,
      MmcAddHost, Runs, Goto, Fail, Undma
  <2> QED
    BY <2>1 DEF Arming, Watching
<1> QED
  BY <1>1, <1>2, <1>3, <1>4, <1>5, <1>6

\* The handler is in its card part only when the prober watches the card, and
\* always arms for one card state alone.
LEMMA ArmingHandler ==
  ASSUME Typed, Arming, Handler, UNCHANGED <<pc, host, loc>>
  PROVE  Arming'
<1>0. Watching' <=> Watching
  BY DEF Watching, Detects
<1>1. RegTyped(reg) /\ irq \in IrqRecord /\ ier \subseteq Ints /\ reg.enable = ier
  BY DEF Typed, Arming
<1>2. CASE IrqEnter \/ IrqLost \/ IrqAgain
  <2>1. /\ reg' = reg \/ reg' = [reg EXCEPT !.status = @ \ {"power", "cmd", "data"}]
        /\ ier' = ier /\ irq.pc \in {"idle", "again"}
    BY <1>2 DEF IrqEnter, IrqLost, IrqAgain, Pending
  <2>2. /\ reg'.enable = reg.enable /\ reg'.signal = reg.signal
        /\ reg'.status \subseteq reg.status
    BY <1>1, <2>1 DEF RegTyped
  <2>3. ~Watching => irq'.pc \notin {"card", "arm", "signal", "wake"} /\ ~irq'.wake
    <3>1. CASE IrqEnter
      BY <3>1 DEF IrqEnter, Turn, Arming
    <3>2. CASE IrqAgain
      BY <1>1, <3>2 DEF IrqAgain, IrqRecord, Turn, Arming
    <3>3. CASE IrqLost
      BY <1>1, <3>3 DEF IrqLost, IrqRecord, Arming
    <3> QED
      BY <1>2, <3>1, <3>2, <3>3
  <2> QED
    BY <1>0, <2>1, <2>2, <2>3 DEF Arming, Detects, Crossed
<1>3. CASE IrqCard
  BY <1>0, <1>1, <1>3 DEF IrqCard, IrqRecord, Arming, Software, Detects, Crossed
<1>4. CASE IrqArm
  <2> DEFINE r == [reg EXCEPT !.enable = ier']
  <2>1. /\ irq.pc = "arm" /\ irq'.pc = "signal"
        /\ ier' = (ier \ Card) \cup {Expect(irq.present)} /\ reg' = Level(r, present)
    BY <1>1, <1>4 DEF IrqArm, IrqRecord
  <2>2. Watching
    BY <2>1 DEF Arming
  <2>3. Expect(irq.present) \in Card
    BY DEF Expect, Card
  <2>4. ier' \subseteq Ints /\ ier' \cap Card = {Expect(irq.present)}
        /\ ier \subseteq ier' \cup Card
    BY <1>1, <2>1, <2>3 DEF Ints
  <2>5. RegTyped(r) /\ r.enable = ier'
    BY <1>1, <2>4 DEF RegTyped
  <2>6. reg'.enable = ier'
    BY <2>1, <2>5, LevelTyped
  <2>7. pc' = "signal" => Alike(loc'.ier, ier')
    <3>1. SUFFICES ASSUME Alike(loc.ier, ier) PROVE Alike(loc.ier, ier')
      BY DEF Arming
    <3>2. ier' \ Card = ier \ Card
      BY <2>1, <2>3
    <3> QED
      BY <2>3, <2>4, <3>1, <3>2 DEF Alike
  <2> QED
    BY <1>0, <2>1, <2>2, <2>3, <2>4, <2>6, <2>7 DEF Arming, Watching, Detects
<1>5. CASE IrqSignal
  <2> DEFINE r == [reg EXCEPT !.signal = ier, !.status = @ \ (irq.intmask \cap Card)]
  <2>1. irq.pc = "signal" /\ reg' = Level(r, present) /\ UNCHANGED ier
    BY <1>5 DEF IrqSignal
  <2>2. Watching
    BY <2>1 DEF Arming
  <2>3. RegTyped(r) /\ r.enable = ier /\ r.signal = ier
    BY <1>1 DEF RegTyped
  <2>4. reg'.enable = ier /\ reg'.signal = ier
    BY <2>1, <2>3, LevelTyped
  <2> QED
    BY <1>0, <2>1, <2>2, <2>4 DEF Arming, Watching, Detects
<1>6. CASE IrqWake
  BY <1>0, <1>1, <1>6 DEF IrqWake, IrqRecord, Arming, Software, Detects, Crossed
<1> QED
  BY <1>2, <1>3, <1>4, <1>5, <1>6 DEF Handler

\* Without the card interrupts enabled no card event is recorded.
LEMMA ArmingCard ==
  ASSUME Typed, Arming, CardMoves \/ Overcurrent \/ Thread
  PROVE  Arming'
<1>1. UNCHANGED <<pc, host, irq, ier, loc>>
  BY DEF CardMoves, Overcurrent, Thread, TakeIsr, CardEvent, Software
<1>2. RegTyped(reg) /\ reg.enable = ier
  BY DEF Typed, Arming
<1>3. /\ reg'.enable = reg.enable /\ reg'.signal = reg.signal
      /\ reg'.status \cap Card \subseteq reg.status \cup (ier \cap Card)
  <2>1. CASE CardMoves
    <3> DEFINE r == [reg EXCEPT !.status = @ \cup (Sensed(~present) \cap reg.enable)]
    <3>1. reg' = Level(r, ~present)
      BY <2>1 DEF CardMoves
    <3>2. /\ RegTyped(r) /\ r.enable = reg.enable /\ r.signal = reg.signal
          /\ r.status \subseteq reg.status \cup ier
      BY <1>2 DEF RegTyped
    <3>3. /\ Level(r, ~present).enable = r.enable
          /\ Level(r, ~present).signal = r.signal
          /\ Level(r, ~present).status \subseteq r.status \cup (r.enable \cap Card)
      BY <3>2, LevelTyped
    <3> HIDE DEF r
    <3> QED
      BY <1>2, <3>1, <3>2, <3>3
  <2>2. CASE Overcurrent
    <3>1. reg' = [reg EXCEPT !.status = @ \cup {"power"}]
      BY <2>2 DEF Overcurrent
    <3> QED
      BY <1>2, <3>1 DEF RegTyped, Card
  <2>3. CASE Thread
    BY <2>3 DEF Thread, TakeIsr, CardEvent
  <2> QED
    BY <2>1, <2>2, <2>3
<1> QED
  BY <1>1, <1>3 DEF Arming, Watching, Detects, Crossed

-----------------------------------------------------------------------------
(* What the probe builds *)

Built == Resources /\ Promised /\ Low

\* Up to the table there is nothing but flags to be right.
LEMMA BuiltEarly ==
  ASSUME Typed, Built, Prober, UNCHANGED board,
         PltfmInit \/ MmcOfParse \/ ReadCaps \/ ChooseDma
  PROVE  Built'
<1>1. HostTyped /\ line' = line
  BY DEF Typed, PltfmInit, MmcOfParse, ReadCaps, ChooseDma
<1>2. CASE PltfmInit
  <2>1. CASE pc' = "failed"
    <3>1. UNCHANGED <<held, host>> /\ pc = "init" /\ ret' # "0"
      BY <1>2, <2>1 DEF PltfmInit, Runs, Goto, Fail
    <3> QED
      BY <1>1, <2>1, <3>1 DEF Built, Resources, Promised, Low, FromTable, FromQueue,
        FromThread
  <2>2. CASE pc' # "failed"
    <3>1. /\ host' = [host EXCEPT !.flags = {"330"}] /\ held' = held \cup {"host"}
          /\ pc = "init" /\ pc' = "parse" /\ UNCHANGED ret
      BY <1>2, <2>2 DEF PltfmInit, Runs, Goto, Fail
    <3>2. /\ host'.flags = {"330"} /\ host'.adma_table = host.adma_table
          /\ host'.bounce = host.bounce
      BY <1>1, <3>1 DEF HostTyped, Fields
    <3> QED
      BY <1>1, <3>1, <3>2 DEF Built, Resources, Promised, Low, FromTable, FromQueue,
        FromThread
  <2> QED
    BY <2>1, <2>2
<1>3. CASE MmcOfParse
  <2>1. CASE pc' = "failed"
    <3>1. UNCHANGED <<held, host>> /\ pc = "parse" /\ ret' # "0"
      BY <1>3, <2>1 DEF MmcOfParse, Runs, Goto, Fail
    <3> QED
      BY <1>1, <2>1, <3>1 DEF Built, Resources, Promised, Low, FromTable, FromQueue,
        FromThread
  <2>2. CASE pc' # "failed"
    <3>1. PICK q : /\ host' = [host EXCEPT !.caps = DtCaps, !.quirks = q]
                   /\ DtQuirks \subseteq q
                   /\ pc = "parse" /\ pc' = "read_caps" /\ UNCHANGED <<ret, held>>
      BY <1>3, <2>2 DEF MmcOfParse, Runs, Goto, Fail
    <3>2. /\ host'.flags = host.flags /\ host'.adma_table = host.adma_table
          /\ host'.bounce = host.bounce /\ host'.caps = DtCaps /\ host'.quirks = q
      BY <1>1, <3>1 DEF HostTyped, Fields
    <3>3. /\ "caps2_hs200" \notin DtCaps /\ (Has("no-1-8-v") => "no-1-8-v" \in q)
          /\ "hs200_1_8v" \in DtCaps => Has("hs200_1_8v")
      BY <3>1 DEF DtCaps, DtQuirks, Has
    <3>4. \A name : Has(name)' <=> Has(name)
      BY DEF Has
    <3> QED
      BY <1>1, <3>1, <3>2, <3>3, <3>4 DEF Built, Resources, Promised, Low, FromTable,
        FromQueue, FromThread
  <2> QED
    BY <2>1, <2>2
<1>4. CASE ReadCaps
  <2>1. PICK c : /\ host' = [host EXCEPT !.can = c]
                 /\ pc = "read_caps" /\ pc' = "dma" /\ UNCHANGED <<ret, held>>
    BY <1>4 DEF ReadCaps, Runs, Goto
  <2>2. /\ host'.flags = host.flags /\ host'.adma_table = host.adma_table
        /\ host'.bounce = host.bounce /\ host'.caps = host.caps
        /\ host'.quirks = host.quirks
    BY <1>1, <2>1 DEF HostTyped, Fields
  <2> QED
    BY <1>1, <2>1, <2>2 DEF Built, Resources, Promised, Low, FromTable, FromQueue,
      FromThread, Has
<1>5. CASE ChooseDma
  <2> DEFINE big == host.can \cap {"64bit"}
             sdma == IF big = {} THEN host.can \cap {"sdma"} ELSE {}
             adma == IF ctl.version >= 1 THEN host.can \cap {"adma"} ELSE {}
             flags == host.flags \cup big \cup sdma \cup adma
  <2>1. /\ host' = [host EXCEPT !.flags = flags]
        /\ pc = "dma" /\ pc' = "table" /\ UNCHANGED <<ret, held>>
    BY <1>5 DEF ChooseDma, Runs, Goto
  <2>2. host.flags \subseteq {"330"}
    BY <2>1 DEF Built, Promised
  <2>3. flags \cap {"180", "auto_cmd23"} = {} /\ ~({"sdma", "64bit"} \subseteq flags)
    BY <2>2
  <2> HIDE DEF flags
  <2>4. /\ host'.flags = flags /\ host'.adma_table = host.adma_table
        /\ host'.bounce = host.bounce /\ host'.caps = host.caps
        /\ host'.quirks = host.quirks
    BY <1>1, <2>1 DEF HostTyped, Fields
  <2> QED
    BY <1>1, <2>1, <2>3, <2>4 DEF Built, Resources, Promised, Low, FromTable,
      FromQueue, FromThread, Has
<1> QED
  BY <1>2, <1>3, <1>4, <1>5

\* Giving up the table when a step fails: nothing is promised any more.
LEMMA BuiltUndma ==
  ASSUME HostTyped, Built, NEW err, err # "0", Undma(err),
         UNCHANGED <<held, line, board>>, pc \in {"clocks", "caps", "queue"}
  PROVE  Built'
<1>1. host'.adma_table = FALSE
  BY DEF Undma, HostTyped, Fields
<1>2. pc' = "failed" /\ ret' # "0"
  BY DEF Undma, Fail
<1> QED
  BY <1>1, <1>2 DEF Built, Resources, Promised, Low, FromTable, FromQueue, FromThread

\* From the descriptor table to the limits.
LEMMA BuiltHost ==
  ASSUME Typed, Built, UNCHANGED board,
         AllocTable \/ Clocks \/ Capabilities \/ Limits
  PROVE  Built'
<1>1. HostTyped /\ line' = line
  BY DEF Typed, AllocTable, Clocks, Capabilities, Limits
<1>0. \A name : Has(name)' <=> Has(name)
  BY DEF Has
<1>2. CASE AllocTable
  <2>1. CASE "adma" \in host.flags
    <3>1. PICK ok \in BOOLEAN :
             /\ host' = [host EXCEPT !.flags = IF ok THEN @ ELSE @ \ {"adma"},
                                     !.adma_table = ok]
             /\ held' = IF ok THEN held \cup {"table"} ELSE held
      BY <1>2, <2>1 DEF AllocTable, Outcomes
    <3>2. pc = "table" /\ pc' = "clocks" /\ UNCHANGED ret
      BY <1>2 DEF AllocTable, Runs, Goto
    <3>3. /\ host'.flags = IF ok THEN host.flags ELSE host.flags \ {"adma"}
          /\ host'.adma_table = ok /\ host'.bounce = host.bounce
          /\ host'.caps = host.caps /\ host'.quirks = host.quirks
      BY <1>1, <3>1 DEF HostTyped, Fields
    <3> QED
      BY <1>0, <1>1, <2>1, <3>1, <3>2, <3>3 DEF Built, Resources, Promised, Low,
        FromTable, FromQueue, FromThread
  <2>2. CASE "adma" \notin host.flags
    <3>1. pc = "table" /\ pc' = "clocks" /\ UNCHANGED <<ret, held, host>>
      BY <1>2, <2>2 DEF AllocTable, Runs, Goto
    <3>2. ~host.adma_table
      BY <3>1 DEF Built, Resources, FromTable, FromQueue
    <3> QED
      BY <1>0, <1>1, <2>2, <3>1, <3>2 DEF Built, Resources, Promised, Low, FromTable,
        FromQueue, FromThread
  <2> QED
    BY <2>1, <2>2
<1>3. CASE Clocks
  <2>1. CASE ctl.timeout_clk = 0
    BY <1>1, <1>3, <2>1, BuiltUndma DEF Clocks, Runs
  <2>2. CASE ctl.timeout_clk # 0
    <3> DEFINE cmd12 == IF "auto-cmd12" \in host.quirks THEN {"auto_cmd12"} ELSE {}
               cmd23 == IF /\ ctl.version >= 2
                           /\ "adma" \in host.flags \/ "sdma" \notin host.flags
                          THEN {"auto_cmd23"} ELSE {}
               flags == host.flags \cup cmd12 \cup cmd23
    <3>1. host' = [host EXCEPT !.flags = flags]
      BY <1>3, <2>2 DEF Clocks
    <3>4. /\ flags \subseteq host.flags \cup {"auto_cmd12", "auto_cmd23"}
          /\ host.flags \subseteq flags
          /\ "auto_cmd23" \in flags \ host.flags =>
               "adma" \in host.flags \/ "sdma" \notin host.flags
      OBVIOUS
    <3> HIDE DEF flags
    <3>2. pc = "clocks" /\ pc' = "caps" /\ UNCHANGED <<ret, held>>
      BY <1>3, <2>2 DEF Clocks, Runs, Goto
    <3>3. /\ host'.flags = flags
          /\ host'.adma_table = host.adma_table /\ host'.bounce = host.bounce
          /\ host'.caps = host.caps /\ host'.quirks = host.quirks
      BY <1>1, <3>1 DEF HostTyped, Fields
    <3> QED
      BY <1>0, <1>1, <3>2, <3>3, <3>4 DEF Built, Resources, Promised, Low, FromTable,
        FromQueue, FromThread
  <2> QED
    BY <2>1, <2>2
<1>4. CASE Capabilities
  <2>1. CASE ctl.ocr = {}
    BY <1>1, <1>4, <2>1, BuiltUndma DEF Capabilities, Runs
  <2>2. CASE ctl.ocr # {}
    <3> DEFINE modes == IF "no-1-8-v" \in host.quirks THEN {} ELSE host.can \cap Fast
               caps == AllCaps(host, modes)
               low == IF caps \cap {"ddr_1_8v", "caps2_hs200"} # {}
                        THEN {"180"} ELSE {}
    <3>1. host' = [host EXCEPT !.caps = caps, !.ocr = ctl.ocr, !.flags = @ \cup low]
      BY <1>4, <2>2 DEF Capabilities
    <3>2. pc = "caps" /\ pc' = "limits" /\ UNCHANGED <<ret, held>>
      BY <1>4, <2>2 DEF Capabilities, Runs, Goto
    <3>3. Has("no-1-8-v") => /\ "no-1-8-v" \in host.quirks
                             /\ "caps2_hs200" \notin host.caps
      BY <3>2 DEF Built, Low, FromTable
    <3>4. /\ Has("no-1-8-v") => caps \cap {"ddr_1_8v", "caps2_hs200"} = {}
          /\ "hs200_1_8v" \in caps => "hs200_1_8v" \in host.caps
      BY <3>3 DEF AllCaps
    <3> HIDE DEF caps
    <3>5. low \subseteq {"180"} /\ (Has("no-1-8-v") => low = {})
      BY <3>4
    <3> HIDE DEF low
    <3>6. /\ host'.flags = host.flags \cup low /\ host'.caps = caps
          /\ host'.adma_table = host.adma_table /\ host'.bounce = host.bounce
          /\ host'.quirks = host.quirks /\ host'.ocr = ctl.ocr
      BY <1>1, <3>1 DEF HostTyped, Fields
    <3> QED
      BY <1>0, <1>1, <2>2, <3>2, <3>4, <3>5, <3>6 DEF Built, Resources, Promised, Low,
        FromTable, FromQueue, FromThread
  <2> QED
    BY <2>1, <2>2
<1>5. CASE Limits
  <2> DEFINE h == Sized(host)
             b == Bounced(h)
  <2>1. /\ \/ host' = h /\ held' = held
           \/ host' = b /\ held' = held \cup {"bounce"} /\ h.max_segs = 1
        /\ pc = "limits" /\ pc' = "queue" /\ UNCHANGED ret
    BY <1>5 DEF Limits, Runs, Goto
  <2>2. h.max_segs = 1 => host.flags \cap {"adma", "sdma"} = {"sdma"}
    BY <1>1 DEF HostTyped, Fields, Sized
  <2>3. CASE host' = h /\ held' = held
    <3>1. /\ host'.flags = host.flags /\ host'.caps = host.caps
          /\ host'.adma_table = host.adma_table /\ host'.bounce = host.bounce
          /\ host'.quirks = host.quirks /\ host'.ocr = host.ocr
      BY <1>1, <2>3 DEF HostTyped, Fields, Sized
    <3>2. host.bounce = 0
      BY <2>1 DEF Built, Promised
    <3> QED
      BY <1>0, <1>1, <2>1, <2>3, <3>1, <3>2 DEF Built, Resources, Promised, Low,
        FromTable, FromQueue, FromThread
  <2>4. CASE host' = b /\ held' = held \cup {"bounce"} /\ h.max_segs = 1
    <3>1. /\ host'.flags = host.flags /\ host'.caps = host.caps
          /\ host'.adma_table = host.adma_table /\ host'.bounce = 64
          /\ host'.quirks = host.quirks /\ host'.ocr = host.ocr
      BY <1>1, <2>4 DEF HostTyped, Fields, Sized, Bounced
    <3> HIDE DEF h, b
    <3> QED
      BY <1>0, <1>1, <2>1, <2>2, <2>4, <3>1 DEF Built, Resources, Promised, Low,
        FromTable, FromQueue, FromThread
  <2> QED
    BY <2>1, <2>3, <2>4
<1> QED
  BY <1>2, <1>3, <1>4, <1>5

\* From the work queue to the end of the probe.
LEMMA BuiltAdded ==
  ASSUME Typed, Built, UNCHANGED board,
         \/ AllocQueue \/ SdhciInit \/ Install \/ InitWaitQueue \/ CreateThread
         \/ Unwq \/ MmcAddHost \/ ReadPresent \/ Arm \/ Load \/ Signal
  PROVE  Built'
<1>0. \A name : Has(name)' <=> Has(name)
  BY DEF Has
<1>1. HostTyped /\ line \in [handler: BOOLEAN, waitq: BOOLEAN, thread: BOOLEAN]
  BY DEF Typed
<1>2. CASE AllocQueue
  <2>1. CASE pc' = "sdhci_init"
    <3>1. /\ held' = held \cup {"queue"} /\ pc = "queue"
          /\ UNCHANGED <<ret, line, host>>
      BY <1>2, <2>1 DEF AllocQueue, Runs, Goto, Undma, Fail
    <3> QED
      BY <1>0, <2>1, <3>1 DEF Built, Resources, Promised, Low, FromTable, FromQueue,
        FromThread
  <2>2. CASE pc' # "sdhci_init"
    <3>1. Undma("ENOMEM") /\ UNCHANGED <<held, line>> /\ pc = "queue"
      BY <1>2, <2>2 DEF AllocQueue, Runs, Goto
    <3> QED
      BY <1>1, <3>1, BuiltUndma
  <2> QED
    BY <2>1, <2>2
<1>3. CASE Install
  <2>1. CASE pc' = "waitq"
    <3>1. /\ held' = held \cup {"desc"} /\ pc = "install"
          /\ line' = [line EXCEPT !.handler = TRUE] /\ UNCHANGED <<ret, host>>
      BY <1>3, <2>1 DEF Install, Runs, Goto, Fail
    <3>2. line'.waitq = line.waitq /\ line'.thread = line.thread
      BY <1>1, <3>1
    <3> QED
      BY <1>0, <2>1, <3>1, <3>2 DEF Built, Resources, Promised, Low, FromTable,
        FromQueue, FromThread
  <2>2. CASE pc' # "waitq"
    <3>1. /\ pc = "install" /\ pc' = "unwq" /\ ret' # "0"
          /\ UNCHANGED <<held, line, host>>
      BY <1>3, <2>2 DEF Install, Runs, Goto, Fail
    <3> QED
      BY <1>0, <3>1 DEF Built, Resources, Promised, Low, FromTable, FromQueue,
        FromThread
  <2> QED
    BY <2>1, <2>2
<1>4. CASE InitWaitQueue
  <2>1. /\ pc = "waitq" /\ pc' = "thread" /\ UNCHANGED <<ret, held, host>>
        /\ line' = [line EXCEPT !.waitq = TRUE]
    BY <1>4 DEF InitWaitQueue, Runs, Goto
  <2>2. line'.waitq /\ line'.thread = line.thread
    BY <1>1, <2>1
  <2> QED
    BY <1>0, <2>1, <2>2 DEF Built, Resources, Promised, Low, FromTable, FromQueue,
      FromThread
<1>5. CASE CreateThread
  <2>1. CASE pc' = "add"
    <3>1. /\ pc = "thread" /\ line' = [line EXCEPT !.thread = TRUE]
          /\ UNCHANGED <<ret, held, host>>
      BY <1>5, <2>1 DEF CreateThread, Runs, Goto, Fail
    <3>2. line'.waitq = line.waitq
      BY <1>1, <3>1
    <3> QED
      BY <1>0, <2>1, <3>1, <3>2 DEF Built, Resources, Promised, Low, FromTable,
        FromQueue, FromThread
  <2>2. CASE pc' # "add"
    <3>1. /\ pc = "thread" /\ pc' = "unwq" /\ ret' # "0" /\ held' = held \ {"desc"}
          /\ UNCHANGED <<line, host>>
      BY <1>5, <2>2 DEF CreateThread, Runs, Goto, Fail
    <3> QED
      BY <1>0, <3>1 DEF Built, Resources, Promised, Low, FromTable, FromQueue,
        FromThread
  <2> QED
    BY <2>1, <2>2
<1>6. CASE Unwq
  <2>1. /\ pc = "unwq" /\ pc' = "failed" /\ ret' = ret /\ held' = held \ {"queue"}
        /\ host' = [host EXCEPT !.adma_table = FALSE] /\ UNCHANGED line
    BY <1>6 DEF Unwq, Runs, Fail
  <2>2. ~host'.adma_table
    BY <1>1, <2>1 DEF HostTyped, Fields
  <2> QED
    BY <2>1, <2>2 DEF Built, Resources, Promised, Low, FromTable, FromQueue,
      FromThread
<1>7. CASE MmcAddHost
  <2>1. /\ pc = "add" /\ pc' = "detect" /\ UNCHANGED <<ret, held, line>>
    BY <1>7 DEF MmcAddHost, Runs, Goto
  <2> DEFINE f == host.caps \ {"caps2_hs200"}
             o == {"30_31", "32_33"}
                    \cup (IF Has("no-1-8-v") THEN {} ELSE {"165_195"})
  <2>2. host' = [host EXCEPT !.rmh_flags = f, !.max_seg = 64, !.max_segs = 8,
                             !.valid_ocr = o]
    BY <1>7 DEF MmcAddHost
  <2>3. Has("no-1-8-v") => /\ "165_195" \notin o /\ "ddr_1_8v" \notin f
                           /\ "hs200_1_8v" \in f => Has("hs200_1_8v")
    BY <2>1 DEF Built, Low, FromTable, FromQueue
  <2> HIDE DEF f, o
  <2>4. /\ host'.flags = host.flags /\ host'.caps = host.caps
        /\ host'.adma_table = host.adma_table /\ host'.bounce = host.bounce
        /\ host'.quirks = host.quirks /\ host'.ocr = host.ocr
        /\ host'.valid_ocr = o /\ host'.rmh_flags = f
    BY <1>1, <2>2 DEF HostTyped, Fields
  <2> QED
    BY <1>0, <2>1, <2>3, <2>4 DEF Built, Resources, Promised, Low, FromTable,
      FromQueue, FromThread
<1>8. CASE SdhciInit \/ ReadPresent \/ Arm \/ Load \/ Signal
  <2>1. /\ UNCHANGED <<ret, held, line, host>>
        /\ \/ pc = "sdhci_init" /\ pc' = "install"
           \/ pc = "detect" /\ pc' \in {"arm", "ready"}
           \/ pc = "arm" /\ pc' = "load"
           \/ pc = "load" /\ pc' = "signal"
           \/ pc = "signal" /\ pc' = "ready"
    BY <1>8 DEF SdhciInit, ReadPresent, Arm, Load, Signal, Runs, Goto
  <2> QED
    BY <1>0, <2>1 DEF Built, Resources, Promised, Low, FromTable, FromQueue,
      FromThread
<1> QED
  BY <1>2, <1>3, <1>4, <1>5, <1>6, <1>7, <1>8

-----------------------------------------------------------------------------
(* The limits and the handler's descriptor *)

\* The limits that are set fit the memory that is there, and mmc_add_host's
\* do too.
LEMMA LimitedProber ==
  ASSUME HostTyped, Promised, Limited, Prober
  PROVE  Limited'
<1>1. CASE Limits
  <2> DEFINE h == Sized(host)
             b == Bounced(h)
  <2>1. /\ host' = h \/ (host' = b /\ h.max_segs = 1)
        /\ pc' = "queue" /\ host.bounce = 0
    BY <1>1 DEF Limits, Runs, Goto, Promised
  <2>2. /\ h.flags = host.flags /\ h.bounce = host.bounce
        /\ h.max_seg = IF "adma" \in host.flags THEN 64 ELSE 512
        /\ h.max_segs = IF host.flags \cap {"adma", "sdma"} = {"sdma"} THEN 1
                        ELSE 128
    BY DEF HostTyped, Fields, Sized
  <2>3. /\ b.flags = host.flags /\ b.bounce = 64
        /\ b.max_req = 64 /\ b.max_seg = 64
    BY DEF HostTyped, Fields, Sized, Bounced
  <2> HIDE DEF h, b
  <2>4. CASE host' = h
    BY <2>1, <2>2, <2>4 DEF Limited, Fits, SingleFor
  <2>5. CASE host' = b /\ h.max_segs = 1
    <3>1. "adma" \notin host.flags
      BY <2>2, <2>5
    <3> QED
      BY <2>3, <2>5, <3>1 DEF Limited, Fits, SingleFor
  <2> QED
    BY <2>1, <2>4, <2>5
<1>2. CASE MmcAddHost
  <2>1. pc = "add" /\ pc' = "detect"
    BY <1>2 DEF MmcAddHost, Runs, Goto
  <2>2. PICK o, f : host' = [host EXCEPT !.rmh_flags = f, !.max_seg = 64,
                                         !.max_segs = 8, !.valid_ocr = o]
    BY <1>2 DEF MmcAddHost
  <2>3. /\ host'.flags = host.flags /\ host'.bounce = host.bounce
        /\ host'.max_req = host.max_req /\ host'.max_seg = 64
    BY <2>2 DEF HostTyped, Fields
  <2>4. host.bounce > 0 => host.max_req <= host.bounce /\ host.bounce = 64
    BY <2>1 DEF Limited, Fits, FromQueue, HostTyped
  <2> QED
    BY <2>1, <2>3, <2>4 DEF Limited, Fits
<1>3. CASE ~(Limits \/ MmcAddHost)
  <2>1. \/ pc' \notin {"queue"} \cup FromQueue
        \/ /\ host' = host /\ pc \in {"queue"} \cup FromQueue
           /\ pc \in {"detect", "arm", "load", "signal", "ready"} =>
                pc' \in {"arm", "load", "signal", "ready"}
    BY <1>3 DEF Prober, PltfmInit, MmcOfParse, ReadCaps, ChooseDma, AllocTable,
      Clocks, Capabilities, AllocQueue, SdhciInit, Install, InitWaitQueue,
      CreateThread, Unwq, ReadPresent, Arm, Load, Signal, Undma, Runs, Goto, Fail,
      FromQueue
  <2> QED
    BY <2>1 DEF Limited, FromQueue
<1> QED
  BY <1>1, <1>2, <1>3

\* The prober gives back the descriptor only after the thread has failed, and
\* then goes nowhere but to the end.
LEMMA LiveProber ==
  ASSUME Typed, Live, Prober, UNCHANGED irq
  PROVE  Live'
<1>1. line \in [handler: BOOLEAN, waitq: BOOLEAN, thread: BOOLEAN]
  BY DEF Typed
<1>2. CASE Install
  <2>1. irq.pc = "idle" /\ pc = "install"
    BY <1>2 DEF Install, Runs
  <2>2. UNCHANGED <<held, line>> \/ "desc" \in held'
    BY <1>2 DEF Install
  <2> QED
    BY <2>1, <2>2 DEF Live
<1>3. CASE CreateThread
  <2>1. irq.pc = "idle" /\ pc = "thread"
    BY <1>3 DEF CreateThread, Runs
  <2>2. \/ UNCHANGED held /\ line' = [line EXCEPT !.thread = TRUE]
        \/ pc' = "unwq" /\ ret' = "ENOMEM"
    BY <1>3 DEF CreateThread, Goto, Fail
  <2>3. CASE UNCHANGED held /\ line' = [line EXCEPT !.thread = TRUE]
    <3>1. line'.handler <=> line.handler
      BY <1>1, <2>3
    <3> QED
      BY <2>1, <2>3, <3>1 DEF Live
  <2>4. CASE pc' = "unwq" /\ ret' = "ENOMEM"
    BY <2>1, <2>4 DEF Live
  <2> QED
    BY <2>2, <2>3, <2>4
<1>4. CASE InitWaitQueue
  <2>1. pc = "waitq" /\ UNCHANGED held /\ line' = [line EXCEPT !.waitq = TRUE]
    BY <1>4 DEF InitWaitQueue, Runs
  <2>2. line'.handler <=> line.handler
    BY <1>1, <2>1
  <2> QED
    BY <2>1, <2>2 DEF Live
<1>5. CASE Unwq
  <2>1. /\ pc = "unwq" /\ pc' = "failed" /\ ret' = ret /\ held' = held \ {"queue"}
        /\ UNCHANGED line
    BY <1>5 DEF Unwq, Runs, Fail
  <2> QED
    BY <2>1 DEF Live
<1>6. CASE ~(Install \/ CreateThread \/ InitWaitQueue \/ Unwq)
  <2>1. /\ UNCHANGED line /\ held \subseteq held'
        /\ pc \notin {"unwq", "failed"}
    BY <1>6 DEF Prober, PltfmInit, MmcOfParse, ReadCaps, ChooseDma, AllocTable,
      Clocks, Capabilities, Limits, AllocQueue, SdhciInit, MmcAddHost, ReadPresent,
      Arm, Load, Signal, Runs
  <2> QED
    BY <2>1 DEF Live
<1> QED
  BY <1>2, <1>3, <1>4, <1>5, <1>6

-----------------------------------------------------------------------------
(* The invariant, and what follows from it *)

\* Every step keeps the invariant.
LEMMA StepInv ==
  ASSUME Inv, [Next]_vars
  PROVE  Inv'
<1>1. Typed'
  BY TypedStep DEF Inv, Arming
<1>2. CASE UNCHANGED vars
  <2>1. Arming'
    BY <1>2 DEF Inv, vars, Arming, Watching, Detects, Crossed
  <2>2. Live' /\ Resources' /\ Promised' /\ Limited' /\ Low'
    BY <1>2 DEF Inv, vars, Live, Resources, Promised, Limited, Low, Has
  <2> QED
    BY <1>1, <2>1, <2>2 DEF Inv
<1>3. CASE Prober
  <2>1. UNCHANGED <<irq, board>>
    BY <1>3, Frames DEF Next
  <2>2. Arming'
    BY <1>3, <2>1, ArmingProber DEF Inv
  <2>3. Built'
    BY <1>3, <2>1, BuiltEarly, BuiltHost, BuiltAdded DEF Inv, Built, Prober
  <2>4. Live' /\ Limited'
    BY <1>3, <2>1, LiveProber, LimitedProber DEF Inv, Typed
  <2> QED
    BY <1>1, <2>2, <2>3, <2>4 DEF Inv, Built
<1>4. CASE Next /\ ~Prober
  <2>1. UNCHANGED <<pc, ret, host, held, loc, line, board>>
    BY <1>4, Frames
  <2>2. Resources' /\ Promised' /\ Limited' /\ Low'
    BY <2>1 DEF Inv, Resources, Promised, Limited, Low, Has
  <2>4. Live'
    <3>1. irq' # irq => irq.pc # "idle" \/ line.handler
      BY <1>4 DEF Next, Handler, IrqEnter, IrqLost, Pending, IrqCard, IrqArm,
        IrqSignal, IrqAgain, IrqWake, Thread, TakeIsr, CardEvent, CardMoves,
        Overcurrent, Rests, vars
    <3> QED
      BY <2>1, <3>1 DEF Inv, Live
  <2>3. Arming'
    <3>1. CASE Rests
      BY <1>2, <3>1 DEF Rests, Inv
    <3> QED
      BY <1>4, <2>1, <3>1, ArmingHandler, ArmingCard DEF Inv, Next
  <2> QED
    BY <1>1, <2>2, <2>3, <2>4 DEF Inv
<1> QED
  BY <1>2, <1>3, <1>4

\* For every board and controller, and whichever steps fail, the invariant
\* holds throughout.
THEOREM InvAlways == Spec => []Inv
<1> QED
  BY InitInv, StepInv, PTL DEF Spec

\* The types of the host, its registers and the port.
THEOREM TypeAlways == Spec => []TypeOK
<1>1. Inv => TypeOK
  <2> SUFFICES ASSUME Inv PROVE TypeOK
    OBVIOUS
  <2>1. Typed
    BY DEF Inv
  <2>2. /\ host.flags \subseteq Flags /\ host.max_segs \in 0 .. 128
        /\ host.max_req \in 0 .. 512 /\ host.max_blk \in {0, 512, 1024, 2048}
    BY <2>1 DEF Typed, HostTyped
  <2>3. /\ reg.status \subseteq reg.enable \cup Card
        /\ reg.enable \subseteq Ints /\ reg.signal \subseteq Ints
    BY <2>1 DEF Typed, RegTyped
  <2>4. /\ irq.pc \in {"idle", "card", "arm", "signal", "again", "wake", "lost"}
        /\ irq.intmask \subseteq Ints /\ irq.loops \in 0 .. MaxLoops
    BY <2>1 DEF Typed, IrqRecord
  <2> QED
    BY <2>1, <2>2, <2>3, <2>4 DEF Typed, Flags, TypeOK
<1> QED
  BY <1>1, InvAlways, PTL

\* Card detection is armed without the lock while the handler is live, by
\* sdhci_set_card_detection and by the handler: once the probe is done, one
\* card interrupt is enabled for a host that detects cards and none for any
\* other, and both registers agree with host->ier, but for the value that the
\* prober read before the handler changed it, which names the other card
\* interrupt and nothing else.
THEOREM ArmedAlways == Spec => []Armed
<1>1. Inv => Armed
  <2> SUFFICES ASSUME Inv, pc = "ready", irq.pc = "idle"
               PROVE  /\ reg.enable = ier
                      /\ Cardinality(ier \cap Card) = IF Detects(host) THEN 1 ELSE 0
                      /\ reg.signal = ier \/ (Detects(host) /\ reg.signal = Crossed)
    BY DEF Armed
  <2>1. /\ reg.enable = ier
        /\ reg.signal = ier \/ (Detects(host) /\ reg.signal = Crossed)
    BY DEF Inv, Arming
  <2>2. CASE Detects(host)
    <3>1. PICK c \in Card : ier \cap Card = {c}
      BY <2>2 DEF Inv, Arming, Watching
    <3>2. Cardinality({c}) = 1
      BY FS_Singleton
    <3> QED
      BY <2>1, <2>2, <3>1, <3>2
  <2>3. CASE ~Detects(host)
    <3>1. ier \cap Card = {}
      BY <2>3 DEF Inv, Arming, Watching
    <3> QED
      BY <2>1, <2>3, <3>1, FS_EmptySet
  <2> QED
    BY <2>2, <2>3
<1> QED
  BY <1>1, InvAlways, PTL

\* The handler is installed before its wait queue is initialised, and stays
\* when the thread could not be created: yet it never wakes a queue that is
\* not there, since only a card event makes it wake one and the prober arms
\* card detection last.  That failure is the only way to a handler that runs
\* out of a freed descriptor.
THEOREM WakesAlways == Spec => []WakesWaiters
<1>1. ASSUME Inv PROVE WakesWaiters
  <2>1. irq.pc = "wake" => line.waitq /\ "desc" \in held
    BY <1>1 DEF Inv, Arming, Watching, Resources, FromThread
  <2>2. irq.pc # "idle" /\ "desc" \notin held =>
          pc \in {"unwq", "failed"} /\ ret = "ENOMEM"
    BY <1>1 DEF Inv, Live
  <2> QED
    BY <2>1, <2>2 DEF WakesWaiters
<1> QED
  BY <1>1, InvAlways, PTL

\* Whichever step of the probe fails, the work queue, the thread and the
\* pointer to the descriptor table are gone when it returns, and the caller is
\* told; of the host, the bounce buffer, the handler and the interrupt enables
\* it says nothing.
THEOREM UndoneAlways == Spec => []Undone
<1>1. Inv => Undone
  BY DEF Inv, Resources, FromTable, FromQueue, FromThread, Undone
<1> QED
  BY <1>1, InvAlways, PTL

\* A host that is added has the memory that its flags promise and limits that
\* fit that memory, whatever the controller can do and whichever allocations
\* failed; of the single segment that SDMA has without a buffer this is so
\* only up to mmc_add_host.
THEOREM UsableAlways == Spec => []Usable
<1>1. ASSUME Inv PROVE Usable
  <2>1. pc = "ready" => Fits(host)
    BY <1>1 DEF Inv, Limited, FromQueue
  <2>2. pc = "add" => SingleFor(host)
    BY <1>1 DEF Inv, Limited
  <2> QED
    BY <1>1, <2>1, <2>2 DEF Inv, Resources, Promised, Fits, SingleFor, FromTable,
      FromQueue, FromThread, Usable
<1> QED
  BY <1>1, InvAlways, PTL

\* For every board and controller, one that has no 1.8 V is offered neither
\* the signal voltage nor the supply voltage nor, in the flags passed to the
\* core, the 1.8 V DDR mode; and HS200 at 1.8 V, which is not withheld from a
\* board with mmc-hs200-1_8v, is offered to no other.
THEOREM KeepsTo33Always == Spec => []KeepsTo33
<1>1. Inv => KeepsTo33
  BY DEF Inv, Low, FromTable, FromQueue, FromThread, KeepsTo33
<1> QED
  BY <1>1, InvAlways, PTL
=============================================================================
