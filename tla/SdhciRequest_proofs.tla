------------------------- MODULE SdhciRequest_proofs -------------------------
(***************************************************************************)
(* Proofs about SdhciRequest, for any set of requests and any environment. *)
(***************************************************************************)
EXTENDS SdhciRequest, FiniteSetTheorems, TLAPS

-----------------------------------------------------------------------------
(* A host with one field changed is a host.  A step that changes several    *)
(* fields is taken as a chain of these.                                    *)

LEMMA SetCmd ==
  ASSUME NEW h \in Host, NEW c \in MaybeCmd
  PROVE  [h EXCEPT !.cmd = c] \in Host
BY DEF Host

LEMMA SetDataCmd ==
  ASSUME NEW h \in Host, NEW c \in MaybeCmd
  PROVE  [h EXCEPT !.data_cmd = c] \in Host
BY DEF Host

LEMMA SetDeferred ==
  ASSUME NEW h \in Host, NEW c \in MaybeCmd
  PROVE  [h EXCEPT !.deferred_cmd = c] \in Host
BY DEF Host

LEMMA SetData ==
  ASSUME NEW h \in Host, NEW q \in MaybeReq
  PROVE  [h EXCEPT !.data = q] \in Host
BY DEF Host

LEMMA SetDataEarly ==
  ASSUME NEW h \in Host, NEW b \in BOOLEAN
  PROVE  [h EXCEPT !.data_early = b] \in Host
BY DEF Host

LEMMA SetMapped ==
  ASSUME NEW h \in Host, NEW M \in SUBSET Reqs
  PROVE  [h EXCEPT !.mapped = M] \in Host
BY DEF Host

LEMMA SetPendingReset ==
  ASSUME NEW h \in Host, NEW b \in BOOLEAN
  PROVE  [h EXCEPT !.pending_reset = b] \in Host
BY DEF Host

LEMMA SetTimers ==
  ASSUME NEW h \in Host, NEW T \in SUBSET Timers
  PROVE  [h EXCEPT !.timers = T] \in Host
BY DEF Host

LEMMA SetCmdLine ==
  ASSUME NEW h \in Host, NEW c \in MaybeCmd
  PROVE  [h EXCEPT !.cmdLine = c] \in Host
BY DEF Host

LEMMA SetDatLine ==
  ASSUME NEW h \in Host, NEW c \in MaybeCmd
  PROVE  [h EXCEPT !.datLine = c] \in Host
BY DEF Host

LEMMA SetHeld ==
  ASSUME NEW h \in Host, NEW L \in SUBSET Lines
  PROVE  [h EXCEPT !.held = L] \in Host
BY DEF Host

LEMMA SetStatus ==
  ASSUME NEW h \in Host, NEW S \in SUBSET (IntBits \X MaybeCmd)
  PROVE  [h EXCEPT !.status = S] \in Host
BY DEF Host

-----------------------------------------------------------------------------
(* Each function of sdhci.c leaves a host when it is given one. *)

LEMMA CommandParts ==
  ASSUME NEW c \in Cmds
  PROVE  Mrq(c) \in Reqs /\ Part(c) \in Parts
BY DEF Cmds, Mrq, Part

LEMMA WarnType ==
  ASSUME NEW h \in Host, NEW bad \in BOOLEAN, NEW site \in Warnings
  PROVE  Warn(h, bad, site) \in Host
BY DEF Warn, Host

LEMMA FailType ==
  ASSUME NEW h \in Host, NEW m \in Reqs, NEW field \in ErrorFields
  PROVE  Fail(h, m, field) \in Host
BY DEF Fail, Host

LEMMA FailDataType ==
  ASSUME NEW h \in Host, h.data # None
  PROVE  /\ Fail(h, h.data, "data") \in Host
         /\ Fail(h, h.data, "data").data = h.data
<1>1. h.data \in Reqs
  BY DEF Host, MaybeReq
<1>2. "data" \in ErrorFields
  BY DEF ErrorFields
<1>3. Fail(h, h.data, "data") \in Host
  BY <1>1, <1>2, FailType
<1>4. Fail(h, h.data, "data").data = h.data
  BY DEF Fail, Host
<1> QED BY <1>3, <1>4

LEMMA DoResetType ==
  ASSUME NEW h \in Host, NEW lines \in SUBSET Lines
  PROVE  DoReset(h, lines) \in Host
<1> DEFINE cl == IF "cmd" \in lines THEN None ELSE h.cmdLine
           dl == IF "dat" \in lines THEN None ELSE h.datLine
           he == h.held \ lines
           st == {s \in h.status : \A l \in lines : s[1] \notin LineBits(l)}
           g == [[h EXCEPT !.cmdLine = cl] EXCEPT !.datLine = dl]
           k == [g EXCEPT !.held = he]
<1>1. cl \in MaybeCmd /\ dl \in MaybeCmd
  BY DEF Host, MaybeCmd
<1>2. he \in SUBSET Lines
  BY DEF Host
<1>3. st \in SUBSET (IntBits \X MaybeCmd)
  BY DEF Host
<1>4. DoReset(h, lines) = [k EXCEPT !.status = st]
  BY DEF DoReset
<1> HIDE DEF cl, dl, he, st
<1>5. g \in Host
  BY <1>1, SetCmdLine, SetDatLine
<1> HIDE DEF g
<1>6. k \in Host
  BY <1>2, <1>5, SetHeld
<1> HIDE DEF k
<1>7. [k EXCEPT !.status = st] \in Host
  BY <1>3, <1>6, SetStatus
<1> QED BY <1>4, <1>7

LEMMA DropType ==
  ASSUME NEW c \in MaybeCmd, NEW m
  PROVE  Drop(c, m) \in MaybeCmd
BY DEF Drop, MaybeCmd

LEMMA FirstSlotType ==
  ASSUME NEW S \in SUBSET Slots, S # {}
  PROVE  FirstSlot(S) \in S
<1>1. Slots = {0, 1}
  BY DEF Slots, MaxMrqs
<1>2. \E i \in S : \A j \in S : i <= j
  <2>1. CASE 0 \in S
    <3>1. \A j \in S : 0 <= j
      BY <1>1
    <3> QED BY <2>1, <3>1
  <2>2. CASE 0 \notin S
    <3>1. 1 \in S /\ \A j \in S : j = 1
      BY <1>1, <2>2
    <3> QED BY <3>1
  <2> QED BY <2>1, <2>2
<1> QED BY <1>2 DEF FirstSlot

LEMMA SetMrqDoneType ==
  ASSUME NEW h \in Host, NEW m \in Reqs
  PROVE  SetMrqDone(h, m) \in Host
<1> DEFINE free == Slots \ Done(h)
<1>1. CASE \E i \in Slots : h.mrqs_done[i] = m
  BY <1>1, WarnType DEF SetMrqDone, Warnings
<1>2. CASE ~(\E i \in Slots : h.mrqs_done[i] = m) /\ free = {}
  BY <1>2, WarnType DEF SetMrqDone, Warnings
<1>3. CASE ~(\E i \in Slots : h.mrqs_done[i] = m) /\ free # {}
  <2>1. FirstSlot(free) \in Slots
    BY <1>3, FirstSlotType
  <2>2. SetMrqDone(h, m) = [h EXCEPT !.mrqs_done[FirstSlot(free)] = m]
    BY <1>3 DEF SetMrqDone
  <2> HIDE DEF free
  <2> QED BY <2>1, <2>2 DEF Host, MaybeReq
<1> QED BY <1>1, <1>2, <1>3

LEMMA DetachType ==
  ASSUME NEW h \in Host, NEW m \in Reqs
  PROVE  [h EXCEPT
             !.cmd = Drop(@, m), !.data_cmd = Drop(@, m),
             !.deferred_cmd = Drop(@, m), !.data = IF @ = m THEN None ELSE @,
             !.pending_reset = @ \/ NeedsReset(h, m)] \in Host
<1> DEFINE c == Drop(h.cmd, m)
           d == Drop(h.data_cmd, m)
           e == Drop(h.deferred_cmd, m)
           q == IF h.data = m THEN None ELSE h.data
           b == h.pending_reset \/ NeedsReset(h, m)
           g == [[h EXCEPT !.cmd = c] EXCEPT !.data_cmd = d]
           k == [[g EXCEPT !.deferred_cmd = e] EXCEPT !.data = q]
<1>1. c \in MaybeCmd /\ d \in MaybeCmd /\ e \in MaybeCmd
  BY DropType DEF Host
<1>2. q \in MaybeReq
  BY DEF Host, MaybeReq
<1>3. b \in BOOLEAN
  BY DEF Host, NeedsReset
<1>4. [h EXCEPT !.cmd = c, !.data_cmd = d, !.deferred_cmd = e, !.data = q,
                !.pending_reset = b]
      = [k EXCEPT !.pending_reset = b]
  OBVIOUS
<1> HIDE DEF c, d, e, q, b
<1>5. g \in Host
  BY <1>1, SetCmd, SetDataCmd
<1> HIDE DEF g
<1>6. k \in Host
  BY <1>1, <1>2, <1>5, SetDeferred, SetData
<1> HIDE DEF k
<1>7. [k EXCEPT !.pending_reset = b] \in Host
  BY <1>3, <1>6, SetPendingReset
<1> QED BY <1>4, <1>7 DEF c, d, e, q, b

LEMMA FinishMrqNoWorkType ==
  ASSUME NEW h \in Host, NEW m \in Reqs
  PROVE  FinishMrqNoWork(h, m) \in Host
<1> DEFINE detached == [h EXCEPT
             !.cmd = Drop(@, m), !.data_cmd = Drop(@, m),
             !.deferred_cmd = Drop(@, m), !.data = IF @ = m THEN None ELSE @,
             !.pending_reset = @ \/ NeedsReset(h, m)]
<1>1. detached \in Host
  BY DetachType
<1>2. SetMrqDone(detached, m) \in Host
  BY <1>1, SetMrqDoneType
<1>3. FinishMrqNoWork(h, m)
        = [SetMrqDone(detached, m) EXCEPT !.timers = @ \ {TimerOf(m)}]
  BY DEF FinishMrqNoWork
<1> HIDE DEF detached
<1>4. SetMrqDone(detached, m).timers \ {TimerOf(m)} \in SUBSET Timers
  BY <1>2 DEF Host
<1> QED BY <1>2, <1>3, <1>4, SetTimers

LEMMA FinishMrqType ==
  ASSUME NEW h \in Host, NEW m \in Reqs
  PROVE  FinishMrq(h, m) \in Host
<1>1. FinishMrqNoWork(h, m) \in Host
  BY FinishMrqNoWorkType
<1> QED BY <1>1 DEF FinishMrq, Host

-----------------------------------------------------------------------------
(* Sending *)

LEMMA BeginType ==
  ASSUME NEW h \in Host, NEW c \in Cmds
  PROVE  Begin(h, c) \in Host
<1>1. [h EXCEPT !.error[Mrq(c)] = @ \ {Part(c)}] \in Host
  BY CommandParts DEF Host
<1> QED BY <1>1, WarnType DEF Begin, Warnings

LEMMA PrepareDataType ==
  ASSUME NEW h \in Host, NEW m \in Reqs
  PROVE  PrepareData(h, m) \in Host
<1> DEFINE w == Warn(h, h.data # None, "initialize_data")
<1>1. w \in Host
  BY WarnType DEF Warnings
<1> DEFINE M == IF Mapping = "pio" THEN w.mapped ELSE w.mapped \cup {m}
           g == [w EXCEPT !.data = m]
           k == [g EXCEPT !.data_early = FALSE]
<1>2. PrepareData(h, m) = [k EXCEPT !.mapped = M]
  BY DEF PrepareData
<1> HIDE DEF w
<1>3. m \in MaybeReq /\ M \in SUBSET Reqs
  BY <1>1 DEF Host, MaybeReq
<1> HIDE DEF M
<1>4. g \in Host
  BY <1>1, <1>3, SetData
<1> HIDE DEF g
<1>5. k \in Host
  BY <1>4, SetDataEarly
<1> HIDE DEF k
<1>6. [k EXCEPT !.mapped = M] \in Host
  BY <1>3, <1>5, SetMapped
<1> QED BY <1>2, <1>6

LEMMA IssueType ==
  ASSUME NEW h \in Host, NEW c \in Cmds
  PROVE  Issue(h, c) \in Host
<1> DEFINE g == IF DataLine(c)
                THEN [Warn(h, h.data_cmd # None, "data_cmd") EXCEPT !.data_cmd = c]
                ELSE h
           d == IF HasData(c) THEN PrepareData(g, Mrq(c)) ELSE g
<1>1. g \in Host
  <2>1. Warn(h, h.data_cmd # None, "data_cmd") \in Host
    BY WarnType DEF Warnings
  <2> QED BY <2>1 DEF Host, MaybeCmd
<1>2. d \in Host
  BY <1>1, PrepareDataType, CommandParts
<1>3. TimerOf(Mrq(c)) \in Timers
  BY DEF TimerOf, Timers
<1> DEFINE T == d.timers \cup {TimerOf(Mrq(c))}
           dl == IF DataLine(c) THEN c ELSE d.datLine
           k == [[d EXCEPT !.cmd = c] EXCEPT !.timers = T]
           n == [k EXCEPT !.cmdLine = c]
<1>4. Issue(h, c) = [n EXCEPT !.datLine = dl]
  BY DEF Issue
<1> HIDE DEF g, d
<1>5. c \in MaybeCmd /\ dl \in MaybeCmd
  BY <1>2 DEF Host, MaybeCmd
<1>6. T \in SUBSET Timers
  BY <1>2, <1>3 DEF Host
<1> HIDE DEF T, dl
<1>7. k \in Host
  BY <1>2, <1>5, <1>6, SetCmd, SetTimers
<1> HIDE DEF k
<1>8. n \in Host
  BY <1>5, <1>7, SetCmdLine
<1> HIDE DEF n
<1>9. [n EXCEPT !.datLine = dl] \in Host
  BY <1>5, <1>8, SetDatLine
<1> QED BY <1>4, <1>9

LEMMA SendCommandType ==
  ASSUME NEW h \in Host, NEW c \in Cmds
  PROVE  SendCommand(h, c) \in Host
BY BeginType, IssueType DEF SendCommand

LEMMA SendOrDeferType ==
  ASSUME NEW h \in Host, NEW c \in Cmds
  PROVE  SendOrDefer(h, c) \in Host
<1> DEFINE s == SendCommand(h, c)
           w == Warn(s, s.deferred_cmd # None, "deferred")
<1>1. s \in Host
  BY SendCommandType
<1>2. w \in Host
  BY <1>1, WarnType DEF Warnings
<1>3. SendOrDefer(h, c) = IF Inhibited(h, c) THEN [w EXCEPT !.deferred_cmd = c] ELSE s
  BY DEF SendOrDefer
<1> HIDE DEF s, w
<1> QED BY <1>1, <1>2, <1>3 DEF Host, MaybeCmd

-----------------------------------------------------------------------------
(* End of data, end of a command, interrupts *)

LEMMA FinishDataType ==
  ASSUME NEW h \in Host, h.data # None, NEW swTimeout \in BOOLEAN
  PROVE  FinishData(h, swTimeout) \in Host
<1> DEFINE m == h.data
           stop == <<m, "stop">>
           lines == IF "data" \notin h.error[m] THEN {}
                    ELSE IF h.cmd = None \/ h.cmd = h.data_cmd THEN Lines
                    ELSE {"dat"}
           e == [h EXCEPT !.data = None, !.data_cmd = None]
           g == DoReset(e, lines)
           k == [g EXCEPT !.cmd = None]
<1>1. m \in Reqs
  BY DEF Host, MaybeReq
<1>2. stop \in Cmds /\ Mrq(stop) = m
  BY <1>1 DEF Cmds, Parts, Mrq
<1>3. e \in Host
  BY DEF Host, MaybeCmd, MaybeReq
<1>4. lines \in SUBSET Lines
  BY DEF Lines
<1>5. g \in Host
  BY <1>3, <1>4, DoResetType
<1>6. k \in Host
  <2> HIDE DEF e, lines, g
  <2> QED BY <1>5, SetCmd DEF MaybeCmd
<1>7. FinishMrqNoWork(g, m) \in Host
  BY <1>1, <1>5, FinishMrqNoWorkType
<1>8. FinishMrqNoWork(Fail(Begin(k, stop), m, "stop"), m) \in Host
  <2>1. Begin(k, stop) \in Host
    BY <1>2, <1>6, BeginType
  <2>2. Fail(Begin(k, stop), m, "stop") \in Host
    BY <1>1, <2>1, FailType DEF ErrorFields, Parts
  <2> QED BY <1>1, <2>2, FinishMrqNoWorkType
<1>9. SendOrDefer(k, stop) \in Host
  BY <1>2, <1>6, SendOrDeferType
<1> QED BY <1>7, <1>8, <1>9 DEF FinishData

LEMMA FinishCommandType ==
  ASSUME NEW h \in Host, h.cmd # None
  PROVE  FinishCommand(h) \in Host
<1> DEFINE c == h.cmd
           m == Mrq(c)
           g == [h EXCEPT !.cmd = None]
           d == IF g.data # None /\ g.data_early THEN FinishData(g, FALSE) ELSE g
<1>1. c \in Cmds /\ m \in Reqs
  BY CommandParts DEF Host, MaybeCmd
<1>2. g \in Host
  BY DEF Host, MaybeCmd
<1>3. d \in Host
  BY <1>2, FinishDataType
<1>4. <<m, "cmd">> \in Cmds
  BY <1>1 DEF Cmds, Parts
<1>5. SendOrDefer(g, <<m, "cmd">>) \in Host
  BY <1>2, <1>4, SendOrDeferType
<1>6. FinishMrqNoWork(d, m) \in Host
  BY <1>1, <1>3, FinishMrqNoWorkType
<1> QED BY <1>2, <1>3, <1>5, <1>6 DEF FinishCommand

LEMMA CmdIrqType ==
  ASSUME NEW h \in Host, NEW bits \in SUBSET IntBits
  PROVE  CmdIrq(h, bits) \in Host
<1>1. CASE h.cmd = None
  BY <1>1 DEF CmdIrq
<1>2. CASE h.cmd # None
  <2> DEFINE m == Mrq(h.cmd)
             failed == Fail(h, m, Part(h.cmd))
  <2>1. h.cmd \in Cmds /\ m \in Reqs /\ Part(h.cmd) \in ErrorFields
    BY <1>2, CommandParts DEF Host, MaybeCmd, ErrorFields
  <2>2. failed \in Host
    BY <2>1, FailType
  <2>3. [failed EXCEPT !.cmd = None] \in Host
    <3> HIDE DEF failed
    <3> QED BY <2>2 DEF Host, MaybeCmd
  <2>4. FinishMrqNoWork(failed, m) \in Host
    BY <2>1, <2>2, FinishMrqNoWorkType
  <2>5. FinishMrqNoWork(Fail(h, m, "sbc"), m) \in Host
    BY <2>1, FailType, FinishMrqNoWorkType DEF ErrorFields, Parts
  <2>6. FinishCommand(h) \in Host
    BY <1>2, FinishCommandType
  <2> QED BY <2>3, <2>4, <2>5, <2>6 DEF CmdIrq
<1> QED BY <1>1, <1>2

LEMMA BusyIrqType ==
  ASSUME NEW h \in Host, NEW bits \in SUBSET IntBits
  PROVE  BusyIrq(h, bits) \in Host
<1>1. CASE h.data_cmd = None
  BY <1>1 DEF BusyIrq
<1>2. CASE h.data_cmd # None
  <2> DEFINE c == h.data_cmd
             g == [h EXCEPT !.data_cmd = None]
  <2>1. Mrq(c) \in Reqs /\ Part(c) \in ErrorFields
    BY <1>2, CommandParts DEF Host, MaybeCmd, ErrorFields
  <2>2. g \in Host
    BY DEF Host, MaybeCmd
  <2>3. FinishMrqNoWork(Fail(g, Mrq(c), Part(c)), Mrq(c)) \in Host
    BY <2>1, <2>2, FailType, FinishMrqNoWorkType
  <2>4. FinishMrqNoWork(g, Mrq(c)) \in Host
    BY <2>1, <2>2, FinishMrqNoWorkType
  <2> QED BY <2>2, <2>3, <2>4 DEF BusyIrq
<1> QED BY <1>1, <1>2

LEMMA DataIrqType ==
  ASSUME NEW h \in Host, NEW bits \in SUBSET IntBits
  PROVE  DataIrq(h, bits) \in Host
<1>1. CASE h.data = None
  BY <1>1, BusyIrqType DEF DataIrq
<1>2. CASE h.data # None
  <2>1. Fail(h, h.data, "data") \in Host /\ Fail(h, h.data, "data").data = h.data
    BY <1>2, FailDataType
  <2>2. FinishData(Fail(h, h.data, "data"), FALSE) \in Host
    BY <1>2, <2>1, FinishDataType
  <2>3. [h EXCEPT !.data_early = TRUE] \in Host
    BY DEF Host
  <2>4. FinishData(h, FALSE) \in Host
    BY <1>2, FinishDataType
  <2> QED BY <1>2, <2>2, <2>3, <2>4 DEF DataIrq
<1> QED BY <1>1, <1>2

-----------------------------------------------------------------------------
(* Timers, card removal, completion *)

LEMMA FailAndFinishType ==
  ASSUME NEW h \in Host, NEW c \in MaybeCmd, c # None
  PROVE  FinishMrq(Fail(h, Mrq(c), Part(c)), Mrq(c)) \in Host
<1>1. Mrq(c) \in Reqs /\ Part(c) \in ErrorFields
  BY CommandParts DEF MaybeCmd, ErrorFields
<1> QED BY <1>1, FailType, FinishMrqType

LEMMA TimeoutTimerType ==
  ASSUME NEW h \in Host
  PROVE  TimeoutTimer(h) \in Host
<1>1. h.cmd \in MaybeCmd
  BY DEF Host
<1> QED BY <1>1, FailAndFinishType DEF TimeoutTimer

LEMMA TimeoutDataTimerType ==
  ASSUME NEW h \in Host
  PROVE  TimeoutDataTimer(h) \in Host
<1>1. h.cmd \in MaybeCmd /\ h.data_cmd \in MaybeCmd
  BY DEF Host
<1>2. CASE h.data # None
  <2>1. Fail(h, h.data, "data") \in Host /\ Fail(h, h.data, "data").data = h.data
    BY <1>2, FailDataType
  <2>2. FinishData(Fail(h, h.data, "data"), TRUE) \in Host
    BY <1>2, <2>1, FinishDataType
  <2>3. [FinishData(Fail(h, h.data, "data"), TRUE) EXCEPT !.work = TRUE] \in Host
    BY <2>2 DEF Host
  <2> QED BY <1>2, <2>3 DEF TimeoutDataTimer
<1>3. CASE h.data = None
  BY <1>1, <1>3, FailAndFinishType DEF TimeoutDataTimer
<1> QED BY <1>2, <1>3

LEMMA CardEventType ==
  ASSUME NEW h \in Host, NEW there \in BOOLEAN
  PROVE  CardEvent(h, there) \in Host
<1>1. ASSUME NEW g \in Host, NEW c \in MaybeCmd
      PROVE  ErrorOut(g, c) \in Host
  BY FailAndFinishType DEF ErrorOut
<1>2. ASSUME NEW g \in Host
      PROVE  ErrorOutMrqs(g) \in Host
  <2>1. ErrorOut(g, g.data_cmd) \in Host
    BY <1>1 DEF Host
  <2>2. ErrorOut(g, g.data_cmd).cmd \in MaybeCmd
    BY <2>1 DEF Host
  <2> QED BY <1>1, <2>1, <2>2 DEF ErrorOutMrqs
<1>3. DoReset(h, Lines) \in Host
  BY DoResetType
<1> QED BY <1>2, <1>3 DEF CardEvent

LEMMA CompleteType ==
  ASSUME NEW h \in Host, NEW i \in Slots, NEW m \in Reqs
  PROVE  Complete(h, i, m) \in Host
<1> DEFINE r == DoReset(h, Lines)
           g == IF NeedsReset(h, m)
                THEN [r EXCEPT !.pending_reset = FALSE] ELSE h
<1>1. r \in Host
  BY DoResetType
<1>2. g \in Host
  <2> HIDE DEF r
  <2> QED BY <1>1 DEF Host
<1>3. Complete(h, i, m) = [g EXCEPT !.mrqs_done[i] = None]
  BY DEF Complete
<1> HIDE DEF g
<1> QED BY <1>2, <1>3 DEF Host, MaybeReq

-----------------------------------------------------------------------------
(* The steps of the threads *)

LEMMA GotoType ==
  ASSUME TypeOK, NEW t \in Threads, NEW label \in Labels, Goto(t, label)
  PROVE  pc' \in [Threads -> Labels]
BY DEF Goto, TypeOK

LEMMA KeepType ==
  ASSUME TypeOK, NEW t \in Threads, NEW locals \in Locals, Keep(t, locals)
  PROVE  loc' \in [Threads -> Locals]
BY DEF Keep, TypeOK

LEMMA ContinueType ==
  ASSUME TypeOK, NEW t \in Threads, NEW isr \in BOOLEAN, Continue(t, isr)
  PROVE  pc' \in [Threads -> Labels] /\ loc' \in [Threads -> Locals]
<1>1. pc' \in [Threads -> Labels]
  BY GotoType DEF Continue, Labels
<1>2. 0 \in 0 .. MaxTries
  BY EnvironmentAssumption
<1>3. loc[t] \in Locals
  BY DEF TypeOK
<1>4. [loc[t] EXCEPT !.cmd = None, !.tries = 0, !.there = FALSE, !.isr = isr]
        \in Locals
  BY <1>2, <1>3 DEF Locals, MaybeCmd
<1> QED BY <1>1, <1>4, KeepType DEF Continue

LEMMA TryType ==
  ASSUME TypeOK, NEW t \in Threads, NEW h \in Host, NEW c \in Cmds,
         NEW tries \in 0 .. MaxTries, NEW isr \in BOOLEAN,
         Try(t, h, c, tries, isr)
  PROVE  /\ host' \in Host
         /\ pc' \in [Threads -> Labels]
         /\ loc' \in [Threads -> Locals]
<1>1. CASE Sent(t, h, c, isr)
  <2> DEFINE s == SendCommand(h, c)
  <2>1. s \in Host
    BY SendCommandType
  <2>2. host' = [s EXCEPT !.deferred_cmd = IF @ = c THEN None ELSE @]
    BY <1>1 DEF Sent
  <2>3. host' \in Host
    <3> HIDE DEF s
    <3> QED BY <2>1, <2>2 DEF Host, MaybeCmd
  <2> QED BY <1>1, <2>3, ContinueType DEF Sent
<1>2. CASE GaveUp(t, h, c, tries, isr)
  <2>1. FinishMrq(Fail(Begin(h, c), Mrq(c), Part(c)), Mrq(c)) \in Host
    <3>1. Begin(h, c) \in Host
      BY BeginType
    <3> QED BY <3>1, CommandParts, FailType, FinishMrqType DEF ErrorFields
  <2> QED BY <1>2, <2>1, ContinueType DEF GaveUp
<1>3. CASE Backoff(t, h, c, tries, isr)
  <2>1. host' \in Host
    BY <1>3, BeginType DEF Backoff
  <2>2. pc' \in [Threads -> Labels]
    BY <1>3, GotoType DEF Backoff, Labels
  <2>3. tries - 1 \in 0 .. MaxTries
    BY <1>3, EnvironmentAssumption DEF Backoff
  <2>4. loc[t] \in Locals
    BY DEF TypeOK
  <2>5. [loc[t] EXCEPT !.cmd = c, !.tries = tries - 1, !.there = FALSE, !.isr = isr]
          \in Locals
    BY <2>3, <2>4 DEF Locals, MaybeCmd
  <2> QED BY <1>3, <2>1, <2>2, <2>5, KeepType DEF Backoff
<1> QED BY <1>1, <1>2, <1>3 DEF Try

-----------------------------------------------------------------------------
(* The inductive invariant: a thread has the command or the request it is   *)
(* about to use.                                                            *)

Working ==
  /\ \A t \in Threads : pc[t] \in {"asleep", "retry"} => loc[t].cmd # None
  /\ \A t \in Threads : pc[t] \in {"unmap", "relock"} => loc[t].mrq # None
  /\ pc["caller"] \in {"enter", "lock", "asleep", "retry", "wait"}
       => loc["caller"].mrq # None

IInv == TypeOK /\ Working

LEMMA ContinueWorking ==
  ASSUME IInv, NEW t \in Threads, NEW isr \in BOOLEAN, Continue(t, isr),
         t = "caller" => loc["caller"].mrq # None
  PROVE  Working'
<1>1. loc' = [loc EXCEPT ![t] = [loc[t] EXCEPT !.cmd = None, !.tries = 0,
                                               !.there = FALSE, !.isr = isr]]
  BY DEF Continue, Keep
<1>2. pc' = [pc EXCEPT ![t] = IF t = "caller" THEN "wait"
                              ELSE IF isr THEN "event" ELSE "idle"]
  BY DEF Continue, Goto
<1>3. loc'[t].mrq = loc[t].mrq
  BY <1>1 DEF IInv, TypeOK, Locals
<1>4. \A u \in Threads \ {t} : pc'[u] = pc[u] /\ loc'[u] = loc[u]
  BY <1>1, <1>2 DEF IInv, TypeOK
<1>5. pc'[t] = IF t = "caller" THEN "wait" ELSE IF isr THEN "event" ELSE "idle"
  BY <1>2 DEF IInv, TypeOK
<1>6. "caller" \in Threads
  BY DEF Threads
<1> QED BY <1>3, <1>4, <1>5, <1>6 DEF IInv, Working

LEMMA TryWorking ==
  ASSUME IInv, NEW t \in Threads, NEW h, NEW c \in Cmds,
         NEW tries, NEW isr \in BOOLEAN, Try(t, h, c, tries, isr),
         t = "caller" => loc["caller"].mrq # None
  PROVE  Working'
<1>1. CASE Continue(t, isr)
  BY <1>1, ContinueWorking
<1>2. CASE Backoff(t, h, c, tries, isr)
  <2>1. loc' = [loc EXCEPT ![t] = [loc[t] EXCEPT !.cmd = c, !.tries = tries - 1,
                                                 !.there = FALSE, !.isr = isr]]
    BY <1>2 DEF Backoff, Keep
  <2>2. pc' = [pc EXCEPT ![t] = "asleep"]
    BY <1>2 DEF Backoff, Goto
  <2>3. loc'[t].mrq = loc[t].mrq /\ loc'[t].cmd = c
    BY <2>1 DEF IInv, TypeOK, Locals
  <2>4. \A u \in Threads \ {t} : pc'[u] = pc[u] /\ loc'[u] = loc[u]
    BY <2>1, <2>2 DEF IInv, TypeOK
  <2>5. pc'[t] = "asleep" /\ "caller" \in Threads
    BY <2>2 DEF IInv, TypeOK, Threads
  <2>6. c # None
    BY RequestAssumption DEF Cmds, Parts
  <2> QED BY <2>3, <2>4, <2>5, <2>6 DEF IInv, Working
<1> QED BY <1>1, <1>2 DEF Try, Sent, GaveUp

-----------------------------------------------------------------------------
(* Initial states and steps *)

LEMMA InitInv == Init => IInv
<1> SUFFICES ASSUME Init PROVE IInv
  OBVIOUS
<1>1. InitHost \in Host
  BY DEF InitHost, Host, MaybeCmd, MaybeReq, ErrorFields
<1>2. NoLocals \in Locals
  BY EnvironmentAssumption DEF NoLocals, Locals, MaybeReq, MaybeCmd, Slots, MaxMrqs
<1>3. TypeOK
  <2>1. IrqOff \in [pc: {"off", "cmd", "data", "loop"}, mask: SUBSET IntBits,
                   loops: 0 .. MaxLoops, wake: BOOLEAN]
    BY EnvironmentAssumption DEF IrqOff
  <2>2. pc \in [Threads -> Labels] /\ loc \in [Threads -> Locals]
    BY <1>2 DEF Init, Labels
  <2> QED BY <1>1, <2>1, <2>2 DEF Init, TypeOK
<1>4. Working
  BY DEF Init, Working, Threads, Executors
<1> QED BY <1>3, <1>4 DEF IInv

LEMMA SleeperStep ==
  ASSUME IInv, NEW t \in Sleepers, RetryPoll(t) \/ Retry(t)
  PROVE  IInv'
<1>1. t \in Threads
  BY DEF Sleepers, Threads, Executors
<1>2. CASE RetryPoll(t)
  <2>1. loc[t] \in Locals /\ present \in BOOLEAN
    BY <1>1 DEF IInv, TypeOK
  <2>2. [loc[t] EXCEPT !.there = present] \in Locals
    BY <2>1 DEF Locals
  <2>3. loc' \in [Threads -> Locals] /\ pc' \in [Threads -> Labels]
    BY <1>1, <1>2, <2>2, KeepType, GotoType DEF RetryPoll, IInv, Labels
  <2>4. TypeOK'
    BY <1>2, <2>3 DEF RetryPoll, IInv, TypeOK
  <2>5. loc'[t].cmd = loc[t].cmd /\ loc'[t].mrq = loc[t].mrq /\ pc'[t] = "retry"
    BY <1>1, <1>2 DEF RetryPoll, Keep, Goto, IInv, TypeOK, Locals
  <2>6. \A u \in Threads \ {t} : pc'[u] = pc[u] /\ loc'[u] = loc[u]
    BY <1>1, <1>2 DEF RetryPoll, Keep, Goto, IInv, TypeOK
  <2>7. pc[t] = "asleep" /\ "caller" \in Threads
    BY <1>2 DEF RetryPoll, Threads
  <2>8. Working'
    BY <1>1, <2>5, <2>6, <2>7 DEF IInv, Working
  <2> QED BY <2>4, <2>8 DEF IInv
<1>3. CASE Retry(t)
  <2> DEFINE c == loc[t].cmd
             isr == loc[t].isr
  <2>1. loc[t] \in Locals /\ c # None
    BY <1>1, <1>3 DEF Retry, IInv, TypeOK, Working
  <2>2. c \in Cmds /\ isr \in BOOLEAN /\ loc[t].tries \in 0 .. MaxTries
    BY <2>1 DEF Locals, MaybeCmd
  <2>3. t = "caller" => loc["caller"].mrq # None
    BY <1>3 DEF Retry, IInv, Working
  <2>4. host \in Host
    BY DEF IInv, TypeOK
  <2>5. CASE Try(t, host, c, loc[t].tries, isr)
    BY <1>1, <1>3, <2>2, <2>3, <2>4, <2>5, TryType, TryWorking
       DEF Retry, IInv, TypeOK
  <2>6. CASE /\ host' = IF Disappeared(t) THEN host
                        ELSE FinishMrq(Fail(host, Mrq(c), Part(c)), Mrq(c))
             /\ Continue(t, isr)
    <3>1. FinishMrq(Fail(host, Mrq(c), Part(c)), Mrq(c)) \in Host
      BY <2>1, <2>2, <2>4, FailAndFinishType DEF Locals
    <3>2. host' \in Host
      BY <2>4, <2>6, <3>1
    <3> QED BY <1>1, <1>3, <2>2, <2>3, <2>6, <3>2, ContinueType, ContinueWorking
            DEF Retry, IInv, TypeOK
  <2> QED BY <1>3, <2>5, <2>6 DEF Retry
<1> QED BY <1>2, <1>3

\* A thread that goes to another label and takes new locals.
LEMMA Move ==
  ASSUME IInv, NEW t \in Threads, NEW label \in Labels, NEW locals \in Locals,
         Goto(t, label), Keep(t, locals),
         label \in {"asleep", "retry"} => locals.cmd # None,
         label \in {"unmap", "relock"} => locals.mrq # None,
         t = "caller" /\ label \in {"enter", "lock", "asleep", "retry", "wait"}
           => locals.mrq # None
  PROVE  pc' \in [Threads -> Labels] /\ loc' \in [Threads -> Locals] /\ Working'
<1>1. pc' \in [Threads -> Labels] /\ loc' \in [Threads -> Locals]
  BY GotoType, KeepType DEF IInv
<1>2. pc'[t] = label /\ loc'[t] = locals
  BY DEF Goto, Keep, IInv, TypeOK
<1>3. \A u \in Threads \ {t} : pc'[u] = pc[u] /\ loc'[u] = loc[u]
  BY DEF Goto, Keep, IInv, TypeOK
<1>4. "caller" \in Threads
  BY DEF Threads
<1> QED BY <1>1, <1>2, <1>3, <1>4 DEF IInv, Working

\* A thread that goes to another label and keeps its locals.
LEMMA MoveOnly ==
  ASSUME IInv, NEW t \in Threads, NEW label \in Labels,
         Goto(t, label), UNCHANGED loc,
         label \in {"asleep", "retry"} => loc[t].cmd # None,
         label \in {"unmap", "relock"} => loc[t].mrq # None,
         t = "caller" /\ label \in {"enter", "lock", "asleep", "retry", "wait"}
           => loc[t].mrq # None
  PROVE  pc' \in [Threads -> Labels] /\ Working'
<1>1. Keep(t, loc[t]) /\ loc[t] \in Locals
  BY DEF Keep, IInv, TypeOK
<1> QED BY <1>1, Move

LEMMA StayWorking ==
  ASSUME IInv, UNCHANGED <<pc, loc>>
  PROVE  Working'
BY DEF IInv, Working

LEMMA CallerStepInv ==
  ASSUME IInv, Caller
  PROVE  IInv'
<1>0. "caller" \in Threads /\ loc["caller"] \in Locals /\ host \in Host
  BY DEF IInv, TypeOK, Threads
<1>1. ASSUME NEW m \in Reqs, Submit(m)
      PROVE  IInv'
  <2> DEFINE locals == [loc["caller"] EXCEPT !.mrq = m]
  <2>1. locals \in Locals /\ locals.mrq # None
    BY <1>0, RequestAssumption DEF Locals, MaybeReq
  <2>2. \E label \in {"enter", "wait"} : Goto("caller", label)
    BY <1>1 DEF Submit
  <2>3. Keep("caller", locals)
    BY <1>1 DEF Submit
  <2>4. pc' \in [Threads -> Labels] /\ loc' \in [Threads -> Locals] /\ Working'
    BY <1>0, <2>1, <2>2, <2>3, Move DEF Labels
  <2>5. host' \in Host
    BY <1>0, <1>1, FailType DEF Submit, ErrorFields
  <2>6. sem_ack' \in Nat /\ buf' \in [Reqs -> {"none", "held", "freed", "twice"}]
    BY <1>1 DEF Submit, IInv, TypeOK
  <2> QED BY <1>1, <2>4, <2>5, <2>6 DEF Submit, IInv, TypeOK
<1>2. CASE RequestPresent
  <2> DEFINE locals == [loc["caller"] EXCEPT !.there = present]
  <2>1. locals \in Locals /\ locals.mrq = loc["caller"].mrq
    BY <1>0 DEF Locals, IInv, TypeOK
  <2>2. loc["caller"].mrq # None
    BY <1>2 DEF RequestPresent, IInv, Working
  <2>3. pc' \in [Threads -> Labels] /\ loc' \in [Threads -> Locals] /\ Working'
    BY <1>0, <1>2, <2>1, <2>2, Move DEF RequestPresent, Labels
  <2> QED BY <1>2, <2>3 DEF RequestPresent, IInv, TypeOK
<1>3. CASE Request
  <2> DEFINE m == loc["caller"].mrq
  <2>1. m \in Reqs /\ m # None
    BY <1>0, <1>3 DEF Request, IInv, Working, Locals, MaybeReq
  <2>2. FirstCmd(m) \in Cmds
    BY <2>1 DEF FirstCmd, Cmds, Parts
  <2>3. MaxTries \in 0 .. MaxTries
    BY EnvironmentAssumption
  <2>4. CASE Try("caller", host, FirstCmd(m), MaxTries, FALSE)
    BY <1>0, <1>3, <2>1, <2>2, <2>3, <2>4, TryType, TryWorking
       DEF Request, IInv, TypeOK
  <2>5. CASE host' = FinishMrq(Fail(host, m, "cmd"), m) /\ Continue("caller", FALSE)
    <3>1. host' \in Host
      BY <1>0, <2>1, <2>5, FailType, FinishMrqType DEF ErrorFields, Parts
    <3> QED BY <1>0, <1>3, <2>1, <2>5, <3>1, ContinueType, ContinueWorking
            DEF Request, IInv, TypeOK
  <2> QED BY <1>3, <2>4, <2>5 DEF Request
<1>4. CASE Return
  <2> DEFINE m == loc["caller"].mrq
  <2>1. m \in Reqs
    BY <1>0, <1>4 DEF Return, IInv, Working, Locals, MaybeReq
  <2>2. host' \in Host
    <3>1. host' = [host EXCEPT !.error[m] = {}, !.mapped = @ \ {m}, !.served = {}]
      BY <1>4 DEF Return
    <3>2. [host.error EXCEPT ![m] = {}] \in [Reqs -> SUBSET ErrorFields]
      BY <1>0 DEF Host
    <3> QED BY <1>0, <3>1, <3>2 DEF Host
  <2>3. NoLocals \in Locals
    BY EnvironmentAssumption
       DEF NoLocals, Locals, MaybeReq, MaybeCmd, Slots, MaxMrqs
  <2>4. pc' \in [Threads -> Labels] /\ loc' \in [Threads -> Locals] /\ Working'
    BY <1>0, <1>4, <2>3, Move DEF Return, Labels
  <2>5. sem_ack' \in Nat
    BY <1>4 DEF Return, IInv, TypeOK
  <2>6. buf' \in [Reqs -> {"none", "held", "freed", "twice"}]
    BY <1>4 DEF Return, IInv, TypeOK
  <2> QED BY <1>4, <2>2, <2>4, <2>5, <2>6 DEF Return, IInv, TypeOK
<1> QED BY <1>1, <1>2, <1>3, <1>4 DEF Caller

IrqStates == [pc: {"off", "cmd", "data", "loop"}, mask: SUBSET IntBits,
              loops: 0 .. MaxLoops, wake: BOOLEAN]

LEMMA TakeStatusType ==
  ASSUME TypeOK, NEW loops \in 0 .. MaxLoops, NEW woken \in BOOLEAN,
         TakeStatus(loops, woken)
  PROVE  host' \in Host /\ irq' \in IrqStates
<1>1. Bits(host.status) \in SUBSET IntBits
  BY DEF Bits, TypeOK, Host
<1>2. irq' \in IrqStates
  BY <1>1 DEF TakeStatus, IrqStates
<1>3. host' \in Host
  BY DEF TakeStatus, TypeOK, Host
<1> QED BY <1>2, <1>3

LEMMA IrqStep ==
  ASSUME IInv, Irq
  PROVE  IInv'
<1>0. host \in Host /\ irq \in IrqStates
  BY DEF IInv, TypeOK, IrqStates
<1>1. UNCHANGED <<pc, loc, firing, present, buf>>
  BY DEF Irq, IrqEnter, IrqCmd, IrqData, IrqAgain, IrqExit
<1>2. host' \in Host /\ irq' \in IrqStates /\ wake' \in BOOLEAN /\ sem_ack' \in Nat
  <2>1. CASE IrqEnter
    <3>1. MaxLoops \in 0 .. MaxLoops
      BY EnvironmentAssumption
    <3> QED BY <2>1, <3>1, TakeStatusType DEF IrqEnter, IInv, TypeOK
  <2>2. CASE IrqAgain
    <3>1. irq.loops - 1 \in 0 .. MaxLoops /\ irq.wake \in BOOLEAN
      BY <1>0, <2>2, EnvironmentAssumption DEF IrqAgain, IrqStates
    <3> QED BY <2>2, <3>1, TakeStatusType DEF IrqAgain, IInv, TypeOK
  <2>3. CASE IrqCmd
    <3> DEFINE bits == irq.mask \cap CmdBits
    <3>1. bits \in SUBSET IntBits
      BY DEF IntBits
    <3>2. host' \in Host
      BY <1>0, <2>3, <3>1, CmdIrqType DEF IrqCmd
    <3>3. CmdIrqAdds(host, bits) \in SUBSET IntBits
      BY DEF CmdIrqAdds, IntBits, DataBits
    <3>4. irq' = [irq EXCEPT !.pc = "data", !.mask = @ \cup CmdIrqAdds(host, bits)]
      BY <2>3 DEF IrqCmd
    <3>5. irq.mask \cup CmdIrqAdds(host, bits) \in SUBSET IntBits
      BY <1>0, <3>3 DEF IrqStates
    <3>6. irq' \in IrqStates
      <4> HIDE DEF bits
      <4> QED BY <1>0, <3>4, <3>5 DEF IrqStates
    <3> QED BY <2>3, <3>2, <3>6 DEF IrqCmd, IInv, TypeOK
  <2>4. CASE IrqData
    <3>1. irq.mask \cap DataBits \in SUBSET IntBits
      BY DEF IntBits
    <3>2. host' \in Host
      BY <1>0, <2>4, <3>1, DataIrqType DEF IrqData
    <3>3. irq' \in IrqStates
      BY <1>0, <2>4 DEF IrqData, IrqStates
    <3> QED BY <2>4, <3>2, <3>3 DEF IrqData, IInv, TypeOK
  <2>5. CASE IrqExit
    <3> DEFINE now == {i \in Done(host) : ~DeferDone(host, host.mrqs_done[i])}
    <3>1. host' = [host EXCEPT !.mrqs_done =
                     [i \in Slots |-> IF i \in now THEN None ELSE @[i]]]
      BY <2>5 DEF IrqExit
    <3>2. [i \in Slots |-> IF i \in now THEN None ELSE host.mrqs_done[i]]
            \in [Slots -> MaybeReq]
      BY <1>0 DEF Host, MaybeReq
    <3>3. host' \in Host
      <4> HIDE DEF now
      <4> QED BY <1>0, <3>1, <3>2 DEF Host
    <3>4. IsFiniteSet(Slots)
      <4>1. 0 \in Int /\ 1 \in Int /\ Slots = 0 .. 1
        BY DEF Slots, MaxMrqs
      <4> QED BY <4>1, FS_Interval
    <3>5. IsFiniteSet(now)
      <4>1. now \in SUBSET Slots
        BY DEF Done
      <4> QED BY <3>4, <4>1, FS_Subset
    <3>6. Cardinality(now) \in Nat
      BY <3>5, FS_CardinalityType
    <3>7. sem_ack' \in Nat
      BY <2>5, <3>6 DEF IrqExit, IInv, TypeOK
    <3>8. irq' \in IrqStates
      BY <2>5, EnvironmentAssumption DEF IrqExit, IrqOff, IrqStates
    <3>9. wake' \in BOOLEAN
      BY <1>0, <2>5 DEF IrqExit, IInv, TypeOK, IrqStates
    <3> QED BY <3>3, <3>7, <3>8, <3>9
  <2> QED BY <2>1, <2>2, <2>3, <2>4, <2>5 DEF Irq
<1>3. TypeOK'
  BY <1>1, <1>2 DEF IInv, TypeOK, IrqStates
<1> QED BY <1>1, <1>3, StayWorking DEF IInv

\* The end of a round of sdhci_request_done.
LEMMA FinishType ==
  ASSUME TypeOK, NEW t \in Executors, NEW h \in Host, NEW i \in Slots,
         NEW m \in Reqs, Finish(t, h, i, m)
  PROVE  /\ host' \in Host
         /\ sem_ack' \in Nat
         /\ \E label \in {"idle", "deferred", "done"} : Goto(t, label)
BY CompleteType DEF Finish, LeaveLoop, TypeOK

LEMMA ExecutorStep ==
  ASSUME IInv, NEW t \in Executors, Executor(t)
  PROVE  IInv'
<1>0. /\ t \in Threads /\ t # "caller"
      /\ host \in Host /\ loc[t] \in Locals
  BY DEF Threads, Executors, IInv, TypeOK
<1>1. CASE RequestDone(t)
  <2>1. CASE Done(host) = {}
    <3>1. \E label \in {"idle", "deferred"} : Goto(t, label)
      BY <1>1, <2>1 DEF RequestDone, LeaveLoop
    <3>2. UNCHANGED <<host, loc, sem_ack, irq, firing, wake, present, buf>>
      BY <1>1, <2>1 DEF RequestDone
    <3>3. pc' \in [Threads -> Labels] /\ Working'
      BY <1>0, <3>1, <3>2, MoveOnly DEF Labels
    <3> QED BY <3>2, <3>3 DEF IInv, TypeOK
  <2>2. CASE Done(host) # {}
    <3> DEFINE i == FirstSlot(Done(host))
               m == host.mrqs_done[i]
    <3>1. i \in Done(host)
      BY <2>2, FirstSlotType DEF Done
    <3>2. i \in Slots /\ m \in Reqs /\ m # None
      BY <1>0, <3>1, RequestAssumption DEF Done, Host, MaybeReq
    <3>3. UNCHANGED <<irq, firing, wake, present, buf>>
      BY <1>1 DEF RequestDone
    <3>4. CASE /\ Keep(t, [loc[t] EXCEPT !.mrq = m, !.slot = i])
               /\ Goto(t, "unmap")
               /\ UNCHANGED <<host, sem_ack>>
      <4> DEFINE locals == [loc[t] EXCEPT !.mrq = m, !.slot = i]
      <4>1. locals \in Locals /\ locals.mrq # None
        <5> HIDE DEF i, m
        <5> QED BY <1>0, <3>2 DEF Locals, MaybeReq
      <4>2. Goto(t, "unmap") /\ Keep(t, locals) /\ "unmap" \in Labels
        BY <3>4 DEF Labels
      <4>3. pc' \in [Threads -> Labels] /\ loc' \in [Threads -> Locals] /\ Working'
        <5> HIDE DEF locals
        <5> QED BY <1>0, <4>1, <4>2, Move
      <4> QED BY <3>3, <3>4, <4>3 DEF IInv, TypeOK
    <3>5. CASE /\ Finish(t, [host EXCEPT !.mapped = @ \ {m}], i, m)
               /\ UNCHANGED loc
      <4>1. [host EXCEPT !.mapped = @ \ {m}] \in Host
        BY <1>0 DEF Host
      <4>2. /\ host' \in Host
            /\ sem_ack' \in Nat
            /\ \E label \in {"idle", "deferred", "done"} : Goto(t, label)
        <5> HIDE DEF i, m
        <5> QED BY <3>2, <3>5, <4>1, FinishType DEF IInv
      <4>3. pc' \in [Threads -> Labels] /\ Working'
        BY <1>0, <3>5, <4>2, MoveOnly DEF Labels
      <4> QED BY <3>3, <3>5, <4>2, <4>3 DEF IInv, TypeOK
    <3> QED BY <1>1, <2>2, <3>4, <3>5 DEF RequestDone
  <2> QED BY <2>1, <2>2
<1>2. CASE Unmap(t)
  <2>1. pc[t] = "unmap" /\ loc[t].mrq # None
    BY <1>0, <1>2 DEF Unmap, IInv, Working
  <2>2. pc' \in [Threads -> Labels] /\ Working'
    BY <1>0, <1>2, <2>1, MoveOnly DEF Unmap, Labels
  <2>3. buf' \in [Reqs -> {"none", "held", "freed", "twice"}]
    BY <1>2 DEF Unmap, IInv, TypeOK
  <2> QED BY <1>2, <2>2, <2>3 DEF Unmap, IInv, TypeOK
<1>3. CASE Relock(t)
  <2> DEFINE m == loc[t].mrq
             locals == [loc[t] EXCEPT !.mrq = None, !.slot = 0]
  <2>1. m \in Reqs /\ loc[t].slot \in Slots
    BY <1>0, <1>3 DEF Relock, IInv, Working, Locals, MaybeReq
  <2>2. [host EXCEPT !.mapped = @ \ {m}] \in Host
    BY <1>0 DEF Host
  <2>3. /\ host' \in Host
        /\ sem_ack' \in Nat
        /\ \E label \in {"idle", "deferred", "done"} : Goto(t, label)
    BY <1>3, <2>1, <2>2, FinishType DEF Relock, IInv
  <2>4. locals \in Locals
    <3>1. 0 \in Slots
      BY DEF Slots, MaxMrqs
    <3> QED BY <1>0, <3>1 DEF Locals, MaybeReq
  <2>5. Keep(t, locals)
    BY <1>3 DEF Relock
  <2>6. pc' \in [Threads -> Labels] /\ loc' \in [Threads -> Locals] /\ Working'
    <3> HIDE DEF locals
    <3> QED BY <1>0, <2>3, <2>4, <2>5, Move DEF Labels
  <2> QED BY <1>3, <2>3, <2>6 DEF Relock, IInv, TypeOK
<1> QED BY <1>1, <1>2, <1>3 DEF Executor

LEMMA IrqThreadStepInv ==
  ASSUME IInv, IrqThread
  PROVE  IInv'
<1> DEFINE t == "irq_thread"
<1>0. /\ t \in Threads /\ t # "caller"
      /\ host \in Host /\ loc[t] \in Locals
  BY DEF Threads, Executors, IInv, TypeOK
<1>1. CASE IrqThreadStart
  <2>1. pc' \in [Threads -> Labels] /\ Working'
    BY <1>0, <1>1, MoveOnly DEF IrqThreadStart, Labels
  <2> QED BY <1>1, <2>1 DEF IrqThreadStart, IInv, TypeOK
<1>2. CASE Deferred
  <2> DEFINE isr == host.thread_isr
             h == [host EXCEPT !.thread_isr = FALSE]
  <2>1. isr \in BOOLEAN /\ h \in Host
    BY <1>0 DEF Host
  <2>2. CASE host' = h /\ Continue(t, isr)
    BY <1>0, <1>2, <2>1, <2>2, ContinueType, ContinueWorking
       DEF Deferred, IInv, TypeOK
  <2>3. CASE host.deferred_cmd # None
             /\ Try(t, h, host.deferred_cmd, MaxTries, isr)
    <3>1. host.deferred_cmd \in Cmds
      BY <1>0, <2>3 DEF Host, MaybeCmd
    <3>2. MaxTries \in 0 .. MaxTries
      BY EnvironmentAssumption
    <3> HIDE DEF h, isr
    <3> QED BY <1>0, <1>2, <2>1, <2>3, <3>1, <3>2, TryType, TryWorking
            DEF Deferred, IInv, TypeOK
  <2> QED BY <1>2, <2>2, <2>3 DEF Deferred
<1>3. CASE CardEventPresent
  <2> DEFINE locals == [loc[t] EXCEPT !.there = present, !.isr = FALSE]
  <2>1. locals \in Locals
    BY <1>0 DEF Locals, IInv, TypeOK
  <2>2. Goto(t, "removed") /\ Keep(t, locals) /\ "removed" \in Labels
    BY <1>3 DEF CardEventPresent, Labels
  <2>3. pc' \in [Threads -> Labels] /\ loc' \in [Threads -> Locals] /\ Working'
    <3> HIDE DEF locals
    <3> QED BY <1>0, <2>1, <2>2, Move
  <2> QED BY <1>3, <2>3 DEF CardEventPresent, IInv, TypeOK
<1>4. CASE CardEventLocked
  <2>1. host' \in Host
    BY <1>0, <1>4, CardEventType DEF CardEventLocked, Locals
  <2>2. NoLocals \in Locals
    BY EnvironmentAssumption
       DEF NoLocals, Locals, MaybeReq, MaybeCmd, Slots, MaxMrqs
  <2>3. pc' \in [Threads -> Labels] /\ loc' \in [Threads -> Locals] /\ Working'
    BY <1>0, <1>4, <2>2, Move DEF CardEventLocked, Labels
  <2> QED BY <1>4, <2>1, <2>3 DEF CardEventLocked, IInv, TypeOK
<1> QED BY <1>1, <1>2, <1>3, <1>4 DEF IrqThread

LEMMA WorkerStartStep ==
  ASSUME IInv, WorkerStart
  PROVE  IInv'
<1>1. "worker" \in Threads /\ host \in Host
  BY DEF Threads, Executors, IInv, TypeOK
<1>2. pc' \in [Threads -> Labels] /\ Working'
  BY <1>1, MoveOnly DEF WorkerStart, Labels
<1>3. host' \in Host
  BY <1>1 DEF WorkerStart, Host
<1> QED BY <1>2, <1>3 DEF WorkerStart, IInv, TypeOK

LEMMA TimerStepInv ==
  ASSUME IInv, NEW x \in Timers, TimerExpire(x) \/ TimerRun(x)
  PROVE  IInv'
<1>1. host \in Host
  BY DEF IInv, TypeOK
<1>2. CASE TimerExpire(x)
  <2>1. host' \in Host
    BY <1>1, <1>2 DEF TimerExpire, Host
  <2> QED BY <1>2, <2>1, StayWorking DEF TimerExpire, IInv, TypeOK
<1>3. CASE TimerRun(x)
  <2>1. host' \in Host
    BY <1>1, <1>3, TimeoutTimerType, TimeoutDataTimerType DEF TimerRun
  <2> QED BY <1>3, <2>1, StayWorking DEF TimerRun, IInv, TypeOK
<1> QED BY <1>2, <1>3

LEMMA RaiseType ==
  ASSUME host \in Host, NEW bits \in SUBSET IntBits, NEW c \in MaybeCmd
  PROVE  Raise(bits, c) \in SUBSET (IntBits \X MaybeCmd)
BY DEF Raise, Host

LEMMA HardwareStep ==
  ASSUME IInv, Hardware \/ HwCard
  PROVE  IInv'
<1>0. host \in Host
  BY DEF IInv, TypeOK
<1>1. ASSUME NEW l \in Lines PROVE Hold(l) \subseteq SUBSET Lines
  BY <1>0 DEF Hold, Host
<1>2. "cmd" \in Lines /\ "dat" \in Lines
  BY DEF Lines
<1>3. CASE HwResponse
  <2> DEFINE c == host.cmdLine
  <2>1. c \in Cmds /\ c \in MaybeCmd
    BY <1>0, <1>3 DEF HwResponse, Host, MaybeCmd
  <2>2. Raise({"RESPONSE"}, c) \in SUBSET (IntBits \X MaybeCmd)
    BY <1>0, <2>1, RaiseType DEF IntBits, CmdBits
  <2>3. host.served \cup {Part(c)} \in SUBSET ErrorFields
    BY <1>0, <2>1, CommandParts DEF Host, ErrorFields
  <2>4. PICK held \in SUBSET Lines :
          host' = [host EXCEPT !.cmdLine = None, !.held = held,
                     !.status = Raise({"RESPONSE"}, c), !.served = @ \cup {Part(c)}]
    BY <1>1, <1>2, <1>3 DEF HwResponse
  <2>5. host' \in Host
    BY <1>0, <2>2, <2>3, <2>4 DEF Host, MaybeCmd
  <2> QED BY <1>3, <2>5, StayWorking DEF HwResponse, HwUnchanged, IInv, TypeOK
<1>4. CASE HwCmdError
  <2> DEFINE c == host.cmdLine
  <2>1. c \in MaybeCmd
    BY <1>0 DEF Host
  <2>2. PICK bits \in SUBSET IntBits, held \in SUBSET Lines :
          host' = [host EXCEPT !.cmdLine = None, !.held = held,
                               !.status = Raise(bits, c)]
    <3>1. {{"TIMEOUT"}, {"RESPONSE", "CRC"}} \cup
            (IF AutoCmd23 /\ Mrq(c) \in WithSbc /\ HasData(c)
             THEN {{"AUTO_CMD_ERR"}} ELSE {}) \subseteq SUBSET IntBits
      BY DEF IntBits, CmdBits
    <3> QED BY <1>1, <1>2, <1>4, <3>1 DEF HwCmdError
  <2>3. Raise(bits, c) \in SUBSET (IntBits \X MaybeCmd)
    BY <1>0, <2>1, RaiseType
  <2>4. host' \in Host
    BY <1>0, <2>2, <2>3 DEF Host, MaybeCmd
  <2> QED BY <1>4, <2>4, StayWorking DEF HwCmdError, HwUnchanged, IInv, TypeOK
<1>5. CASE HwDataEnd
  <2> DEFINE c == host.datLine
  <2>1. c \in MaybeCmd
    BY <1>0 DEF Host
  <2>2. Raise({"DATA_END"}, c) \in SUBSET (IntBits \X MaybeCmd)
    BY <1>0, <2>1, RaiseType DEF IntBits, DataBits
  <2>3. host.served \cup {"data"} \in SUBSET ErrorFields
    BY <1>0 DEF Host, ErrorFields
  <2>4. PICK held \in SUBSET Lines :
          host' = [host EXCEPT !.datLine = None, !.held = held,
                     !.status = Raise({"DATA_END"}, c), !.served = @ \cup {"data"}]
    BY <1>1, <1>2, <1>5 DEF HwDataEnd
  <2>5. host' \in Host
    BY <1>0, <2>2, <2>3, <2>4 DEF Host, MaybeCmd
  <2> QED BY <1>5, <2>5, StayWorking DEF HwDataEnd, HwUnchanged, IInv, TypeOK
<1>6. CASE HwDataError
  <2> DEFINE c == host.datLine
  <2>1. c \in MaybeCmd
    BY <1>0 DEF Host
  <2>2. PICK bits \in SUBSET IntBits, held \in SUBSET Lines :
          host' = [host EXCEPT !.datLine = None, !.held = held,
                               !.status = Raise(bits, c)]
    <3>1. {{"DATA_TIMEOUT"}} \cup (IF HasData(c) THEN {{"DATA_CRC"}} ELSE {}) \cup
            (IF AutoCmd12 /\ HasData(c) /\ Mrq(c) \in WithStop \ WithSbc
             THEN {{"AUTO_CMD_ERR"}} ELSE {}) \subseteq SUBSET IntBits
      BY DEF IntBits, CmdBits, DataBits
    <3> QED BY <1>1, <1>2, <1>6, <3>1 DEF HwDataError
  <2>3. Raise(bits, c) \in SUBSET (IntBits \X MaybeCmd)
    BY <1>0, <2>1, RaiseType
  <2>4. host' \in Host
    BY <1>0, <2>2, <2>3 DEF Host, MaybeCmd
  <2> QED BY <1>6, <2>4, StayWorking DEF HwDataError, HwUnchanged, IInv, TypeOK
<1>7. ASSUME NEW l \in Lines, HwRelease(l) PROVE IInv'
  <2>1. host' \in Host
    BY <1>0, <1>7 DEF HwRelease, Host
  <2> QED BY <1>7, <2>1, StayWorking DEF HwRelease, HwUnchanged, IInv, TypeOK
<1>8. CASE HwCard
  <2>1. Raise({"CARD"}, None) \in SUBSET (IntBits \X MaybeCmd)
    BY <1>0, RaiseType DEF IntBits, MaybeCmd
  <2>2. host' \in Host
    BY <1>0, <1>8, <2>1 DEF HwCard, Host
  <2>3. present' \in BOOLEAN
    BY <1>8 DEF HwCard
  <2> QED BY <1>8, <2>2, <2>3, StayWorking DEF HwCard, HwUnchanged, IInv, TypeOK
<1> QED BY <1>3, <1>4, <1>5, <1>6, <1>7, <1>8 DEF Hardware

-----------------------------------------------------------------------------

LEMMA NextInv == IInv /\ [Next]_vars => IInv'
<1> SUFFICES ASSUME IInv, [Next]_vars PROVE IInv'
  OBVIOUS
<1>1. CASE UNCHANGED vars
  BY <1>1 DEF vars, IInv, TypeOK, Working
<1>2. CASE Next
  BY <1>2, CallerStepInv, SleeperStep, IrqStep, IrqThreadStepInv,
     WorkerStartStep, ExecutorStep, TimerStepInv, HardwareStep DEF Next
<1> QED BY <1>1, <1>2

\* In every reachable state the host is a host of the right shape and every
\* thread that is about to send, unmap or complete has a command or a request
\* to do it with: no step of sdhci.c follows a null request.
THEOREM TypeCorrect == Spec => []IInv
BY InitInv, NextInv, PTL DEF Spec

\* The type invariant that the runs check.
THEOREM TypeInvariant == Spec => []TypeOK
<1>1. IInv => TypeOK
  BY DEF IInv
<1> QED BY <1>1, TypeCorrect, PTL

=============================================================================
