--------------------------- MODULE SdhciOnce_proofs ---------------------------
(***************************************************************************)
(* Why a request is completed once: the invariant Once, and what each step *)
(* does to it.  At any time the host has the request of the caller in at   *)
(* most one role.  It runs (cmd, data_cmd, data), or one command of it is  *)
(* deferred, or it is in one slot of mrqs_done, or it is not there.  Only  *)
(* a running request is touched by interrupts, timers and card removal.    *)
(*                                                                         *)
(* With scatter-gather DMA sdhci_request_done drops the lock while the     *)
(* request is still in its slot; Unmapping says that nobody else finishes  *)
(* requests meanwhile.  SdhciPort_proofs shows where that holds, and has   *)
(* the theorems.                                                           *)
(***************************************************************************)
EXTENDS SdhciRequest_proofs

-----------------------------------------------------------------------------
(* Roles *)

\* The host points to no request but m.
Owns(h, m) ==
  /\ Owner(h.cmd) \in {None, m}
  /\ Owner(h.data_cmd) \in {None, m}
  /\ Owner(h.deferred_cmd) \in {None, m}
  /\ h.data \in {None, m}
  /\ \A i \in Slots : h.mrqs_done[i] \in {None, m}

\* No request runs.
Parked(h) == h.cmd = None /\ h.data_cmd = None /\ h.data = None

\* The host points to no request at all.
Free(h) == Parked(h) /\ h.deferred_cmd = None /\ Done(h) = {}

OneRole(h, m) ==
  /\ Owns(h, m)
  /\ h.deferred_cmd # None \/ Done(h) # {} => Parked(h)
  /\ h.deferred_cmd # None => Done(h) = {}
  /\ \A i, j \in Done(h) : i = j
  /\ h.data # None => h.cmd \in {None, <<h.data, "cmd">>} /\ h.data \in WithData
  /\ h.cmd # None /\ Part(h.cmd) = "sbc" => h.data_cmd = None
  /\ h.warned = {}

\* What the roles depend on.
Roles(h) == <<h.cmd, h.data_cmd, h.deferred_cmd, h.data, h.mrqs_done, h.warned>>

\* From h to g the roles of m stay single, and nothing happens to them unless
\* it runs.
Moves(h, g, m) == OneRole(g, m) /\ (Parked(h) => Roles(g) = Roles(h))

LEMMA OwnerType ==
  ASSUME NEW c \in MaybeCmd, NEW m \in MaybeReq, Owner(c) \in {None, m}, c # None
  PROVE  c \in Cmds /\ Mrq(c) = m /\ m \in Reqs /\ m # None
BY RequestAssumption DEF Owner, MaybeCmd, MaybeReq, Cmds, Mrq

LEMMA SameRoles ==
  ASSUME NEW h, NEW g, NEW m, Roles(g) = Roles(h), OneRole(h, m)
  PROVE  Moves(h, g, m)
BY DEF Roles, OneRole, Owns, Parked, Done, Moves

\* A request that runs is neither deferred nor done.
LEMMA Running ==
  ASSUME NEW h, NEW m, OneRole(h, m), ~Parked(h)
  PROVE  h.deferred_cmd = None /\ Done(h) = {} /\ h.warned = {} /\ Owns(h, m)
BY DEF OneRole

LEMMA FailRoles ==
  ASSUME NEW h \in Host, NEW m, NEW field
  PROVE  Roles(Fail(h, m, field)) = Roles(h)
BY DEF Fail, Roles, Host

LEMMA ResetRoles ==
  ASSUME NEW h \in Host, NEW lines
  PROVE  Roles(DoReset(h, lines)) = Roles(h)
BY DEF DoReset, Roles, Host

-----------------------------------------------------------------------------
(* Finishing and sending *)

\* What __sdhci_finish_mrq leaves: m in one slot and nowhere else.
LEMMA FinishRoles ==
  ASSUME NEW h \in Host, NEW m \in Reqs, Owns(h, m), Done(h) = {},
         h.warned = {}
  PROVE  /\ OneRole(FinishMrqNoWork(h, m), m)
         /\ Parked(FinishMrqNoWork(h, m))
         /\ OneRole(FinishMrq(h, m), m)
         /\ Parked(FinishMrq(h, m))
         /\ Done(FinishMrqNoWork(h, m)) # {}
         /\ Done(FinishMrq(h, m)) # {}
<1> DEFINE detached == [h EXCEPT
             !.cmd = Drop(@, m), !.data_cmd = Drop(@, m),
             !.deferred_cmd = Drop(@, m), !.data = IF @ = m THEN None ELSE @,
             !.pending_reset = @ \/ NeedsReset(h, m)]
           f == FinishMrqNoWork(h, m)
<1>1. m # None
  BY RequestAssumption
<1>2. /\ detached.cmd = None /\ detached.data_cmd = None
      /\ detached.deferred_cmd = None /\ detached.data = None
      /\ detached.mrqs_done = h.mrqs_done /\ detached.warned = {}
  <2>1. ASSUME NEW c \in MaybeCmd, Owner(c) \in {None, m}
        PROVE  Drop(c, m) = None
    BY <2>1, OwnerType DEF Drop, MaybeReq
  <2>2. /\ Drop(h.cmd, m) = None /\ Drop(h.data_cmd, m) = None
        /\ Drop(h.deferred_cmd, m) = None
        /\ (IF h.data = m THEN None ELSE h.data) = None
    BY <2>1 DEF Owns, Host
  <2> QED BY <2>2 DEF Host
<1>3. detached \in Host
  BY DetachType
<1>4. \A i \in Slots : detached.mrqs_done[i] = None
  BY <1>2 DEF Done
<1>5. Done(detached) = {}
  BY <1>4 DEF Done
<1>6. 0 \in Slots
  BY DEF Slots, MaxMrqs
<1>7. FirstSlot(Slots) \in Slots
  BY <1>6, FirstSlotType
<1>8. SetMrqDone(detached, m)
        = [detached EXCEPT !.mrqs_done[FirstSlot(Slots)] = m]
  <2>1. ~ \E i \in Slots : detached.mrqs_done[i] = m
    BY <1>1, <1>4
  <2>2. Slots \ Done(detached) = Slots /\ Slots # {}
    BY <1>5, <1>6
  <2> HIDE DEF detached
  <2> QED BY <2>1, <2>2 DEF SetMrqDone
<1>9. f = [SetMrqDone(detached, m) EXCEPT !.timers = @ \ {TimerOf(m)}]
  BY DEF FinishMrqNoWork
<1> HIDE DEF detached, f
<1>10. /\ f.cmd = None /\ f.data_cmd = None /\ f.deferred_cmd = None
       /\ f.data = None /\ f.warned = {}
       /\ f.mrqs_done = [detached.mrqs_done EXCEPT ![FirstSlot(Slots)] = m]
  BY <1>2, <1>3, <1>8, <1>9 DEF Host
<1>11. /\ f.mrqs_done[FirstSlot(Slots)] = m
       /\ \A i \in Slots \ {FirstSlot(Slots)} : f.mrqs_done[i] = None
  BY <1>3, <1>4, <1>7, <1>10 DEF Host
<1>12. Done(f) = {FirstSlot(Slots)}
  BY <1>1, <1>7, <1>11 DEF Done
<1>13. OneRole(f, m) /\ Parked(f)
  BY <1>10, <1>11, <1>12 DEF OneRole, Owns, Owner, Parked
<1>14. Roles(FinishMrq(h, m)) = Roles(f)
  <2>1. f \in Host
    BY FinishMrqNoWorkType DEF f
  <2>2. FinishMrq(h, m) = [f EXCEPT !.work = TRUE]
    BY DEF FinishMrq, f
  <2> QED BY <2>1, <2>2 DEF Roles, Host
<1>15. OneRole(FinishMrq(h, m), m) /\ Parked(FinishMrq(h, m))
  BY <1>13, <1>14, SameRoles DEF Moves, Roles, Parked
<1>16. Done(FinishMrq(h, m)) = Done(f)
  BY <1>14 DEF Roles, Done
<1> QED BY <1>12, <1>13, <1>15, <1>16 DEF f

LEMMA BeginRoles ==
  ASSUME NEW h \in Host, NEW c \in Cmds, h.cmd = None
  PROVE  Roles(Begin(h, c)) = Roles(h)
BY DEF Begin, Warn, Roles, Host

\* What sdhci_send_command leaves when the inhibit bits are off.
LEMMA SendRoles ==
  ASSUME NEW h \in Host, NEW c \in Cmds, Parked(h), h.warned = {},
         ~Inhibited(h, c)
  PROVE  LET s == SendCommand(h, c)
         IN /\ s \in Host
            /\ s.cmd = c
            /\ s.data_cmd = IF DataLine(c) THEN c ELSE None
            /\ s.data = IF HasData(c) THEN Mrq(c) ELSE None
            /\ s.deferred_cmd = h.deferred_cmd
            /\ s.mrqs_done = h.mrqs_done
            /\ s.warned = {}
<1> DEFINE b == Begin(h, c)
           g == IF DataLine(c)
                THEN [Warn(b, b.data_cmd # None, "data_cmd") EXCEPT !.data_cmd = c]
                ELSE b
           d == IF HasData(c) THEN PrepareData(g, Mrq(c)) ELSE g
           s == SendCommand(h, c)
<1>1. b \in Host /\ Roles(b) = Roles(h)
  BY BeginType, BeginRoles DEF Parked
<1>2. /\ b.cmd = None /\ b.data_cmd = None /\ b.data = None /\ b.warned = {}
      /\ b.deferred_cmd = h.deferred_cmd /\ b.mrqs_done = h.mrqs_done
  BY <1>1 DEF Roles, Parked
<1>3. Warn(b, b.data_cmd # None, "data_cmd") = b
  BY <1>2 DEF Warn
<1>4. /\ g \in Host /\ g.cmd = None /\ g.data = None /\ g.warned = {}
      /\ g.data_cmd = IF DataLine(c) THEN c ELSE None
      /\ g.deferred_cmd = h.deferred_cmd /\ g.mrqs_done = h.mrqs_done
  <2> HIDE DEF b
  <2> QED BY <1>1, <1>2, <1>3 DEF Host, MaybeCmd
<1>5. s = [d EXCEPT !.cmd = c, !.timers = @ \cup {TimerOf(Mrq(c))},
                    !.cmdLine = c, !.datLine = IF DataLine(c) THEN c ELSE @]
  BY DEF SendCommand, Issue
<1> HIDE DEF b, g
<1>6. PrepareData(g, Mrq(c)) =
        [g EXCEPT !.data = Mrq(c), !.data_early = FALSE,
                  !.mapped = IF Mapping = "pio" THEN @ ELSE @ \cup {Mrq(c)}]
  BY <1>4 DEF PrepareData, Warn
<1>7. /\ d \in Host /\ d.warned = {}
      /\ d.data_cmd = IF DataLine(c) THEN c ELSE None
      /\ d.data = IF HasData(c) THEN Mrq(c) ELSE None
      /\ d.deferred_cmd = h.deferred_cmd /\ d.mrqs_done = h.mrqs_done
  <2>1. d \in Host
    BY <1>4, PrepareDataType, CommandParts
  <2> QED BY <1>4, <1>6, <2>1 DEF Host
<1> HIDE DEF d
<1>8. s \in Host
  BY SendCommandType
<1> QED BY <1>5, <1>7, <1>8 DEF Host, s

LEMMA SentRoles ==
  ASSUME NEW h \in Host, NEW m \in Reqs, NEW c \in Cmds, Mrq(c) = m,
         Parked(h), Done(h) = {}, h.warned = {}, ~Inhibited(h, c),
         NEW g \in Host,
         Roles(g) = Roles([SendCommand(h, c) EXCEPT !.deferred_cmd = None])
  PROVE  OneRole(g, m)
<1>1. /\ g.cmd = c /\ g.data_cmd = (IF DataLine(c) THEN c ELSE None)
      /\ g.data = (IF HasData(c) THEN m ELSE None) /\ g.deferred_cmd = None
      /\ g.mrqs_done = h.mrqs_done /\ g.warned = {}
  BY SendRoles DEF Roles, Host
<1>2. \A i \in Slots : g.mrqs_done[i] = None
  BY <1>1 DEF Done
<1>3. Done(g) = {}
  BY <1>2 DEF Done
<1>4. Owns(g, m)
  BY <1>1, <1>2 DEF Owns, Owner
<1>5. HasData(c) => m \in WithData /\ c = <<m, "cmd">>
  BY DEF HasData, Mrq, Part, Cmds
<1>6. Part(c) = "sbc" => ~DataLine(c)
  BY DEF DataLine, HasData, Busy
<1> QED BY <1>1, <1>3, <1>4, <1>5, <1>6 DEF OneRole

LEMMA SendOrDeferRoles ==
  ASSUME NEW h \in Host, NEW m \in Reqs, NEW c \in Cmds, Mrq(c) = m,
         Parked(h), Done(h) = {}, h.warned = {}, h.deferred_cmd = None
  PROVE  OneRole(SendOrDefer(h, c), m)
<1> DEFINE s == SendCommand(h, c)
<1>1. CASE ~Inhibited(h, c)
  <2>1. SendOrDefer(h, c) = s
    BY <1>1 DEF SendOrDefer
  <2>2. s \in Host /\ s.deferred_cmd = None
    BY <1>1, SendRoles
  <2>3. Roles(s) = Roles([s EXCEPT !.deferred_cmd = None])
    <3> HIDE DEF s
    <3> QED BY <2>2 DEF Roles, Host
  <2> QED BY <1>1, <2>1, <2>2, <2>3, SentRoles
<1>2. CASE Inhibited(h, c)
  <2>1. s = Begin(h, c)
    BY <1>2 DEF SendCommand
  <2>2. s \in Host /\ Roles(s) = Roles(h)
    BY <2>1, BeginType, BeginRoles DEF Parked
  <2> DEFINE g == [s EXCEPT !.deferred_cmd = c]
  <2>3. SendOrDefer(h, c) = g
    BY <1>2, <2>2 DEF SendOrDefer, Warn, Roles
  <2> HIDE DEF s
  <2>4. /\ g.cmd = None /\ g.data_cmd = None /\ g.data = None
        /\ g.deferred_cmd = c /\ g.mrqs_done = h.mrqs_done /\ g.warned = {}
    BY <2>2 DEF Roles, Parked, Host
  <2> HIDE DEF g
  <2>5. \A i \in Slots : g.mrqs_done[i] = None
    BY <2>4 DEF Done
  <2>6. Done(g) = {}
    BY <2>5 DEF Done
  <2> QED BY <2>3, <2>4, <2>5, <2>6 DEF OneRole, Owns, Owner, Parked
<1> QED BY <1>1, <1>2

-----------------------------------------------------------------------------
(* Interrupts, timers and card removal: they touch a running request only.  *)

LEMMA FinishDataRoles ==
  ASSUME NEW h \in Host, NEW m \in MaybeReq, OneRole(h, m), h.data # None,
         NEW swTimeout \in BOOLEAN
  PROVE  OneRole(FinishData(h, swTimeout), m)
<1> DEFINE stop == <<m, "stop">>
           lines == IF "data" \notin h.error[m] THEN {}
                    ELSE IF h.cmd = None \/ h.cmd = h.data_cmd THEN Lines
                    ELSE {"dat"}
           e == [h EXCEPT !.data = None, !.data_cmd = None]
           g == DoReset(e, lines)
           k == [g EXCEPT !.cmd = None]
<1>1. m \in Reqs /\ h.data = m
  BY DEF OneRole, Owns, Host, MaybeReq
<1>2. /\ h.deferred_cmd = None /\ Done(h) = {} /\ h.warned = {} /\ Owns(h, m)
  BY Running DEF Parked
<1>3. e \in Host /\ g \in Host
  <2>1. e \in Host
    BY DEF Host, MaybeCmd, MaybeReq
  <2> QED BY <2>1, DoResetType DEF Lines
<1>4. Roles(g) = Roles(e)
  BY <1>3, ResetRoles
<1>5. /\ g.cmd = h.cmd /\ g.data_cmd = None /\ g.data = None
      /\ g.deferred_cmd = None /\ g.mrqs_done = h.mrqs_done /\ g.warned = {}
  <2> HIDE DEF g
  <2> QED BY <1>2, <1>4 DEF Roles, Host
<1>6. Done(g) = {} /\ Owns(g, m)
  <2> HIDE DEF g
  <2> QED BY <1>2, <1>5 DEF Done, Owns, Owner
<1>7. k \in Host /\ Parked(k) /\ Done(k) = {} /\ k.warned = {}
        /\ k.deferred_cmd = None /\ Owns(k, m)
  <2> HIDE DEF g
  <2> QED BY <1>3, <1>5, <1>6 DEF Host, MaybeCmd, Parked, Done, Owns, Owner
<1>8. stop \in Cmds /\ Mrq(stop) = m
  BY <1>1 DEF Cmds, Parts, Mrq
<1> HIDE DEF k
<1>9. OneRole(FinishMrqNoWork(g, m), m)
  BY <1>1, <1>3, <1>5, <1>6, FinishRoles
<1>10. OneRole(FinishMrqNoWork(Fail(Begin(k, stop), m, "stop"), m), m)
  <2> DEFINE b == Begin(k, stop)
             f == Fail(b, m, "stop")
  <2>1. b \in Host /\ Roles(b) = Roles(k)
    BY <1>7, <1>8, BeginType, BeginRoles DEF Parked
  <2>2. f \in Host /\ Roles(f) = Roles(k)
    <3> HIDE DEF b
    <3> QED BY <1>1, <2>1, FailType, FailRoles DEF ErrorFields, Parts
  <2> HIDE DEF f
  <2>3. Owns(f, m) /\ Done(f) = {} /\ f.warned = {}
    BY <1>7, <2>2 DEF Roles, Owns, Done
  <2> QED BY <1>1, <2>2, <2>3, FinishRoles DEF f
<1>11. OneRole(SendOrDefer(k, stop), m)
  BY <1>1, <1>7, <1>8, SendOrDeferRoles
<1> QED BY <1>1, <1>9, <1>10, <1>11 DEF FinishData, k

LEMMA FinishCommandRoles ==
  ASSUME NEW h \in Host, NEW m \in MaybeReq, OneRole(h, m), h.cmd # None
  PROVE  OneRole(FinishCommand(h), m)
<1> DEFINE c == h.cmd
           g == [h EXCEPT !.cmd = None]
           d == IF g.data # None /\ g.data_early THEN FinishData(g, FALSE) ELSE g
<1>1. c \in Cmds /\ Mrq(c) = m /\ m \in Reqs
  BY OwnerType DEF OneRole, Owns, Host
<1>2. /\ h.deferred_cmd = None /\ Done(h) = {} /\ h.warned = {} /\ Owns(h, m)
  BY Running DEF Parked
<1>3. g \in Host
  BY DEF Host, MaybeCmd
<1>4. /\ g.cmd = None /\ g.data_cmd = h.data_cmd /\ g.data = h.data
      /\ g.deferred_cmd = None /\ g.mrqs_done = h.mrqs_done /\ g.warned = {}
  BY <1>2 DEF Host
<1> HIDE DEF g
<1>5. Done(g) = {} /\ Owns(g, m)
  BY <1>2, <1>4 DEF Done, Owns, Owner
<1>6. OneRole(g, m)
  BY <1>4, <1>5 DEF OneRole
<1>7. CASE Part(c) = "sbc"
  <2>1. g.data_cmd = None
    BY <1>4, <1>7 DEF OneRole
  <2>2. g.data = None
    <3>1. Part(<<h.data, "cmd">>) = "cmd"
      BY DEF Part
    <3> QED BY <1>4, <1>7, <3>1 DEF OneRole
  <2>3. <<m, "cmd">> \in Cmds /\ Mrq(<<m, "cmd">>) = m
    BY <1>1 DEF Cmds, Parts, Mrq
  <2>4. OneRole(SendOrDefer(g, <<m, "cmd">>), m)
    BY <1>1, <1>3, <1>4, <1>5, <2>1, <2>2, <2>3, SendOrDeferRoles DEF Parked
  <2> QED BY <1>1, <1>6, <1>7, <2>4 DEF FinishCommand, g
<1>8. CASE HasData(c)
  <2>1. Part(c) # "sbc"
    BY <1>8 DEF HasData
  <2>2. OneRole(d, m)
    BY <1>3, <1>6, FinishDataRoles
  <2> QED BY <1>6, <1>8, <2>1, <2>2 DEF FinishCommand, g
<1>9. CASE Part(c) # "sbc" /\ ~HasData(c)
  <2>1. h.data = None
    BY <1>9 DEF OneRole, HasData, Part, Mrq
  <2>2. d = g
    BY <1>4, <2>1
  <2>3. OneRole(FinishMrqNoWork(g, m), m)
    BY <1>1, <1>3, <1>4, <1>5, FinishRoles
  <2> QED BY <1>1, <1>6, <1>9, <2>2, <2>3 DEF FinishCommand, g
<1> QED BY <1>7, <1>8, <1>9

\* A running command fails and its request is finished.
LEMMA FailedRoles ==
  ASSUME NEW h \in Host, NEW m \in Reqs, Owns(h, m), Done(h) = {},
         h.warned = {}, NEW field \in ErrorFields
  PROVE  /\ OneRole(FinishMrqNoWork(Fail(h, m, field), m), m)
         /\ OneRole(FinishMrq(Fail(h, m, field), m), m)
         /\ Parked(FinishMrq(Fail(h, m, field), m))
<1> DEFINE f == Fail(h, m, field)
<1>1. f \in Host /\ Roles(f) = Roles(h)
  BY FailType, FailRoles
<1> HIDE DEF f
<1>2. Owns(f, m) /\ Done(f) = {} /\ f.warned = {}
  BY <1>1 DEF Roles, Owns, Done
<1> QED BY <1>1, <1>2, FinishRoles DEF f

LEMMA CmdIrqMoves ==
  ASSUME NEW h \in Host, NEW m \in MaybeReq, OneRole(h, m),
         NEW bits \in SUBSET IntBits
  PROVE  Moves(h, CmdIrq(h, bits), m)
<1>1. CASE h.cmd = None
  BY <1>1, SameRoles DEF CmdIrq
<1>2. CASE h.cmd # None
  <2> DEFINE failed == Fail(h, m, Part(h.cmd))
  <2>1. h.cmd \in Cmds /\ Mrq(h.cmd) = m /\ m \in Reqs
    BY <1>2, OwnerType DEF OneRole, Owns, Host
  <2>2. Part(h.cmd) \in ErrorFields /\ "sbc" \in ErrorFields
    BY <2>1, CommandParts DEF ErrorFields, Parts
  <2>3. ~Parked(h)
    BY <1>2 DEF Parked
  <2>4. /\ h.deferred_cmd = None /\ Done(h) = {} /\ h.warned = {} /\ Owns(h, m)
    BY <2>3, Running
  <2>5. OneRole(FinishMrqNoWork(failed, m), m)
    BY <2>1, <2>2, <2>4, FailedRoles
  <2>6. OneRole(FinishMrqNoWork(Fail(h, m, "sbc"), m), m)
    BY <2>1, <2>2, <2>4, FailedRoles
  <2>7. OneRole([failed EXCEPT !.cmd = None], m)
    <3>1. failed \in Host /\ Roles(failed) = Roles(h)
      BY <2>1, <2>2, FailType, FailRoles
    <3> DEFINE g == [failed EXCEPT !.cmd = None]
    <3> HIDE DEF failed
    <3>2. /\ g.cmd = None /\ g.data_cmd = h.data_cmd /\ g.data = h.data
          /\ g.deferred_cmd = None /\ g.mrqs_done = h.mrqs_done /\ g.warned = {}
      BY <2>4, <3>1 DEF Roles, Host
    <3> HIDE DEF g
    <3>3. Done(g) = {} /\ Owns(g, m)
      BY <2>4, <3>2 DEF Done, Owns, Owner
    <3>4. OneRole(g, m)
      BY <3>2, <3>3 DEF OneRole
    <3> QED BY <3>4 DEF g
  <2>8. OneRole(FinishCommand(h), m)
    BY <1>2, FinishCommandRoles
  <2>9. OneRole(CmdIrq(h, bits), m)
    BY <2>1, <2>5, <2>6, <2>7, <2>8 DEF CmdIrq
  <2> QED BY <2>3, <2>9 DEF Moves
<1> QED BY <1>1, <1>2

LEMMA BusyIrqMoves ==
  ASSUME NEW h \in Host, NEW m \in MaybeReq, OneRole(h, m),
         NEW bits \in SUBSET IntBits
  PROVE  Moves(h, BusyIrq(h, bits), m)
<1>1. CASE h.data_cmd = None
  BY <1>1, SameRoles DEF BusyIrq
<1>2. CASE h.data_cmd # None
  <2> DEFINE c == h.data_cmd
             g == [h EXCEPT !.data_cmd = None]
  <2>1. Mrq(c) = m /\ m \in Reqs /\ Part(c) \in ErrorFields
    BY <1>2, OwnerType, CommandParts DEF OneRole, Owns, Host, ErrorFields
  <2>2. ~Parked(h)
    BY <1>2 DEF Parked
  <2>3. /\ h.deferred_cmd = None /\ Done(h) = {} /\ h.warned = {} /\ Owns(h, m)
    BY <2>2, Running
  <2>4. /\ g.cmd = h.cmd /\ g.data_cmd = None /\ g.data = h.data
        /\ g.deferred_cmd = None /\ g.mrqs_done = h.mrqs_done /\ g.warned = {}
    BY <2>3 DEF Host
  <2>5. g \in Host
    BY DEF Host, MaybeCmd
  <2> HIDE DEF g
  <2>6. Done(g) = {} /\ Owns(g, m)
    BY <2>3, <2>4 DEF Done, Owns, Owner
  <2>7. OneRole(g, m)
    BY <2>4, <2>6 DEF OneRole
  <2>8. /\ OneRole(FinishMrqNoWork(g, m), m)
        /\ OneRole(FinishMrqNoWork(Fail(g, m, Part(c)), m), m)
    BY <2>1, <2>4, <2>5, <2>6, FinishRoles, FailedRoles
  <2>9. OneRole(BusyIrq(h, bits), m)
    BY <2>1, <2>7, <2>8 DEF BusyIrq, g
  <2> QED BY <2>2, <2>9 DEF Moves
<1> QED BY <1>1, <1>2

LEMMA FailedDataRoles ==
  ASSUME NEW h \in Host, NEW m \in MaybeReq, OneRole(h, m), h.data # None,
         NEW swTimeout \in BOOLEAN
  PROVE  OneRole(FinishData(Fail(h, h.data, "data"), swTimeout), m)
<1> DEFINE f == Fail(h, h.data, "data")
<1>1. h.data \in Reqs /\ "data" \in ErrorFields
  BY DEF Host, MaybeReq, ErrorFields
<1>2. f \in Host /\ Roles(f) = Roles(h)
  BY <1>1, FailType, FailRoles
<1> HIDE DEF f
<1>3. f.data # None /\ OneRole(f, m)
  BY <1>2, SameRoles DEF Roles, Moves
<1>4. OneRole(FinishData(f, swTimeout), m)
  BY <1>2, <1>3, FinishDataRoles
<1> QED BY <1>4 DEF f

LEMMA DataIrqMoves ==
  ASSUME NEW h \in Host, NEW m \in MaybeReq, OneRole(h, m),
         NEW bits \in SUBSET IntBits
  PROVE  Moves(h, DataIrq(h, bits), m)
<1>1. CASE h.data = None
  BY <1>1, BusyIrqMoves DEF DataIrq
<1>2. CASE h.data # None
  <2>1. OneRole(FinishData(Fail(h, h.data, "data"), FALSE), m)
    BY <1>2, FailedDataRoles
  <2>2. OneRole(FinishData(h, FALSE), m)
    BY <1>2, FinishDataRoles
  <2>3. OneRole([h EXCEPT !.data_early = TRUE], m)
    <3>1. Roles([h EXCEPT !.data_early = TRUE]) = Roles(h)
      BY DEF Roles, Host
    <3> QED BY <3>1, SameRoles DEF Moves
  <2>4. OneRole(DataIrq(h, bits), m)
    BY <1>2, <2>1, <2>2, <2>3 DEF DataIrq
  <2> QED BY <1>2, <2>4 DEF Moves, Parked
<1> QED BY <1>1, <1>2

\* FinishMrq of the request of a running command c that failed.
LEMMA FailAndFinishRoles ==
  ASSUME NEW h \in Host, NEW m \in MaybeReq, OneRole(h, m),
         NEW c \in {h.cmd, h.data_cmd}, c # None
  PROVE  /\ OneRole(FinishMrq(Fail(h, Mrq(c), Part(c)), Mrq(c)), m)
         /\ Parked(FinishMrq(Fail(h, Mrq(c), Part(c)), Mrq(c)))
         /\ FinishMrq(Fail(h, Mrq(c), Part(c)), Mrq(c)) \in Host
<1>1. c \in MaybeCmd /\ Owner(c) \in {None, m}
  BY DEF Host, OneRole, Owns
<1>2. Mrq(c) = m /\ m \in Reqs /\ Part(c) \in ErrorFields
  BY <1>1, OwnerType, CommandParts DEF ErrorFields
<1>3. /\ h.deferred_cmd = None /\ Done(h) = {} /\ h.warned = {} /\ Owns(h, m)
  BY Running DEF Parked
<1> QED BY <1>1, <1>2, <1>3, FailedRoles, FailAndFinishType

LEMMA TimeoutTimerMoves ==
  ASSUME NEW h \in Host, NEW m \in MaybeReq, OneRole(h, m)
  PROVE  Moves(h, TimeoutTimer(h), m)
<1>1. CASE h.cmd # None /\ ~DataLine(h.cmd)
  BY <1>1, FailAndFinishRoles DEF TimeoutTimer, Moves, Parked
<1>2. CASE ~(h.cmd # None /\ ~DataLine(h.cmd))
  BY <1>2, SameRoles DEF TimeoutTimer
<1> QED BY <1>1, <1>2

LEMMA TimeoutDataTimerMoves ==
  ASSUME NEW h \in Host, NEW m \in MaybeReq, OneRole(h, m)
  PROVE  Moves(h, TimeoutDataTimer(h), m)
<1>1. CASE h.data # None
  <2> DEFINE g == FinishData(Fail(h, h.data, "data"), TRUE)
  <2>1. OneRole(g, m)
    BY <1>1, FailedDataRoles
  <2>2. g \in Host
    <3>1. Fail(h, h.data, "data") \in Host /\ Fail(h, h.data, "data").data = h.data
      BY <1>1, FailDataType
    <3> QED BY <1>1, <3>1, FinishDataType
  <2> HIDE DEF g
  <2>3. Roles([g EXCEPT !.work = TRUE]) = Roles(g)
    BY <2>2 DEF Roles, Host
  <2>4. OneRole([g EXCEPT !.work = TRUE], m)
    BY <2>1, <2>3, SameRoles DEF Moves
  <2> QED BY <1>1, <2>4 DEF TimeoutDataTimer, Moves, Parked, g
<1>2. CASE h.data = None /\ h.data_cmd # None
  BY <1>2, FailAndFinishRoles DEF TimeoutDataTimer, Moves, Parked
<1>3. CASE h.data = None /\ h.data_cmd = None /\ h.cmd # None
  BY <1>3, FailAndFinishRoles, SameRoles DEF TimeoutDataTimer, Moves, Parked
<1>4. CASE Parked(h)
  BY <1>4, SameRoles DEF TimeoutDataTimer, Parked
<1> QED BY <1>1, <1>2, <1>3, <1>4 DEF Parked

LEMMA CardEventMoves ==
  ASSUME NEW h \in Host, NEW m \in MaybeReq, OneRole(h, m),
         NEW there \in BOOLEAN
  PROVE  Moves(h, CardEvent(h, there), m)
<1> DEFINE r == DoReset(h, Lines)
           g == ErrorOut(r, r.data_cmd)
<1>1. r \in Host /\ Roles(r) = Roles(h)
  BY DoResetType, ResetRoles
<1> HIDE DEF r
<1>2. OneRole(r, m)
  BY <1>1, SameRoles DEF Moves
<1>3. OneRole(g, m) /\ g \in Host
  BY <1>1, <1>2, FailAndFinishRoles DEF ErrorOut
<1>4. OneRole(ErrorOutMrqs(r), m)
  <2> HIDE DEF g
  <2>1. OneRole(ErrorOut(g, g.cmd), m)
    BY <1>3, FailAndFinishRoles DEF ErrorOut
  <2> QED BY <2>1 DEF ErrorOutMrqs, g
<1>5. CASE HasRequests(h) /\ ~there
  <2>1. ~Parked(h)
    BY <1>5 DEF HasRequests, Parked
  <2> QED BY <1>4, <1>5, <2>1 DEF CardEvent, Moves, r
<1>6. CASE ~(HasRequests(h) /\ ~there)
  BY <1>6, SameRoles DEF CardEvent
<1> QED BY <1>5, <1>6

LEMMA FreeRoles ==
  ASSUME NEW h \in Host, NEW m, Free(h), h.warned = {}
  PROVE  OneRole(h, m)
BY DEF Free, Parked, OneRole, Owns, Owner, Done

\* Once its slot is cleared, the host does not point to the request.
LEMMA CompleteRoles ==
  ASSUME NEW h \in Host, NEW m \in MaybeReq, OneRole(h, m), NEW i \in Done(h)
  PROVE  OneRole(Complete(h, i, m), m) /\ Free(Complete(h, i, m))
<1> DEFINE r == DoReset(h, Lines)
           g == IF NeedsReset(h, m)
                THEN [r EXCEPT !.pending_reset = FALSE] ELSE h
           f == Complete(h, i, m)
<1>1. r \in Host /\ Roles(r) = Roles(h)
  BY DoResetType, ResetRoles
<1>2. g \in Host /\ Roles(g) = Roles(h)
  <2> HIDE DEF r
  <2> QED BY <1>1 DEF Roles, Host
<1>3. f = [g EXCEPT !.mrqs_done[i] = None]
  BY DEF Complete
<1> HIDE DEF g, f
<1>4. Parked(h) /\ h.deferred_cmd = None /\ h.warned = {}
  BY DEF OneRole
<1>5. /\ Parked(f) /\ f.deferred_cmd = None /\ f.warned = {}
      /\ f.mrqs_done = [h.mrqs_done EXCEPT ![i] = None]
  BY <1>2, <1>3, <1>4 DEF Roles, Host, Parked
<1>6. \A j \in Slots : f.mrqs_done[j] = None
  BY <1>5 DEF Host, OneRole, Done
<1>7. Done(f) = {}
  BY <1>6 DEF Done
<1>8. Free(f)
  BY <1>5, <1>7 DEF Free
<1>9. OneRole(f, m)
  BY <1>5, <1>6, <1>7 DEF OneRole, Owns, Owner, Parked
<1> QED BY <1>8, <1>9 DEF f

-----------------------------------------------------------------------------
(* The inductive invariant *)

Asleep == {"asleep", "retry"}

\* A sleeper has the command it is to send, and for the interrupt thread that
\* is the deferred command, which nobody else takes.
InHand ==
  /\ loc["caller"].cmd =
       IF pc["caller"] \in Asleep THEN FirstCmd(Current) ELSE None
  /\ loc["irq_thread"].cmd =
       IF pc["irq_thread"] \in Asleep THEN host.deferred_cmd ELSE None
  /\ pc["irq_thread"] \in Asleep => host.deferred_cmd # None

\* The host has the request only between its submission and its completion,
\* and then in one role.
Once ==
  /\ OneRole(host, Current)
  /\ sem_ack \in {0, 1}
  /\ Current = None <=> pc["caller"] = "idle"
  /\ pc["caller"] # "wait" => sem_ack = 0 /\ Free(host)
  /\ sem_ack = 1 => Free(host)
  /\ InHand

\* A thread that has dropped the lock in sdhci_request_done has the request of
\* the caller, in its slot.
Unmapping ==
  \A t \in Executors :
    IF pc[t] \in {"unmap", "relock"}
    THEN /\ Mapping = "sg" /\ loc[t].mrq = Current
         /\ loc[t].slot \in Done(host) /\ Current \in host.mapped
    ELSE loc[t].mrq = None

LEMMA InitOnce == Init => Once /\ Unmapping
<1> SUFFICES ASSUME Init PROVE Once /\ Unmapping
  OBVIOUS
<1>1. host = InitHost /\ host \in Host
  BY InitInv DEF Init, IInv, TypeOK
<1>2. Free(host) /\ host.warned = {}
  BY <1>1 DEF InitHost, Free, Parked, Done
<1>3. OneRole(host, Current)
  BY <1>1, <1>2, FreeRoles
<1>4. Current = None /\ InHand /\ Unmapping
  BY DEF Init, Current, InHand, Unmapping, NoLocals, Threads, Executors, Asleep
<1>5. pc["caller"] = "idle" /\ sem_ack = 0
  BY DEF Init, Threads
<1> QED BY <1>2, <1>3, <1>4, <1>5 DEF Once

\* What Once says of a host that is not free.
LEMMA Busily ==
  ASSUME IInv, Once, ~Free(host)
  PROVE  sem_ack = 0 /\ pc["caller"] = "wait" /\ Current \in Reqs
<1>1. sem_ack = 0 /\ pc["caller"] = "wait" /\ Current # None
  BY DEF Once
<1>2. Current \in MaybeReq
  BY DEF IInv, TypeOK, Current, Locals, Threads
<1> QED BY <1>1, <1>2 DEF MaybeReq

\* The interrupt thread does not sleep over a host that is free or done.
LEMMA Awake ==
  ASSUME Once, host.deferred_cmd = None
  PROVE  pc["irq_thread"] \notin Asleep /\ loc["irq_thread"].cmd = None
BY DEF Once, InHand

\* A step that moves the request in the host, and no thread in or out of a
\* place that matters.
LEMMA OnceKeep ==
  ASSUME Once, Moves(host, host', Current), sem_ack' = sem_ack,
         loc'["caller"].mrq = loc["caller"].mrq,
         \A t \in Threads : /\ loc'[t].cmd = loc[t].cmd
                            /\ pc'[t] \in Asleep <=> pc[t] \in Asleep,
         pc'["caller"] = "idle" <=> pc["caller"] = "idle",
         pc'["caller"] = "wait" <=> pc["caller"] = "wait"
  PROVE  Once'
<1>1. "caller" \in Threads /\ "irq_thread" \in Threads /\ Executors \subseteq Threads
  BY DEF Threads, Executors
<1>2. Current' = Current
  BY <1>1 DEF Current
<1>3. Free(host) => Free(host)'
  BY DEF Moves, Roles, Free, Parked, Done
<1>4. host.deferred_cmd # None => host'.deferred_cmd = host.deferred_cmd
  BY DEF Once, OneRole, Moves, Roles
<1>5. InHand'
  BY <1>1, <1>2, <1>4 DEF Once, InHand
<1>6. OneRole(host, Current)'
  BY <1>2 DEF Moves
<1> QED BY <1>2, <1>3, <1>5, <1>6 DEF Once

\* The same for a step that does not touch the threads.
LEMMA OnceStay ==
  ASSUME Once, Moves(host, host', Current), UNCHANGED <<pc, loc, sem_ack>>
  PROVE  Once'
BY OnceKeep

\* Or that moves one thread only.
LEMMA OnceGoto ==
  ASSUME IInv, Once, Moves(host, host', Current), UNCHANGED <<loc, sem_ack>>,
         NEW t \in Executors, NEW label, Goto(t, label),
         label \notin Asleep, pc[t] \notin Asleep
  PROVE  Once'
<1>1. t \in Threads /\ t # "caller" /\ "caller" \in Threads
  BY DEF Threads, Executors
<1>2. pc'[t] = label /\ \A u \in Threads \ {t} : pc'[u] = pc[u]
  BY <1>1 DEF Goto, IInv, TypeOK
<1> QED BY <1>1, <1>2, OnceKeep

-----------------------------------------------------------------------------
(* sdhci_send_command_retry *)

\* A host that has m parked, or not at all, after an attempt to send c: m runs
\* or is done, or nothing happened and the thread sleeps.
LEMMA TryRoles ==
  ASSUME NEW h \in Host, NEW m \in Reqs, Owns(h, m), Parked(h), Done(h) = {},
         h.warned = {}, NEW c \in Cmds, Mrq(c) = m,
         h.deferred_cmd \in {None, c},
         NEW t, NEW tries, NEW isr, Try(t, h, c, tries, isr), host' \in Host
  PROVE  \/ OneRole(host', m) /\ Continue(t, isr)
         \/ /\ Roles(host') = Roles(h)
            /\ Goto(t, "asleep")
            /\ Keep(t, [loc[t] EXCEPT !.cmd = c, !.tries = tries - 1,
                                       !.there = FALSE, !.isr = isr])
<1> DEFINE b == Begin(h, c)
<1>1. b \in Host /\ Roles(b) = Roles(h)
  BY BeginType, BeginRoles DEF Parked
<1>2. CASE Sent(t, h, c, isr)
  <2> DEFINE s == SendCommand(h, c)
  <2>1. ~Inhibited(h, c) /\ Continue(t, isr)
    BY <1>2 DEF Sent
  <2>2. host' = [s EXCEPT !.deferred_cmd = IF @ = c THEN None ELSE @]
    BY <1>2 DEF Sent
  <2>3. s \in Host /\ s.deferred_cmd \in {None, c}
    BY <2>1, SendRoles
  <2>4. Roles(host') = Roles([s EXCEPT !.deferred_cmd = None])
    <3> HIDE DEF s
    <3> QED BY <2>2, <2>3 DEF Roles, Host
  <2> QED BY <2>1, <2>4, SentRoles
<1>3. CASE GaveUp(t, h, c, tries, isr)
  <2> HIDE DEF b
  <2>1. Owns(b, m) /\ Done(b) = {} /\ b.warned = {}
    BY <1>1 DEF Roles, Owns, Done
  <2>2. OneRole(FinishMrq(Fail(b, m, Part(c)), m), m)
    BY <1>1, <2>1, FailedRoles, CommandParts DEF ErrorFields
  <2> QED BY <1>3, <2>2 DEF GaveUp, b
<1>4. CASE Backoff(t, h, c, tries, isr)
  BY <1>1, <1>4 DEF Backoff
<1> QED BY <1>2, <1>3, <1>4 DEF Try

\* A sleeper that is through with its command.
LEMMA OnceContinue ==
  ASSUME IInv, Once, NEW t \in Sleepers, NEW isr \in BOOLEAN,
         Continue(t, isr), sem_ack = 0, sem_ack' = 0,
         Current # None, t = "irq_thread" => pc["caller"] = "wait",
         t = "caller" => host.deferred_cmd = None,
         OneRole(host', Current)
  PROVE  Once'
<1>1. /\ t \in Threads /\ "caller" \in Threads /\ "irq_thread" \in Threads
      /\ t \in {"caller", "irq_thread"} /\ Executors \subseteq Threads
      /\ "caller" \notin Executors
  BY DEF Sleepers, Threads, Executors
<1>2. /\ loc'[t].cmd = None /\ loc'[t].mrq = loc[t].mrq
      /\ \A u \in Threads \ {t} : loc'[u] = loc[u]
  BY <1>1 DEF Continue, Keep, IInv, TypeOK, Locals
<1>3. /\ pc'[t] = IF t = "caller" THEN "wait" ELSE IF isr THEN "event" ELSE "idle"
      /\ \A u \in Threads \ {t} : pc'[u] = pc[u]
  BY <1>1 DEF Continue, Goto, IInv, TypeOK
<1>4. Current' = Current
  BY <1>1, <1>2 DEF Current
<1>5. pc'["caller"] = "wait" /\ pc'["irq_thread"] \notin Asleep
  BY <1>1, <1>3, Awake DEF Asleep
<1>6. loc'["caller"].cmd = None /\ loc'["irq_thread"].cmd = None
  <2>1. CASE t = "caller"
    BY <1>1, <1>2, <2>1, Awake
  <2>2. CASE t = "irq_thread"
    BY <1>1, <1>2, <2>2 DEF Once, InHand, Asleep
  <2> QED BY <1>1, <2>1, <2>2
<1>7. InHand'
  BY <1>5, <1>6 DEF InHand, Asleep
<1> QED BY <1>4, <1>5, <1>7 DEF Once

\* A sleeper that goes to sleep with its command.
LEMMA OnceSleep ==
  ASSUME IInv, Once, NEW t \in Sleepers, NEW c, NEW tries, NEW isr,
         c = IF t = "caller" THEN FirstCmd(Current) ELSE host.deferred_cmd,
         c # None, sem_ack' = sem_ack, Roles(host') = Roles(host),
         pc["caller"] \notin {"idle", "wait"} \/ t # "caller",
         Goto(t, "asleep"),
         Keep(t, [loc[t] EXCEPT !.cmd = c, !.tries = tries - 1,
                                !.there = FALSE, !.isr = isr])
  PROVE  Once'
<1>1. /\ t \in Threads /\ "caller" \in Threads /\ "irq_thread" \in Threads
      /\ t \in {"caller", "irq_thread"} /\ Executors \subseteq Threads
  BY DEF Sleepers, Threads, Executors
<1>2. /\ loc'[t].cmd = c /\ loc'[t].mrq = loc[t].mrq
      /\ \A u \in Threads \ {t} : loc'[u] = loc[u]
  BY <1>1 DEF Keep, IInv, TypeOK, Locals
<1>3. /\ pc'[t] = "asleep"
      /\ \A u \in Threads \ {t} : pc'[u] = pc[u]
  BY <1>1 DEF Goto, IInv, TypeOK
<1>4. Current' = Current
  BY <1>1, <1>2 DEF Current
<1>5. OneRole(host', Current)
  BY SameRoles DEF Once, Moves
<1>6. (Free(host) => Free(host)') /\ host'.deferred_cmd = host.deferred_cmd
  BY DEF Roles, Free, Parked, Done
<1>7. InHand'
  BY <1>1, <1>2, <1>3, <1>4, <1>6 DEF Once, InHand, Asleep
<1>8. pc'["caller"] # "idle" <=> pc["caller"] # "idle"
  BY <1>1, <1>3
<1>9. pc'["caller"] = "wait" <=> pc["caller"] = "wait"
  BY <1>1, <1>3
<1> QED BY <1>4, <1>5, <1>6, <1>7, <1>8, <1>9 DEF Once

\* The two together, for the caller, whose request the host does not know yet.
LEMMA TryCaller ==
  ASSUME IInv, Once, host' \in Host, pc["caller"] \in {"lock", "retry"},
         NEW tries, NEW isr \in BOOLEAN,
         Try("caller", host, FirstCmd(Current), tries, isr),
         sem_ack' = sem_ack
  PROVE  Once'
<1>1. Free(host) /\ sem_ack = 0 /\ Current # None /\ host \in Host
  BY DEF Once, IInv, TypeOK
<1>2. Current \in Reqs /\ "caller" \in Sleepers
  BY <1>1 DEF IInv, TypeOK, Current, Locals, Threads, MaybeReq, Sleepers
<1> DEFINE c == FirstCmd(Current)
<1>3. c \in Cmds /\ Mrq(c) = Current /\ c # None
  BY <1>2, RequestAssumption DEF FirstCmd, Cmds, Parts, Mrq
<1>4. /\ Parked(host) /\ Done(host) = {} /\ host.deferred_cmd = None
      /\ host.warned = {} /\ Owns(host, Current)
  BY <1>1 DEF Free, Once, OneRole
<1> HIDE DEF c
<1>5. \/ OneRole(host', Current) /\ Continue("caller", isr)
      \/ /\ Roles(host') = Roles(host)
         /\ Goto("caller", "asleep")
         /\ Keep("caller", [loc["caller"] EXCEPT !.cmd = c, !.tries = tries - 1,
                                               !.there = FALSE, !.isr = isr])
  BY <1>1, <1>2, <1>3, <1>4, TryRoles DEF c
<1>6. CASE OneRole(host', Current) /\ Continue("caller", isr)
  BY <1>1, <1>2, <1>4, <1>6, OnceContinue
<1>7. CASE /\ Roles(host') = Roles(host)
           /\ Goto("caller", "asleep")
           /\ Keep("caller", [loc["caller"] EXCEPT !.cmd = c, !.tries = tries - 1,
                                                 !.there = FALSE, !.isr = isr])
  BY <1>2, <1>3, <1>7, OnceSleep DEF c
<1> QED BY <1>5, <1>6, <1>7

\* And for the interrupt thread with the deferred command.
LEMMA TryDeferred ==
  ASSUME IInv, Once, host' \in Host, host.deferred_cmd # None,
         NEW h \in Host, Roles(h) = Roles(host),
         NEW tries, NEW isr \in BOOLEAN,
         Try("irq_thread", h, host.deferred_cmd, tries, isr),
         sem_ack' = sem_ack
  PROVE  Once'
<1> DEFINE c == host.deferred_cmd
<1>1. sem_ack = 0 /\ pc["caller"] = "wait" /\ Current \in Reqs
  BY Busily DEF Free
<1>2. c \in Cmds /\ Mrq(c) = Current
  <2>1. c \in MaybeCmd /\ Owner(c) \in {None, Current}
    BY DEF Once, OneRole, Owns, IInv, TypeOK, Host
  <2> QED BY <1>1, <2>1, OwnerType DEF MaybeReq
<1>3. Parked(host) /\ Done(host) = {} /\ host.warned = {} /\ Owns(host, Current)
  BY DEF Once, OneRole
<1>4. /\ Parked(h) /\ Done(h) = {} /\ h.warned = {} /\ Owns(h, Current)
      /\ h.deferred_cmd = c
  BY <1>3 DEF Roles, Parked, Done, Owns
<1>5. "irq_thread" \in Sleepers /\ Current # None
  BY <1>1, RequestAssumption DEF Sleepers
<1> HIDE DEF c
<1>6. \/ OneRole(host', Current) /\ Continue("irq_thread", isr)
      \/ /\ Roles(host') = Roles(h)
         /\ Goto("irq_thread", "asleep")
         /\ Keep("irq_thread",
                 [loc["irq_thread"] EXCEPT !.cmd = c, !.tries = tries - 1,
                                           !.there = FALSE, !.isr = isr])
  BY <1>1, <1>2, <1>4, TryRoles DEF c
<1>7. CASE OneRole(host', Current) /\ Continue("irq_thread", isr)
  BY <1>1, <1>5, <1>7, OnceContinue
<1>8. CASE /\ Roles(host') = Roles(h)
           /\ Goto("irq_thread", "asleep")
           /\ Keep("irq_thread",
                   [loc["irq_thread"] EXCEPT !.cmd = c, !.tries = tries - 1,
                                             !.there = FALSE, !.isr = isr])
  BY <1>5, <1>8, OnceSleep DEF c
<1> QED BY <1>6, <1>7, <1>8

LEMMA RetryOnce ==
  ASSUME IInv, Once, IInv', NEW t \in Sleepers, Retry(t)
  PROVE  Once'
<1> DEFINE c == loc[t].cmd
           isr == loc[t].isr
<1>1. pc[t] = "retry" /\ sem_ack' = sem_ack
  BY DEF Retry
<1>2. host \in Host /\ host' \in Host /\ isr \in BOOLEAN
  BY DEF IInv, TypeOK, Sleepers, Threads, Executors, Locals
<1>3. CASE t = "caller"
  <2>1. c = FirstCmd(Current) /\ Free(host) /\ sem_ack = 0 /\ Current # None
    BY <1>1, <1>3 DEF Once, InHand, Asleep
  <2>2. Current \in Reqs
    BY <2>1 DEF IInv, TypeOK, Current, Locals, Threads, MaybeReq
  <2>3. CASE Try(t, host, c, loc[t].tries, isr)
    BY <1>1, <1>2, <1>3, <2>1, <2>3, TryCaller
  <2>4. CASE /\ host' = IF Disappeared(t) THEN host
                         ELSE FinishMrq(Fail(host, Mrq(c), Part(c)), Mrq(c))
             /\ Continue(t, isr)
    <3>1. ~Disappeared(t)
      BY <1>3 DEF Disappeared
    <3>2. Mrq(c) = Current /\ Part(c) \in ErrorFields
      BY <2>1 DEF FirstCmd, Mrq, Part, ErrorFields, Parts
    <3>3. host.deferred_cmd = None
      BY <2>1 DEF Free
    <3>4. OneRole(host', Current)
      BY <1>2, <2>1, <2>2, <2>4, <3>1, <3>2, FailedRoles DEF Free, Once, OneRole
    <3> QED BY <1>1, <1>2, <1>3, <2>1, <2>4, <3>3, <3>4, OnceContinue
  <2> QED BY <2>3, <2>4 DEF Retry
<1>4. CASE t = "irq_thread"
  <2>1. c = host.deferred_cmd /\ c # None
    BY <1>1, <1>4 DEF Once, InHand, Asleep
  <2>2. sem_ack = 0 /\ pc["caller"] = "wait" /\ Current \in Reqs
    BY <2>1, Busily DEF Free
  <2>3. CASE Try(t, host, c, loc[t].tries, isr)
    BY <1>1, <1>2, <1>4, <2>1, <2>3, TryDeferred
  <2>4. CASE /\ host' = IF Disappeared(t) THEN host
                         ELSE FinishMrq(Fail(host, Mrq(c), Part(c)), Mrq(c))
             /\ Continue(t, isr)
    <3>1. ~Disappeared(t)
      BY <2>1 DEF Disappeared
    <3>2. c \in MaybeCmd /\ Owner(c) \in {None, Current}
      BY <1>2, <2>1 DEF Once, OneRole, Owns, Host
    <3>3. Mrq(c) = Current /\ Part(c) \in ErrorFields
      BY <2>1, <2>2, <3>2, OwnerType, CommandParts DEF MaybeReq, ErrorFields
    <3>4. /\ Done(host) = {} /\ host.warned = {} /\ Owns(host, Current)
      BY <2>1 DEF Once, OneRole
    <3>5. OneRole(host', Current)
      BY <1>2, <2>2, <2>4, <3>1, <3>3, <3>4, FailedRoles
    <3>6. Current # None
      BY <2>2, RequestAssumption
    <3> QED BY <1>1, <1>2, <1>4, <2>2, <2>4, <3>5, <3>6, OnceContinue
  <2> QED BY <2>3, <2>4 DEF Retry
<1> QED BY <1>3, <1>4 DEF Sleepers

LEMMA RetryPollOnce ==
  ASSUME IInv, Once, NEW t \in Sleepers, RetryPoll(t)
  PROVE  Once'
<1>1. t \in Threads /\ t # "worker"
  BY DEF Sleepers, Threads, Executors
<1>2. \A u \in Threads : loc'[u].cmd = loc[u].cmd /\ loc'[u].mrq = loc[u].mrq
  BY <1>1 DEF RetryPoll, Keep, IInv, TypeOK, Locals
<1>3. pc[t] = "asleep" /\ pc'[t] = "retry"
        /\ \A u \in Threads \ {t} : pc'[u] = pc[u]
  BY <1>1 DEF RetryPoll, Goto, IInv, TypeOK
<1>4. "caller" \in Threads
  BY DEF Threads
<1>5. Moves(host, host', Current) /\ sem_ack' = sem_ack
  BY DEF RetryPoll, Moves, Once
<1> QED BY <1>2, <1>3, <1>4, <1>5, OnceKeep DEF Asleep

-----------------------------------------------------------------------------
(* The other steps *)

LEMMA CallerOnce ==
  ASSUME IInv, Once, IInv', Caller
  PROVE  Once'
<1>0. /\ "caller" \in Threads /\ "irq_thread" \in Threads
      /\ Executors \subseteq Threads /\ "caller" \notin Executors
      /\ host \in Host /\ host' \in Host
  BY DEF IInv, TypeOK, Threads, Executors
<1>1. ASSUME NEW m \in Reqs, Submit(m)
      PROVE  Once'
  <2>1. Free(host) /\ sem_ack = 0 /\ host.warned = {}
    BY <1>1 DEF Submit, Once, OneRole
  <2>2. Roles(host') = Roles(host)
    BY <1>0, <1>1, FailRoles DEF Submit
  <2>3. Free(host') /\ host'.warned = {} /\ host'.deferred_cmd = None
    BY <2>1, <2>2 DEF Roles, Free, Parked, Done
  <2>4. OneRole(host', m)
    BY <1>0, <2>3, FreeRoles
  <2>5. /\ loc'["caller"].mrq = m /\ loc'["caller"].cmd = loc["caller"].cmd
        /\ \A t \in Threads \ {"caller"} : loc'[t] = loc[t]
    BY <1>0, <1>1 DEF Submit, Keep, IInv, TypeOK, Locals
  <2>6. /\ \/ pc'["caller"] = "enter" /\ sem_ack' = 0
           \/ pc'["caller"] = "wait" /\ sem_ack' = 1
        /\ \A t \in Threads \ {"caller"} : pc'[t] = pc[t]
    BY <1>0, <1>1, <2>1 DEF Submit, Goto, IInv, TypeOK
  <2>7. Current' = m /\ m # None
    BY <2>5, RequestAssumption DEF Current
  <2>8. pc["caller"] = "idle" /\ host.deferred_cmd = None
    BY <1>1, <2>1 DEF Submit, Free
  <2>9. InHand'
    BY <1>0, <2>5, <2>6, <2>8, Awake DEF Once, InHand, Asleep
  <2> QED BY <2>3, <2>4, <2>6, <2>7, <2>9 DEF Once
<1>2. CASE RequestPresent
  <2>1. \A t \in Threads : loc'[t].cmd = loc[t].cmd /\ loc'[t].mrq = loc[t].mrq
    BY <1>0, <1>2 DEF RequestPresent, Keep, IInv, TypeOK, Locals
  <2>2. /\ pc["caller"] = "enter" /\ pc'["caller"] = "lock"
        /\ \A t \in Threads \ {"caller"} : pc'[t] = pc[t]
    BY <1>0, <1>2 DEF RequestPresent, Goto, IInv, TypeOK
  <2>3. Moves(host, host', Current) /\ sem_ack' = sem_ack
    BY <1>2 DEF RequestPresent, Moves, Once
  <2> QED BY <1>0, <2>1, <2>2, <2>3, OnceKeep DEF Asleep
<1>3. CASE Request
  <2> DEFINE m == loc["caller"].mrq
  <2>1. /\ m = Current /\ sem_ack' = sem_ack /\ sem_ack = 0 /\ Free(host)
        /\ Current # None
    BY <1>3 DEF Request, Current, Once
  <2>2. CASE Try("caller", host, FirstCmd(m), MaxTries, FALSE)
    BY <1>0, <1>3, <2>1, <2>2, TryCaller DEF Request
  <2>3. CASE host' = FinishMrq(Fail(host, m, "cmd"), m) /\ Continue("caller", FALSE)
    <3>1. m \in Reqs
      BY <1>0, <2>1 DEF IInv, TypeOK, Current, Locals, MaybeReq
    <3>2. OneRole(host', Current)
      BY <1>0, <2>1, <2>3, <3>1, FailedRoles
         DEF Free, Once, OneRole, ErrorFields, Parts
    <3>3. "caller" \in Sleepers /\ host.deferred_cmd = None
      BY <2>1 DEF Sleepers, Free
    <3> QED BY <2>1, <2>3, <3>2, <3>3, OnceContinue
  <2> QED BY <1>3, <2>2, <2>3 DEF Request
<1>4. CASE Return
  <2> DEFINE m == loc["caller"].mrq
  <2>1. sem_ack = 1 /\ sem_ack' = 0 /\ Free(host) /\ host.warned = {}
    BY <1>4 DEF Return, Once, OneRole
  <2>2. Roles(host') = Roles(host)
    BY <1>0, <1>4 DEF Return, Roles, Host
  <2>3. Free(host') /\ host'.warned = {} /\ host'.deferred_cmd = None
    BY <2>1, <2>2 DEF Roles, Free, Parked, Done
  <2>4. OneRole(host', None)
    BY <1>0, <2>3, FreeRoles
  <2>5. /\ loc'["caller"].mrq = None /\ loc'["caller"].cmd = None
        /\ \A t \in Threads \ {"caller"} : loc'[t] = loc[t]
    BY <1>0, <1>4 DEF Return, Keep, NoLocals, IInv, TypeOK
  <2>6. /\ pc'["caller"] = "idle"
        /\ \A t \in Threads \ {"caller"} : pc'[t] = pc[t]
    BY <1>0, <1>4 DEF Return, Goto, IInv, TypeOK
  <2>7. Current' = None /\ host.deferred_cmd = None
    BY <2>1, <2>5 DEF Current, Free
  <2>8. InHand'
    BY <1>0, <2>5, <2>6, <2>7, Awake DEF InHand, Asleep
  <2> QED BY <2>1, <2>3, <2>4, <2>6, <2>7, <2>8 DEF Once
<1> QED BY <1>1, <1>2, <1>3, <1>4 DEF Caller

\* The end of the handler completes the request in the one slot, if it needs
\* no thread.
LEMMA IrqExitOnce ==
  ASSUME IInv, Once, IrqExit
  PROVE  Once'
<1> DEFINE now == {i \in Done(host) : ~DeferDone(host, host.mrqs_done[i])}
           slots == [i \in Slots |-> IF i \in now THEN None ELSE host.mrqs_done[i]]
<1>1. host \in Host
  BY DEF IInv, TypeOK
<1>2. /\ host' = [host EXCEPT !.mrqs_done = slots]
      /\ sem_ack' = sem_ack + Cardinality(now)
      /\ UNCHANGED <<pc, loc>>
  BY DEF IrqExit
<1>3. /\ host'.cmd = host.cmd /\ host'.data_cmd = host.data_cmd
      /\ host'.deferred_cmd = host.deferred_cmd /\ host'.data = host.data
      /\ host'.warned = host.warned /\ host'.mrqs_done = slots
  <2> HIDE DEF slots
  <2> QED BY <1>1, <1>2 DEF Host
<1>4. CASE now = {}
  <2>1. slots = host.mrqs_done
    BY <1>1, <1>4 DEF Host
  <2>2. Roles(host') = Roles(host)
    <3> HIDE DEF slots
    <3> QED BY <1>3, <2>1 DEF Roles
  <2>3. Cardinality({}) = 0
    BY FS_EmptySet
  <2>4. sem_ack' = sem_ack
    <3>1. Cardinality(now) = 0
      BY <1>4, <2>3
    <3>2. sem_ack \in Nat
      BY DEF IInv, TypeOK
    <3> HIDE DEF now, slots
    <3> QED BY <1>2, <3>1, <3>2
  <2>5. Moves(host, host', Current)
    BY <2>2, SameRoles DEF Once
  <2> QED BY <1>2, <2>4, <2>5, OnceStay
<1>5. CASE now # {}
  <2>1. PICK i \in now : TRUE
    BY <1>5
  <2>2. i \in Done(host) /\ Done(host) = {i} /\ now = {i}
    BY <2>1 DEF Once, OneRole
  <2>3. sem_ack = 0 /\ pc["caller"] = "wait"
    BY <2>2, Busily DEF Free
  <2>4. sem_ack' = 1
    BY <1>2, <2>2, <2>3, FS_Singleton
  <2>5. /\ \A j \in Slots : host'.mrqs_done[j] = None
    BY <1>3, <2>2 DEF Done
  <2>6. Done(host') = {}
    BY <2>5 DEF Done
  <2>7. Parked(host) /\ host.deferred_cmd = None /\ host.warned = {}
    BY <2>2 DEF Once, OneRole
  <2>8. Free(host') /\ host'.warned = {}
    BY <1>3, <2>6, <2>7 DEF Free, Parked
  <2>9. OneRole(host', Current)
    BY <1>3, <2>5, <2>6, <2>7 DEF OneRole, Owns, Owner, Parked
  <2>10. Current' = Current
    BY <1>2 DEF Current
  <2>11. InHand'
    BY <1>2, <1>3, <2>7, <2>10 DEF Once, InHand
  <2> QED BY <1>2, <2>3, <2>4, <2>8, <2>9, <2>10, <2>11 DEF Once
<1> QED BY <1>4, <1>5

LEMMA IrqOnce ==
  ASSUME IInv, Once, Irq
  PROVE  Once'
<1>0. host \in Host /\ irq \in IrqStates /\ Current \in MaybeReq
        /\ OneRole(host, Current)
  BY DEF IInv, TypeOK, IrqStates, Current, Locals, Threads, Once
<1>1. CASE IrqEnter \/ IrqAgain
  <2>1. Roles(host') = Roles(host)
    BY <1>0, <1>1 DEF IrqEnter, IrqAgain, TakeStatus, Roles, Host
  <2>2. Moves(host, host', Current)
    BY <1>0, <2>1, SameRoles
  <2> QED BY <1>1, <2>2, OnceStay DEF IrqEnter, IrqAgain
<1>2. CASE IrqCmd
  <2>1. irq.mask \cap CmdBits \in SUBSET IntBits
    BY DEF IntBits
  <2>2. Moves(host, host', Current)
    BY <1>0, <1>2, <2>1, CmdIrqMoves, SameRoles DEF IrqCmd
  <2> QED BY <1>2, <2>2, OnceStay DEF IrqCmd
<1>3. CASE IrqData
  <2>1. irq.mask \cap DataBits \in SUBSET IntBits
    BY DEF IntBits
  <2>2. Moves(host, host', Current)
    BY <1>0, <1>3, <2>1, DataIrqMoves, SameRoles DEF IrqData
  <2> QED BY <1>3, <2>2, OnceStay DEF IrqData
<1> QED BY <1>1, <1>2, <1>3, IrqExitOnce DEF Irq

\* What sdhci_request_done does from the slot of the request on.
LEMMA FinishOnce ==
  ASSUME IInv, Once, NEW t \in Executors, pc[t] \in {"done", "relock"},
         NEW i \in Done(host),
         Finish(t, [host EXCEPT !.mapped = @ \ {Current}], i, Current),
         loc'["caller"].mrq = loc["caller"].mrq,
         \A u \in Threads : loc'[u].cmd = loc[u].cmd
  PROVE  Once' /\ Free(host') /\ sem_ack' = 1
<1> DEFINE h == [host EXCEPT !.mapped = @ \ {Current}]
<1>0. /\ host \in Host /\ Current \in MaybeReq /\ OneRole(host, Current)
      /\ t \in Threads /\ t # "caller" /\ "caller" \in Threads
      /\ Executors \subseteq Threads
  BY DEF IInv, TypeOK, Current, Locals, Threads, Executors, Once
<1>1. h \in Host /\ Roles(h) = Roles(host)
  BY <1>0 DEF Roles, Host
<1>2. Finish(t, h, i, Current)
  OBVIOUS
<1> HIDE DEF h
<1>3. OneRole(h, Current) /\ i \in Done(h) /\ Parked(h)
  <2>1. OneRole(h, Current) /\ i \in Done(h)
    BY <1>0, <1>1, SameRoles DEF Moves, Roles, Done
  <2> QED BY <2>1 DEF OneRole
<1>4. ~Blocked(h, Current)
  BY <1>3 DEF Blocked, HasRequests, Parked
<1>5. host' = Complete(h, i, Current) /\ sem_ack' = sem_ack + 1 /\ Goto(t, "done")
  BY <1>2, <1>4 DEF Finish
<1>6. sem_ack = 0 /\ pc["caller"] = "wait" /\ Current # None /\ Current \in Reqs
  <2>1. ~Free(host)
    BY DEF Free
  <2> QED BY <2>1, Busily, RequestAssumption
<1>7. OneRole(host', Current) /\ Free(host')
  BY <1>0, <1>1, <1>3, <1>5, <1>6, CompleteRoles
<1>8. pc'[t] = "done" /\ \A u \in Threads \ {t} : pc'[u] = pc[u]
  BY <1>0, <1>5 DEF Goto, IInv, TypeOK
<1>9. pc'["caller"] = "wait" /\ sem_ack' = 1 /\ Current' = Current
  BY <1>0, <1>5, <1>6, <1>8 DEF Current
<1>10. host.deferred_cmd = None
  BY <1>0 DEF OneRole
<1>11. pc["irq_thread"] \notin Asleep /\ pc'["irq_thread"] \notin Asleep
  <2>1. "irq_thread" \in Threads
    BY DEF Threads, Executors
  <2> QED BY <1>8, <1>10, <2>1, Awake DEF Asleep
<1>12. InHand'
  BY <1>6, <1>9, <1>10, <1>11, Awake DEF Once, InHand, Asleep, Threads, Executors
<1> QED BY <1>6, <1>7, <1>9, <1>12 DEF Once

LEMMA ExecutorOnce ==
  ASSUME IInv, Once, Unmapping, NEW t \in Executors, Executor(t)
  PROVE  Once'
<1>0. /\ host \in Host /\ Current \in MaybeReq /\ OneRole(host, Current)
      /\ t \in Threads /\ t # "caller" /\ "caller" \in Threads
  BY DEF IInv, TypeOK, Current, Locals, Threads, Executors, Once
<1>1. CASE RequestDone(t) /\ Done(host) = {}
  <2>1. \E label \in {"idle", "deferred"} : Goto(t, label)
    BY <1>1 DEF RequestDone, LeaveLoop
  <2>2. Moves(host, host', Current) /\ UNCHANGED <<loc, sem_ack>>
    BY <1>0, <1>1 DEF RequestDone, Moves
  <2> QED BY <1>1, <2>1, <2>2, OnceGoto DEF RequestDone, Asleep
<1>2. CASE RequestDone(t) /\ Done(host) # {}
  <2> DEFINE i == FirstSlot(Done(host))
             m == host.mrqs_done[i]
  <2>1. i \in Done(host)
    BY <1>2, FirstSlotType DEF Done
  <2>2. m = Current
    BY <1>0, <2>1 DEF OneRole, Owns, Done
  <2>3. CASE /\ Keep(t, [loc[t] EXCEPT !.mrq = m, !.slot = i])
             /\ Goto(t, "unmap") /\ UNCHANGED <<host, sem_ack>>
    <3>1. /\ \A u \in Threads : loc'[u].cmd = loc[u].cmd
          /\ loc'["caller"].mrq = loc["caller"].mrq
      BY <1>0, <2>3 DEF Keep, IInv, TypeOK, Locals
    <3>2. /\ pc[t] = "done" /\ pc'[t] = "unmap"
          /\ \A u \in Threads \ {t} : pc'[u] = pc[u]
      BY <1>0, <1>2, <2>3 DEF RequestDone, Goto, IInv, TypeOK
    <3>3. Moves(host, host', Current)
      BY <1>0, <2>3 DEF Moves
    <3> QED BY <1>0, <2>3, <3>1, <3>2, <3>3, OnceKeep DEF Asleep
  <2>4. CASE Finish(t, [host EXCEPT !.mapped = @ \ {m}], i, m) /\ UNCHANGED loc
    <3> HIDE DEF i
    <3> QED BY <1>2, <2>1, <2>2, <2>4, FinishOnce DEF RequestDone
  <2> QED BY <1>2, <2>3, <2>4 DEF RequestDone
<1>3. CASE Unmap(t)
  <2>1. Moves(host, host', Current) /\ pc[t] = "unmap"
    BY <1>0, <1>3 DEF Unmap, Moves
  <2> QED BY <1>3, <2>1, OnceGoto DEF Unmap, Asleep
<1>4. CASE Relock(t)
  <2>1. pc[t] = "relock" /\ loc[t].mrq = Current /\ loc[t].slot \in Done(host)
    BY <1>4 DEF Relock, Unmapping
  <2>2. /\ \A u \in Threads : loc'[u].cmd = loc[u].cmd
        /\ loc'["caller"].mrq = loc["caller"].mrq
    BY <1>0, <1>4 DEF Relock, Keep, IInv, TypeOK, Locals
  <2> QED BY <1>4, <2>1, <2>2, FinishOnce DEF Relock
<1> QED BY <1>1, <1>2, <1>3, <1>4 DEF Executor

LEMMA IrqThreadOnce ==
  ASSUME IInv, Once, IInv', IrqThread
  PROVE  Once'
<1> DEFINE t == "irq_thread"
<1>0. /\ t \in Executors /\ t \in Threads /\ t \in Sleepers
      /\ "caller" \in Threads /\ Executors \subseteq Threads
      /\ host \in Host /\ host' \in Host /\ Current \in MaybeReq
      /\ OneRole(host, Current)
  BY DEF Sleepers, IInv, TypeOK, Current, Locals, Threads, Executors, Once
<1>1. CASE IrqThreadStart
  <2>1. Moves(host, host', Current)
    BY <1>0, <1>1, SameRoles DEF IrqThreadStart
  <2> QED BY <1>0, <1>1, <2>1, OnceGoto DEF IrqThreadStart, Asleep
<1>2. CASE Deferred
  <2> DEFINE isr == host.thread_isr
             h == [host EXCEPT !.thread_isr = FALSE]
  <2>1. isr \in BOOLEAN /\ h \in Host /\ Roles(h) = Roles(host)
    BY <1>0 DEF Host, Roles
  <2>2. sem_ack' = sem_ack
    BY <1>2 DEF Deferred
  <2>3. CASE host' = h /\ Continue(t, isr)
    <3>1. /\ loc'[t].cmd = None /\ loc'[t].mrq = loc[t].mrq
          /\ \A u \in Threads \ {t} : loc'[u] = loc[u]
      BY <1>0, <2>3 DEF Continue, Keep, IInv, TypeOK, Locals
    <3>2. /\ pc'[t] \in {"event", "idle"} /\ pc[t] = "deferred"
          /\ \A u \in Threads \ {t} : pc'[u] = pc[u]
      BY <1>0, <1>2, <2>3 DEF Deferred, Continue, Goto, IInv, TypeOK
    <3>3. loc[t].cmd = None
      BY <3>2 DEF Once, InHand, Asleep
    <3>4. Moves(host, host', Current)
      BY <1>0, <2>1, <2>3, SameRoles
    <3> QED BY <1>0, <2>2, <3>1, <3>2, <3>3, <3>4, OnceKeep DEF Asleep
  <2>4. CASE /\ host.deferred_cmd # None
             /\ Try(t, h, host.deferred_cmd, MaxTries, isr)
    <3> HIDE DEF h, isr
    <3> QED BY <1>0, <2>1, <2>2, <2>4, TryDeferred
  <2> QED BY <1>2, <2>3, <2>4 DEF Deferred
<1>3. CASE CardEventPresent
  <2>1. \A u \in Threads : loc'[u].cmd = loc[u].cmd /\ loc'[u].mrq = loc[u].mrq
    BY <1>0, <1>3 DEF CardEventPresent, Keep, IInv, TypeOK, Locals
  <2>2. /\ pc[t] = "event" /\ pc'[t] = "removed"
        /\ \A u \in Threads \ {t} : pc'[u] = pc[u]
    BY <1>0, <1>3 DEF CardEventPresent, Goto, IInv, TypeOK
  <2>3. Moves(host, host', Current) /\ sem_ack' = sem_ack
    BY <1>0, <1>3 DEF CardEventPresent, Moves
  <2> QED BY <1>0, <2>1, <2>2, <2>3, OnceKeep DEF Asleep
<1>4. CASE CardEventLocked
  <2>1. /\ pc[t] = "removed" /\ pc'[t] = "idle"
        /\ \A u \in Threads \ {t} : pc'[u] = pc[u]
    BY <1>0, <1>4 DEF CardEventLocked, Goto, IInv, TypeOK
  <2>2. loc[t].cmd = None
    BY <1>0, <2>1 DEF Once, InHand, Asleep
  <2>3. /\ \A u \in Threads : loc'[u].cmd = loc[u].cmd
        /\ loc'["caller"].mrq = loc["caller"].mrq
    BY <1>0, <1>4, <2>2 DEF CardEventLocked, Keep, NoLocals, IInv, TypeOK
  <2>4. loc[t].there \in BOOLEAN
    BY <1>0 DEF IInv, TypeOK, Locals
  <2>5. Moves(host, host', Current) /\ sem_ack' = sem_ack
    BY <1>0, <1>4, <2>4, CardEventMoves DEF CardEventLocked
  <2> QED BY <1>0, <2>1, <2>3, <2>5, OnceKeep DEF Asleep
<1> QED BY <1>1, <1>2, <1>3, <1>4 DEF IrqThread

\* Steps of the worker, the timers and the controller that leave the threads
\* alone.
LEMMA OtherOnce ==
  ASSUME IInv, Once,
         \/ WorkerStart
         \/ \E x \in Timers : TimerExpire(x) \/ TimerRun(x)
         \/ Hardware
         \/ HwCard
  PROVE  Once'
<1>0. host \in Host /\ Current \in MaybeReq /\ OneRole(host, Current)
  BY DEF IInv, TypeOK, Current, Locals, Threads, Once
<1>1. CASE WorkerStart
  <2>1. Roles(host') = Roles(host)
    BY <1>0, <1>1 DEF WorkerStart, Roles, Host
  <2>2. Moves(host, host', Current) /\ "worker" \in Executors
    BY <1>0, <2>1, SameRoles DEF Executors
  <2> QED BY <1>1, <2>2, OnceGoto DEF WorkerStart, Asleep
<1>2. ASSUME NEW x \in Timers, TimerExpire(x)
      PROVE  Once'
  <2>1. Roles(host') = Roles(host)
    BY <1>0, <1>2 DEF TimerExpire, Roles, Host
  <2> QED BY <1>0, <1>2, <2>1, SameRoles, OnceStay DEF TimerExpire
<1>3. ASSUME NEW x \in Timers, TimerRun(x)
      PROVE  Once'
  BY <1>0, <1>3, TimeoutTimerMoves, TimeoutDataTimerMoves, OnceStay DEF TimerRun
<1>4. CASE Hardware \/ HwCard
  <2>1. Roles(host') = Roles(host)
    <3>1. CASE HwResponse
      BY <1>0, <3>1 DEF HwResponse, Roles, Host
    <3>2. CASE HwCmdError
      BY <1>0, <3>2 DEF HwCmdError, Roles, Host
    <3>3. CASE HwDataEnd
      BY <1>0, <3>3 DEF HwDataEnd, Roles, Host
    <3>4. CASE HwDataError
      BY <1>0, <3>4 DEF HwDataError, Roles, Host
    <3>5. CASE \E l \in Lines : HwRelease(l)
      BY <1>0, <3>5 DEF HwRelease, Roles, Host
    <3>6. CASE HwCard
      BY <1>0, <3>6 DEF HwCard, Roles, Host
    <3> QED BY <1>4, <3>1, <3>2, <3>3, <3>4, <3>5, <3>6 DEF Hardware
  <2>2. UNCHANGED <<pc, loc, sem_ack>>
    BY <1>4 DEF Hardware, HwResponse, HwCmdError, HwDataEnd, HwDataError,
                HwRelease, HwCard, HwUnchanged
  <2> QED BY <1>0, <2>1, <2>2, SameRoles, OnceStay
<1> QED BY <1>1, <1>2, <1>3, <1>4

LEMMA NextOnce == IInv /\ Once /\ Unmapping /\ IInv' /\ [Next]_vars => Once'
<1> SUFFICES ASSUME IInv, Once, Unmapping, IInv', [Next]_vars PROVE Once'
  OBVIOUS
<1>1. CASE UNCHANGED vars
  <2>1. Moves(host, host', Current)
    BY <1>1 DEF vars, Moves, Once
  <2> QED BY <1>1, <2>1, OnceStay DEF vars
<1>2. CASE Next
  BY <1>2, CallerOnce, RetryPollOnce, RetryOnce, IrqOnce, IrqThreadOnce,
     ExecutorOnce, OtherOnce DEF Next
<1> QED BY <1>1, <1>2

-----------------------------------------------------------------------------

LEMMA OnceCompletes == IInv /\ Once /\ Unmapping => NoWarning /\ CompletedOnce
<1> SUFFICES ASSUME IInv, Once, Unmapping PROVE NoWarning /\ CompletedOnce
  OBVIOUS
<1>1. NoWarning
  BY DEF Once, OneRole, NoWarning
<1>2. sem_ack <= 1 /\ (Completed => sem_ack = 1)
  BY DEF Once, Completed
<1>3. \A c \in {loc[t].cmd : t \in Sleepers} : Owner(c) \in {None, Current}
  <2>1. Owner(loc["caller"].cmd) \in {None, Current}
    BY DEF Once, InHand, FirstCmd, Owner, Mrq
  <2>2. Owner(loc["irq_thread"].cmd) \in {None, Current}
    BY DEF Once, InHand, OneRole, Owns, Owner
  <2> QED BY <2>1, <2>2 DEF Sleepers
<1>4. Referenced \subseteq {Current}
  BY <1>3 DEF Referenced, Once, OneRole, Owns, Unmapping
<1>5. Completed => Referenced = {}
  <2> SUFFICES ASSUME Completed PROVE Referenced = {}
    OBVIOUS
  <2>1. Free(host) /\ pc["caller"] = "wait"
    BY <1>2 DEF Once
  <2>2. loc["caller"].cmd = None /\ loc["irq_thread"].cmd = None
    BY <2>1, Awake DEF Once, InHand, Asleep, Free
  <2>3. \A i \in Slots : host.mrqs_done[i] = None
    BY <2>1 DEF Free, Done
  <2>4. \A t \in Sleepers : Owner(loc[t].cmd) = None
    BY <2>2 DEF Sleepers, Owner
  <2>5. \A t \in Executors : loc[t].mrq = None
    BY <2>1 DEF Unmapping, Free
  <2> QED BY <2>1, <2>3, <2>4, <2>5 DEF Referenced, Free, Parked, Owner
<1> QED BY <1>1, <1>2, <1>4, <1>5 DEF CompletedOnce

=============================================================================
