--------------------------- MODULE SdhciPort_proofs ---------------------------
(***************************************************************************)
(* The promise of RequestPort, kept by SdhciRequest: with the bounce       *)
(* buffer or by PIO whatever happens, with scatter-gather DMA when answers *)
(* come in time (InTime).  The inductive invariant Core carries the roles  *)
(* of SdhciOnce_proofs and the states of SdhciServed_proofs along every    *)
(* step, and every step of the threads, the interrupt handler, the timers  *)
(* and the controller is a step of RequestPort or leaves what it talks     *)
(* about alone.                                                            *)
(*                                                                         *)
(* With scatter-gather DMA a thread unmaps without the lock.  In time,     *)
(* there is no timer, no card removal and no stuck inhibit bit to queue    *)
(* the worker or to make a thread sleep meanwhile (Quiet), so that the     *)
(* thread that unmaps is the only one that finishes requests (Unmapping).  *)
(* The last section has the aligned buffers of reads on top of that        *)
(* (Buffers).                                                              *)
(***************************************************************************)
EXTENDS SdhciServed_proofs

-----------------------------------------------------------------------------
(* The inductive invariant *)

\* Between two requests, and between a completion and the return of the
\* caller, the controller is at rest; otherwise the request is in one of its
\* three states.
Account ==
  /\ \A n \in Reqs \ {Current} : host.error[n] = {}
  /\ Free(host) =>
       /\ AtRest(host)
       /\ sem_ack = 0 => \A n \in Reqs : host.error[n] = {}
       /\ sem_ack = 1 => Honest(host, Current, {})
  /\ ~Free(host) => Books(host, Current)

\* The bits the handler has taken from the status register, before each of the
\* two calls that use them.
InCmd ==
  irq.pc = "cmd" /\ ~host.pending_reset => CmdInHand(host, Current, irq.mask)
InData == irq.pc = "data" => DataInHand(host, Current, irq.mask)

Ledger == Account /\ InCmd /\ InData

LEMMA InitLedger == Init => Ledger
<1> SUFFICES ASSUME Init PROVE Ledger
  OBVIOUS
<1>1. host = InitHost /\ irq.pc = "off" /\ sem_ack = 0
  BY DEF Init, IrqOff
<1>2. Free(host) /\ \A n \in Reqs : host.error[n] = {}
  BY <1>1 DEF InitHost, Free, Parked, Done
<1>3. AtRest(host)
  BY <1>1 DEF InitHost, AtRest, Silent, Bits
<1> QED BY <1>1, <1>2, <1>3 DEF Ledger, Account, InCmd, InData

-----------------------------------------------------------------------------
(* Steps that leave alone what the invariant is about *)

\* From h to g at most a timer leaves the list.
Same(h, g) ==
  /\ Roles(g) = Roles(h) /\ Ends(g) = Ends(h) /\ g.error = h.error
  /\ g.timers \subseteq h.timers /\ g.pending_reset = h.pending_reset
  /\ g.data_early = h.data_early

LEMMA SameFields ==
  ASSUME NEW h, NEW g, Same(h, g)
  PROVE  /\ g.cmd = h.cmd /\ g.data_cmd = h.data_cmd
         /\ g.deferred_cmd = h.deferred_cmd /\ g.data = h.data
         /\ g.mrqs_done = h.mrqs_done /\ g.cmdLine = h.cmdLine
         /\ g.datLine = h.datLine /\ g.status = h.status /\ g.served = h.served
         /\ Done(g) = Done(h) /\ Parked(g) = Parked(h) /\ Free(g) = Free(h)
         /\ Silent(g) = Silent(h) /\ Owed(g) = Owed(h)
<1>1. /\ g.cmd = h.cmd /\ g.data_cmd = h.data_cmd
      /\ g.deferred_cmd = h.deferred_cmd /\ g.data = h.data
      /\ g.mrqs_done = h.mrqs_done /\ g.cmdLine = h.cmdLine
      /\ g.datLine = h.datLine /\ g.status = h.status /\ g.served = h.served
      /\ g.data_early = h.data_early
  BY DEF Same, Roles, Ends
<1>2. Done(g) = Done(h) /\ Parked(g) = Parked(h)
  BY <1>1 DEF Done, Parked
<1> QED BY <1>1, <1>2 DEF Free, Silent, Owed, Early

LEMMA SameBooks ==
  ASSUME NEW h, NEW g, NEW m, Same(h, g)
  PROVE  /\ \A c : Ready(h, m, c) => Ready(g, m, c)
         /\ Runs(h, m) => Runs(g, m)
         /\ Finished(h, m) => Finished(g, m)
         /\ Books(h, m) => Books(g, m)
         /\ AtRest(h) => AtRest(g)
         /\ \A rest : Honest(g, m, rest) = Honest(h, m, rest)
         /\ \A M : CmdInHand(g, m, M) = CmdInHand(h, m, M)
         /\ \A M : DataInHand(g, m, M) = DataInHand(h, m, M)
         /\ Frame(h, g, m)
<1>0. g.error = h.error /\ g.timers \subseteq h.timers
        /\ g.pending_reset = h.pending_reset /\ g.data_early = h.data_early
  BY DEF Same
<1>1. \A rest : Honest(g, m, rest) = Honest(h, m, rest)
  BY <1>0, SameFields DEF Honest
<1>2. ASSUME NEW c, Ready(h, m, c) PROVE Ready(g, m, c)
  BY <1>0, <1>1, <1>2, SameFields DEF Ready
<1>3. ASSUME Runs(h, m) PROVE Runs(g, m)
  <2>1. Wired(g, m)
    BY <1>3, SameWires DEF Same, Runs
  <2> QED BY <1>0, <1>1, <1>3, <2>1, SameFields DEF Runs
<1>4. ASSUME Finished(h, m) PROVE Finished(g, m)
  BY <1>0, <1>1, <1>4, SameFields DEF Finished, NeedsReset
<1>5. Books(h, m) => Books(g, m)
  BY <1>2, <1>3, <1>4, SameFields DEF Books
<1>6. AtRest(h) => AtRest(g)
  BY <1>0, SameFields DEF AtRest
<1>7. CmdOver(g, m) = CmdOver(h, m) /\ DataOver(g, m) = DataOver(h, m)
  BY <1>0, SameFields DEF CmdOver, DataOver, Early
<1>8. \A M : Genuine(g, m, M) = Genuine(h, m, M)
  BY SameFields DEF Genuine
<1>9. \A M : CmdInHand(g, m, M) = CmdInHand(h, m, M)
  BY <1>7, <1>8, SameFields DEF CmdInHand
<1>10. \A M : DataInHand(g, m, M) = DataInHand(h, m, M)
  BY <1>7, SameFields DEF DataInHand
<1>11. Frame(h, g, m)
  BY <1>0, SameFields DEF Frame
<1> QED BY <1>1, <1>2, <1>3, <1>4, <1>5, <1>6, <1>9, <1>10, <1>11

\* A host that has the request is not free.
LEMMA BooksBusy ==
  ASSUME NEW h, NEW m, Books(h, m)
  PROVE  ~Free(h)
<1>1. None \notin Cmds
  BY RequestAssumption DEF Cmds, Parts
<1> QED BY <1>1 DEF Books, Ready, Runs, Finished, Free

-----------------------------------------------------------------------------
(* The invariant and the promise, from what a step does to the host *)

\* A step of the driver that RequestPort does not see.
Hidden ==
  /\ Current' = Current /\ sem_ack' = sem_ack
  /\ host'.served = host.served
  /\ sem_ack = 1 => host'.error = host.error

\* A step seen from the upper layer.
Promise == [Port!Next]_(Port!vars)

LEMMA HiddenPromise ==
  ASSUME Hidden, sem_ack \in {0, 1}
  PROVE  Promise
BY DEF Hidden, Promise, Completed, Port!vars

\* Nothing that matters happened.
LEMMA AccountStay ==
  ASSUME Account, sem_ack \in {0, 1}, Same(host, host'), Current' = Current,
         sem_ack' = sem_ack
  PROVE  Account' /\ Promise
<1>1. /\ host'.error = host.error /\ host'.served = host.served
      /\ (Free(host') <=> Free(host))
  BY SameFields DEF Same
<1>2. ASSUME NEW m
      PROVE  /\ Books(host, m) => Books(host', m)
             /\ AtRest(host) => AtRest(host')
             /\ Honest(host, m, {}) => Honest(host', m, {})
  <2>1. Books(host, m) => Books(host', m)
    BY SameBooks
  <2>2. AtRest(host) => AtRest(host')
    BY SameBooks
  <2>3. \A rest : Honest(host', m, rest) = Honest(host, m, rest)
    BY SameBooks
  <2> QED BY <2>1, <2>2, <2>3
<1>3. Account'
  <2>1. \A n \in Reqs \ {Current} : host'.error[n] = {}
    BY <1>1 DEF Account
  <2>2. ASSUME Free(host')
        PROVE  /\ AtRest(host')
               /\ sem_ack' = 0 => \A n \in Reqs : host'.error[n] = {}
               /\ sem_ack' = 1 => Honest(host', Current, {})
    BY <1>1, <1>2, <2>2 DEF Account
  <2>3. ASSUME ~Free(host') PROVE Books(host', Current)
    BY <1>1, <1>2, <2>3 DEF Account
  <2> QED BY <2>1, <2>2, <2>3 DEF Account
<1> QED BY <1>1, <1>3, HiddenPromise DEF Hidden

\* The request of a host that is not free, or not completed, moved on.
LEMMA AccountBooks ==
  ASSUME Account, sem_ack = 0, Books(host', Current), Frame(host, host', Current),
         Current' = Current, sem_ack' = sem_ack
  PROVE  Account' /\ Promise
<1>1. ~Free(host')
  BY BooksBusy
<1>2. Account'
  BY <1>1 DEF Account, Frame
<1>3. Hidden
  BY DEF Hidden, Frame
<1> QED BY <1>2, <1>3, HiddenPromise

\* The request was completed.
LEMMA AccountCompleted ==
  ASSUME Account, sem_ack = 0, sem_ack' = 1, Current \in Reqs, Current' = Current,
         Free(host'), AtRest(host'), Honest(host', Current, {}),
         Frame(host, host', Current)
  PROVE  Account' /\ Promise
<1>1. Account'
  BY DEF Account, Frame
<1>2. host'.error[Current] = {} => Needs[Current] \subseteq host'.served
  BY DEF Honest
<1>3. Current # None
  BY RequestAssumption
<1>4. Port!Complete
  BY <1>2, <1>3 DEF Port!Complete, Completed, Frame
<1> QED BY <1>1, <1>4 DEF Promise, Port!Next

\* While the handler does not run it holds no bits.
LEMMA HandsEmpty ==
  ASSUME Account', Unlocked, irq' = irq
  PROVE  Ledger'
BY DEF Ledger, InCmd, InData, Unlocked

\* A step that leaves alone what matters leaves the handler its bits.
LEMMA LedgerStay ==
  ASSUME Ledger, sem_ack \in {0, 1}, Same(host, host'), Current' = Current,
         UNCHANGED <<irq, sem_ack>>
  PROVE  Ledger' /\ Promise
<1>1. Account' /\ Promise
  BY AccountStay DEF Ledger
<1>2. host'.pending_reset = host.pending_reset
  BY DEF Same
<1>3. InCmd' /\ InData'
  BY <1>2, SameBooks DEF Ledger, InCmd, InData
<1> QED BY <1>1, <1>3 DEF Ledger

-----------------------------------------------------------------------------
(* sdhci_send_command_retry *)

\* The thread keeps its request.
LEMMA KeepCurrent ==
  ASSUME IInv, NEW t \in Threads, NEW locals,
         locals.mrq = loc[t].mrq, Keep(t, locals)
  PROVE  Current' = Current
BY DEF IInv, TypeOK, Threads, Keep, Current

LEMMA TryBooks ==
  ASSUME IInv, NEW h \in Host, NEW m \in Reqs, NEW c, Ready(h, m, c), Owns(h, m),
         h.warned = {}, h.deferred_cmd \in {None, c}, NEW t \in Threads,
         NEW tries, NEW isr, Try(t, h, c, tries, isr), host' \in Host
  PROVE  /\ \/ Books(host', m) /\ Frame(h, host', m)
            \/ Same(h, host')
         /\ Current' = Current
<1> DEFINE b == Begin(h, c)
<1>0. c \in Cmds /\ Mrq(c) = m /\ Part(c) \in Parts /\ h.cmd = None
        /\ Done(h) = {} /\ h.timers \subseteq {TimerOf(m)}
  BY CommandParts DEF Ready, Parked
<1>1. /\ b \in Host /\ Roles(b) = Roles(h) /\ Ends(b) = Ends(h)
      /\ b.error[m] = h.error[m] \ {Part(c)}
      /\ \A n \in Reqs \ {m} : b.error[n] = h.error[n]
      /\ b.timers = h.timers /\ b.pending_reset = h.pending_reset
      /\ b.data_early = h.data_early
  BY <1>0, BeginFields
<1> HIDE DEF b
<1>2. Current' = Current
  <2> DEFINE gone == [loc[t] EXCEPT !.cmd = None, !.tries = 0,
                                    !.there = FALSE, !.isr = isr]
             slept == [loc[t] EXCEPT !.cmd = c, !.tries = tries - 1,
                                     !.there = FALSE, !.isr = isr]
  <2>1. gone.mrq = loc[t].mrq /\ slept.mrq = loc[t].mrq
    BY DEF IInv, TypeOK, Locals
  <2>2. Keep(t, gone) \/ Keep(t, slept)
    BY DEF Try, Sent, GaveUp, Backoff, Continue
  <2> HIDE DEF gone, slept
  <2> QED BY <2>1, <2>2, KeepCurrent
<1>3. CASE Sent(t, h, c, isr)
  <2> DEFINE s == SendCommand(h, c)
  <2>1. ~Inhibited(h, c) /\ host' = [s EXCEPT !.deferred_cmd = IF @ = c THEN None ELSE @]
    BY <1>3 DEF Sent
  <2>2. s \in Host
    BY <1>0, SendCommandType
  <2>3. host' = [s EXCEPT !.deferred_cmd = host'.deferred_cmd]
    <3> HIDE DEF s
    <3> QED BY <2>1, <2>2 DEF Host
  <2>4. Runs(host', m) /\ Frame(h, host', m)
    BY <2>1, <2>3, SendBooks
  <2> QED BY <1>2, <2>4 DEF Books
<1>4. CASE GaveUp(t, h, c, tries, isr)
  <2>1. Owns(b, m) /\ Done(b) = {} /\ b.warned = {}
    BY <1>0, <1>1 DEF Roles, Owns, Done
  <2>2. host' = FinishMrq(Fail(b, m, Part(c)), m)
    BY <1>0, <1>4 DEF GaveUp, b
  <2>3. Finished(host', m) /\ Frame(b, host', m)
    BY <1>0, <1>1, <2>1, <2>2, FailedBooks
  <2>4. Frame(h, host', m)
    BY <1>1, <2>3 DEF Frame, Ends
  <2> QED BY <1>2, <2>3, <2>4 DEF Books
<1>5. CASE Backoff(t, h, c, tries, isr)
  <2>1. host' = b
    BY <1>5 DEF Backoff, b
  <2>2. Part(c) \notin h.error[m]
    BY DEF Ready
  <2>3. \A n \in Reqs : b.error[n] = h.error[n]
    BY <1>1, <2>2
  <2>4. b.error = h.error
    BY <1>1, <2>3 DEF Host
  <2> QED BY <1>1, <1>2, <2>1, <2>4 DEF Same
<1> QED BY <1>3, <1>4, <1>5 DEF Try

\* The first command of a request may be sent over a free host.
LEMMA FirstReady ==
  ASSUME Ledger, Free(host), sem_ack = 0, NEW m \in Reqs
  PROVE  /\ Ready(host, m, FirstCmd(m))
         /\ Done(host) = {} /\ host.timers \subseteq {TimerOf(m)}
<1>1. AtRest(host) /\ host.error[m] = {}
  BY DEF Ledger, Account
<1>2. FirstCmd(m) \in Cmds /\ Mrq(FirstCmd(m)) = m
  BY DEF FirstCmd, Cmds, Parts, Mrq
<1>3. Part(FirstCmd(m)) = IF ManualCmd23(m) THEN "sbc" ELSE "cmd"
  BY DEF FirstCmd, Part
<1>4. Needs[m] \subseteq host.served \cup Ahead(FirstCmd(m))
  BY <1>3 DEF Needs, Ahead, ErrorFields, Parts
<1> QED BY <1>1, <1>2, <1>3, <1>4 DEF Ready, AtRest, Free, Honest

\* A deferred command may be sent.
LEMMA DeferredReady ==
  ASSUME IInv, Once, Ledger, host.deferred_cmd # None
  PROVE  /\ Ready(host, Current, host.deferred_cmd) /\ Parked(host)
         /\ Done(host) = {} /\ host.warned = {} /\ Owns(host, Current)
         /\ host.timers \subseteq {TimerOf(Current)}
         /\ Current \in Reqs /\ sem_ack = 0
<1>1. ~Free(host) /\ Current \in Reqs /\ sem_ack = 0
  BY Busily DEF Free
<1>2. Parked(host) /\ Done(host) = {} /\ host.warned = {} /\ Owns(host, Current)
  BY DEF Once, OneRole
<1>3. Books(host, Current)
  BY <1>1 DEF Ledger, Account
<1> QED BY <1>1, <1>2, <1>3 DEF Books, Runs, Finished, Ready

\* The two attempts to send: what they do to the invariant.
LEMMA TryLedger ==
  ASSUME IInv, Once, IInv', Ledger, Unlocked, sem_ack = 0, NEW m \in Reqs,
         m = Current, NEW h \in Host, Same(host, h), NEW c, Ready(host, m, c),
         h.warned = {}, Owns(host, m), host.deferred_cmd \in {None, c},
         NEW t \in Threads, NEW tries, NEW isr, Try(t, h, c, tries, isr),
         UNCHANGED <<irq, sem_ack>>
  PROVE  Ledger' /\ Promise
<1>1. Ready(h, m, c) /\ Owns(h, m) /\ h.deferred_cmd \in {None, c}
  <2>1. \A k : Ready(host, m, k) => Ready(h, m, k)
    BY SameBooks
  <2>2. h.cmd = host.cmd /\ h.data = host.data /\ h.deferred_cmd = host.deferred_cmd
    BY SameFields
  <2>3. Owns(h, m)
    BY SameFields DEF Owns
  <2> QED BY <2>1, <2>2, <2>3
<1>2. host' \in Host
  BY DEF IInv, TypeOK
<1>3. /\ \/ Books(host', m) /\ Frame(h, host', m)
         \/ Same(h, host')
      /\ Current' = Current
  BY <1>1, <1>2, TryBooks
<1>4. CASE Books(host', m) /\ Frame(h, host', m)
  <2>1. Frame(host, host', m)
    BY <1>4 DEF Frame, Same, Ends
  <2>2. Account' /\ Promise
    BY <1>3, <1>4, <2>1, AccountBooks DEF Ledger
  <2> QED BY <2>2, HandsEmpty
<1>5. CASE Same(h, host')
  <2>1. Same(host, host')
    BY <1>5 DEF Same
  <2> QED BY <1>3, <2>1, LedgerStay
<1> QED BY <1>3, <1>4, <1>5

\* Or the thread gives up and finishes the request.
LEMMA FailLedger ==
  ASSUME IInv, Once, IInv', Ledger, Unlocked, sem_ack = 0, NEW m \in Reqs,
         m = Current, Owns(host, m), Done(host) = {}, host.warned = {},
         host.timers \subseteq {TimerOf(m)}, NEW field \in Parts,
         host' = FinishMrq(Fail(host, m, field), m), NEW t \in Threads, NEW isr,
         Continue(t, isr), UNCHANGED <<irq, sem_ack>>
  PROVE  Ledger' /\ Promise
<1>1. Books(host', m) /\ Frame(host, host', m)
  BY FailedBooks DEF IInv, TypeOK, Books
<1> DEFINE gone == [loc[t] EXCEPT !.cmd = None, !.tries = 0,
                                  !.there = FALSE, !.isr = isr]
<1>2. Keep(t, gone) /\ gone.mrq = loc[t].mrq
  BY DEF Continue, IInv, TypeOK, Locals
<1>3. Current' = Current
  <2> HIDE DEF gone
  <2> QED BY <1>2, KeepCurrent
<1>4. Account' /\ Promise
  BY <1>1, <1>3, AccountBooks DEF Ledger
<1> QED BY <1>4, HandsEmpty

\* The command of a sleeper may still be sent when it wakes up.
LEMMA RetryReady ==
  ASSUME IInv, Once, Ledger, NEW t \in Sleepers, pc[t] = "retry",
         NEW c, c = loc[t].cmd
  PROVE  /\ sem_ack = 0 /\ Current \in Reqs /\ Ready(host, Current, c)
         /\ Owns(host, Current) /\ host.deferred_cmd \in {None, c}
         /\ host.warned = {} /\ Done(host) = {}
         /\ host.timers \subseteq {TimerOf(Current)}
         /\ ~Disappeared(t)
<1>1. CASE t = "caller"
  <2>1. c = FirstCmd(Current) /\ Free(host) /\ sem_ack = 0 /\ Current # None
    BY <1>1 DEF Once, InHand, Asleep
  <2>2. Current \in Reqs
    BY <2>1 DEF IInv, TypeOK, Current, Locals, Threads, MaybeReq
  <2> QED BY <1>1, <2>1, <2>2, FirstReady DEF Once, OneRole, Free, Disappeared
<1>2. CASE t = "irq_thread"
  <2>1. c = host.deferred_cmd /\ c # None
    BY <1>2 DEF Once, InHand, Asleep
  <2> QED BY <2>1, DeferredReady DEF Disappeared
<1> QED BY <1>1, <1>2 DEF Sleepers

LEMMA RetryLedger ==
  ASSUME IInv, Once, IInv', Ledger, NEW t \in Sleepers, Retry(t)
  PROVE  Ledger' /\ Promise
<1> DEFINE c == loc[t].cmd
           isr == loc[t].isr
<1>1. /\ pc[t] = "retry" /\ Unlocked /\ UNCHANGED <<irq, sem_ack>>
      /\ t \in Threads
  BY DEF Retry, Sleepers, Threads, Executors
<1>2. host \in Host /\ Same(host, host)
  BY DEF IInv, TypeOK, Same
<1>3. /\ sem_ack = 0 /\ Current \in Reqs /\ Ready(host, Current, c)
      /\ Owns(host, Current) /\ host.deferred_cmd \in {None, c}
      /\ host.warned = {} /\ Done(host) = {}
      /\ host.timers \subseteq {TimerOf(Current)}
      /\ ~Disappeared(t)
  BY <1>1, RetryReady
<1>4. CASE Try(t, host, c, loc[t].tries, isr)
  BY <1>1, <1>2, <1>3, <1>4, TryLedger
<1>5. CASE /\ host' = IF Disappeared(t) THEN host
                      ELSE FinishMrq(Fail(host, Mrq(c), Part(c)), Mrq(c))
           /\ Continue(t, isr)
  <2>1. Mrq(c) = Current /\ Part(c) \in Parts
    BY <1>3, CommandParts DEF Ready
  <2>2. host' = FinishMrq(Fail(host, Current, Part(c)), Current)
    BY <1>3, <1>5, <2>1
  <2> QED BY <1>1, <1>3, <1>5, <2>1, <2>2, FailLedger
<1> QED BY <1>4, <1>5 DEF Retry

-----------------------------------------------------------------------------
(* The other steps of the threads *)

\* A free host has none of the bits the handler holds: whoever the request is.
LEMMA FreeHands ==
  ASSUME NEW h, NEW g, NEW m, NEW n, NEW M, Free(g)
  PROVE  /\ Free(h) /\ CmdInHand(h, m, M) => CmdInHand(g, n, M)
         /\ DataInHand(g, n, M)
<1>1. g.data_cmd = None
  BY DEF Free, Parked
<1>2. ASSUME Free(h), CmdInHand(h, m, M) PROVE CmdInHand(g, n, M)
  <2>1. M \cap CmdAnswers(m) = {} /\ M \cap DataAnswers(m) = {}
    BY <1>2 DEF CmdInHand, Free, Parked
  <2>2. CmdAnswers(m) \cup DataAnswers(m) = CmdAnswers(n) \cup DataAnswers(n)
    BY DEF CmdAnswers, DataAnswers
  <2>3. M \cap CmdAnswers(n) = {} /\ M \cap DataAnswers(n) = {}
    BY <2>1, <2>2
  <2>4. "RESPONSE" \notin M /\ "DATA_END" \notin M /\ "AUTO_CMD_ERR" \notin M
    BY <2>3 DEF CmdAnswers, DataAnswers, DataBits
  <2> QED BY <2>3, <2>4 DEF CmdInHand, Genuine
<1> QED BY <1>1, <1>2 DEF DataInHand

LEMMA CallerLedger ==
  ASSUME IInv, Once, IInv', Once', Ledger, Caller
  PROVE  Ledger' /\ Promise
<1>0. "caller" \in Threads /\ host \in Host /\ sem_ack \in {0, 1}
  BY DEF IInv, TypeOK, Threads, Once
<1>1. ASSUME NEW m \in Reqs, Submit(m)
      PROVE  Ledger' /\ Promise
  <2>1. Free(host) /\ sem_ack = 0 /\ Current = None /\ irq' = irq
    BY <1>1 DEF Submit, Once
  <2>2. AtRest(host) /\ \A n \in Reqs : host.error[n] = {}
    BY <2>1 DEF Ledger, Account
  <2>3. Current' = m /\ m # None
    BY <1>0, <1>1, RequestAssumption DEF Submit, Keep, Current, IInv, TypeOK, Locals
  <2>4. CASE UNCHANGED <<host, sem_ack>>
    <3>1. Account'
      BY <2>1, <2>2, <2>3, <2>4 DEF Account
    <3>2. InCmd' /\ InData'
      BY <2>1, <2>4, FreeHands DEF Ledger, InCmd, InData
    <3>3. Port!Submit(m)
      BY <2>1, <2>3, <2>4 DEF Port!Submit, Completed
    <3> QED BY <3>1, <3>2, <3>3 DEF Ledger, Promise, Port!Next
  <2>5. CASE host' = Fail(host, m, "data") /\ sem_ack' = sem_ack + 1
    <3>1. /\ Roles(host') = Roles(host) /\ Ends(host') = Ends(host)
          /\ host'.error[m] = {"data"}
          /\ \A n \in Reqs \ {m} : host'.error[n] = {}
          /\ host'.timers = host.timers
          /\ host'.pending_reset = host.pending_reset
      BY <1>0, <2>2, <2>5, FailFields DEF ErrorFields
    <3>2. Free(host')
      BY <2>1, <3>1 DEF Roles, Free, Parked, Done
    <3>3. AtRest(host')
      BY <2>2, <3>1 DEF AtRest, Silent, Ends
    <3>4. sem_ack' = 1
      BY <2>1, <2>5
    <3>5. Account'
      BY <2>3, <3>1, <3>2, <3>3, <3>4 DEF Account, Honest
    <3>6. InCmd' /\ InData'
      BY <2>1, <3>1, <3>2, FreeHands DEF Ledger, InCmd, InData
    <3>7. Port!Refuse(m)
      BY <2>1, <2>3, <3>1, <3>4 DEF Port!Refuse, Completed, Ends
    <3> QED BY <1>1, <3>5, <3>6, <3>7 DEF Ledger, Promise, Port!Next
  <2> QED BY <1>1, <2>4, <2>5 DEF Submit
<1>2. CASE RequestPresent
  <2> DEFINE seen == [loc["caller"] EXCEPT !.there = present]
  <2>1. Keep("caller", seen) /\ seen.mrq = loc["caller"].mrq
    BY <1>0, <1>2 DEF RequestPresent, IInv, TypeOK, Locals
  <2>2. Current' = Current
    <3> HIDE DEF seen
    <3> QED BY <1>0, <2>1, KeepCurrent
  <2>3. Same(host, host')
    BY <1>2 DEF RequestPresent, Same
  <2> QED BY <1>0, <1>2, <2>2, <2>3, LedgerStay DEF RequestPresent
<1>3. CASE Request
  <2>1. /\ Free(host) /\ sem_ack = 0 /\ Current \in Reqs /\ Unlocked
        /\ UNCHANGED <<irq, sem_ack>> /\ Same(host, host)
        /\ host.warned = {} /\ Owns(host, Current) /\ host.deferred_cmd = None
    <3>1. Free(host) /\ sem_ack = 0 /\ Current # None /\ Current \in MaybeReq
      BY <1>0, <1>3 DEF Request, Once, IInv, TypeOK, Current, Locals
    <3> QED BY <1>3, <3>1 DEF Request, Once, OneRole, Free, Same, MaybeReq
  <2>2. /\ Ready(host, Current, FirstCmd(Current)) /\ Done(host) = {}
        /\ host.timers \subseteq {TimerOf(Current)}
    BY <2>1, FirstReady
  <2>3. CASE Try("caller", host, FirstCmd(Current), MaxTries, FALSE)
    BY <1>0, <2>1, <2>2, <2>3, TryLedger
  <2>4. CASE /\ host' = FinishMrq(Fail(host, Current, "cmd"), Current)
             /\ Continue("caller", FALSE)
    BY <1>0, <2>1, <2>2, <2>4, FailLedger DEF Parts
  <2> QED BY <1>3, <2>3, <2>4 DEF Request, Current
<1>4. CASE Return
  <2>1. sem_ack = 1 /\ sem_ack' = 0 /\ Free(host) /\ irq' = irq
    BY <1>4 DEF Return, Once
  <2>2. AtRest(host) /\ \A n \in Reqs \ {Current} : host.error[n] = {}
    BY <2>1 DEF Ledger, Account
  <2>3. Current \in Reqs
    BY <1>0, <1>4 DEF Return, Once, IInv, TypeOK, Current, Locals, MaybeReq
  <2>4. host' = [host EXCEPT !.error[Current] = {}, !.mapped = @ \ {Current},
                             !.served = {}]
    BY <1>4 DEF Return, Current
  <2>5. /\ Roles(host') = Roles(host) /\ host'.timers = host.timers
        /\ host'.pending_reset = host.pending_reset /\ host'.served = {}
        /\ host'.cmdLine = host.cmdLine /\ host'.datLine = host.datLine
        /\ host'.status = host.status
        /\ host'.error = [host.error EXCEPT ![Current] = {}]
    BY <1>0, <2>4 DEF Host, Roles
  <2>6. \A n \in Reqs : host'.error[n] = {}
    BY <1>0, <2>2, <2>5 DEF Host
  <2>7. Free(host') /\ AtRest(host')
    <3>1. Free(host')
      BY <2>1, <2>5 DEF Roles, Free, Parked, Done
    <3> QED BY <2>2, <2>5, <3>1 DEF AtRest, Silent
  <2>8. Current' = None
    BY <1>0, <1>4 DEF Return, Keep, NoLocals, IInv, TypeOK, Current
  <2>9. Account'
    BY <2>1, <2>6, <2>7 DEF Account
  <2>10. InCmd' /\ InData'
    BY <2>1, <2>5, <2>7, FreeHands DEF Ledger, InCmd, InData
  <2>11. Port!Take
    BY <2>1, <2>5, <2>8 DEF Port!Take, Completed
  <2> QED BY <2>9, <2>10, <2>11 DEF Ledger, Promise, Port!Next
<1> QED BY <1>1, <1>2, <1>3, <1>4 DEF Caller

LEMMA RetryPollLedger ==
  ASSUME IInv, Once, Ledger, NEW t \in Sleepers, RetryPoll(t)
  PROVE  Ledger' /\ Promise
<1> DEFINE seen == [loc[t] EXCEPT !.there = present]
<1>1. t \in Threads
  BY DEF Sleepers, Threads, Executors
<1>2. Keep(t, seen) /\ seen.mrq = loc[t].mrq
  BY <1>1 DEF RetryPoll, IInv, TypeOK, Locals
<1>3. Current' = Current
  <2> HIDE DEF seen
  <2> QED BY <1>1, <1>2, KeepCurrent
<1>4. Same(host, host') /\ sem_ack \in {0, 1}
  BY DEF RetryPoll, Same, Once
<1> QED BY <1>3, <1>4, LedgerStay DEF RetryPoll

\* sdhci_request_done completes a request that is finished.
LEMMA FinishLedger ==
  ASSUME IInv, Once, Ledger, NEW t \in Executors, NEW i \in Done(host),
         Finish(t, [host EXCEPT !.mapped = @ \ {Current}], i, Current),
         Unlocked, irq' = irq, Current' = Current
  PROVE  Ledger' /\ Promise
<1> DEFINE h == [host EXCEPT !.mapped = @ \ {Current}]
<1>0. /\ host \in Host /\ Current \in MaybeReq /\ OneRole(host, Current)
      /\ sem_ack \in {0, 1} /\ i \in Slots
  BY DEF IInv, TypeOK, Current, Locals, Threads, Once, Done
<1>1. Finish(t, h, i, Current)
  OBVIOUS
<1>2. h \in Host /\ Same(host, h)
  BY <1>0 DEF Roles, Ends, Same, Host
<1>3. ~Free(host)
  BY DEF Free
<1>4. /\ Finished(host, Current) /\ sem_ack = 0 /\ Current \in Reqs
      /\ Parked(host)
  BY <1>0, <1>3, Busily DEF Ledger, Account, Books, Ready, Runs, OneRole
<1> HIDE DEF h
<1>5. /\ Finished(h, Current) /\ Parked(h) /\ Frame(host, h, Current)
      /\ OneRole(h, Current) /\ i \in Done(h)
  BY <1>0, <1>2, <1>4, SameBooks, SameFields, SameRoles DEF Moves, Same
<1>6. ~Blocked(h, Current)
  BY <1>5 DEF Blocked, HasRequests, Parked
<1>7. host' = Complete(h, i, Current) /\ sem_ack' = sem_ack + 1
  BY <1>1, <1>6 DEF Finish
<1>8. AtRest(host') /\ Honest(host', Current, {}) /\ Frame(h, host', Current)
  BY <1>0, <1>2, <1>4, <1>5, <1>7, CompleteBooks
<1>9. Free(host')
  BY <1>0, <1>2, <1>5, <1>7, CompleteRoles
<1>10. Frame(host, host', Current)
  BY <1>5, <1>8 DEF Frame
<1>11. sem_ack' = 1
  BY <1>4, <1>7
<1>12. Account' /\ Promise
  BY <1>4, <1>8, <1>9, <1>10, <1>11, AccountCompleted DEF Ledger
<1> QED BY <1>12, HandsEmpty

\* A thread in sdhci_request_done leaves the caller alone.
LEMMA ExecutorCurrent ==
  ASSUME IInv, NEW t \in Executors, Executor(t)
  PROVE  Current' = Current /\ UNCHANGED <<irq, firing, wake>>
<1>1. /\ loc \in [Threads -> Locals] /\ t \in Threads /\ "caller" \in Threads
      /\ t # "caller"
  BY DEF IInv, TypeOK, Threads, Executors
<1>2. loc'["caller"] = loc["caller"]
  <2>1. CASE UNCHANGED loc
    BY <2>1
  <2>2. CASE \E l : Keep(t, l)
    BY <1>1, <2>2 DEF Keep
  <2> QED BY <2>1, <2>2 DEF Executor, RequestDone, Unmap, Relock
<1> QED BY <1>2 DEF Executor, RequestDone, Unmap, Relock, Current

LEMMA ExecutorLedger ==
  ASSUME IInv, Once, Unmapping, Ledger, NEW t \in Executors, Executor(t)
  PROVE  Ledger' /\ Promise
<1>0. /\ host \in Host /\ Current \in MaybeReq /\ OneRole(host, Current)
      /\ sem_ack \in {0, 1}
  BY DEF IInv, TypeOK, Current, Locals, Threads, Once
<1>1. Current' = Current /\ irq' = irq
  BY ExecutorCurrent
<1>2. CASE UNCHANGED <<host, sem_ack>>
  BY <1>0, <1>1, <1>2, LedgerStay DEF Same
<1>3. CASE RequestDone(t) /\ Done(host) # {} /\ ~UNCHANGED <<host, sem_ack>>
  <2> DEFINE i == FirstSlot(Done(host))
             m == host.mrqs_done[i]
  <2>1. i \in Done(host)
    BY <1>3, FirstSlotType DEF Done
  <2>2. m = Current
    BY <1>0, <2>1 DEF OneRole, Owns, Done
  <2>3. Finish(t, [host EXCEPT !.mapped = @ \ {m}], i, m) /\ Unlocked
    BY <1>3 DEF RequestDone
  <2> HIDE DEF i
  <2> QED BY <1>0, <1>1, <2>1, <2>2, <2>3, FinishLedger
<1>4. CASE Relock(t)
  <2>1. loc[t].mrq = Current /\ loc[t].slot \in Done(host)
    BY <1>4 DEF Relock, Unmapping
  <2> QED BY <1>0, <1>1, <1>4, <2>1, FinishLedger DEF Relock
<1> QED BY <1>2, <1>3, <1>4 DEF Executor, RequestDone, Unmap

\* A timer callback or the card event, given what it does to a running request.
LEMMA TouchLedger ==
  ASSUME IInv, Once, Ledger, Unlocked, Current' = Current,
         UNCHANGED <<irq, sem_ack>>,
         Parked(host) => host' = host,
         Runs(host, Current) => Books(host', Current) /\ Frame(host, host', Current)
  PROVE  Ledger' /\ Promise
<1>1. sem_ack \in {0, 1} /\ host \in Host /\ OneRole(host, Current)
  BY DEF Once, IInv, TypeOK
<1>2. CASE Parked(host)
  <2>1. Same(host, host')
    BY <1>2 DEF Same
  <2> QED BY <1>1, <2>1, LedgerStay
<1>3. CASE ~Parked(host)
  <2>1. ~Free(host)
    BY <1>3 DEF Free
  <2>2. sem_ack = 0 /\ Runs(host, Current)
    BY <1>1, <1>3, <2>1, Busily, RunsIf DEF Ledger, Account
  <2>3. Account' /\ Promise
    BY <2>2, AccountBooks DEF Ledger
  <2> QED BY <2>3, HandsEmpty
<1> QED BY <1>2, <1>3

LEMMA IrqThreadLedger ==
  ASSUME IInv, Once, IInv', Ledger, IrqThread
  PROVE  Ledger' /\ Promise
<1> DEFINE t == "irq_thread"
<1>0. /\ t \in Threads /\ "caller" \in Threads /\ host \in Host
      /\ Current \in MaybeReq /\ OneRole(host, Current) /\ sem_ack \in {0, 1}
  BY DEF IInv, TypeOK, Current, Locals, Threads, Executors, Once
<1>1. CASE IrqThreadStart
  BY <1>0, <1>1, LedgerStay DEF IrqThreadStart, Same, Current
<1>2. CASE Deferred
  <2> DEFINE isr == host.thread_isr
             h == [host EXCEPT !.thread_isr = FALSE]
  <2>1. h \in Host /\ Same(host, h)
    BY <1>0 DEF Host, Same, Roles, Ends
  <2>2. Unlocked /\ UNCHANGED <<irq, sem_ack>>
    BY <1>2 DEF Deferred
  <2>3. CASE host' = h /\ Continue(t, isr)
    <3> DEFINE gone == [loc[t] EXCEPT !.cmd = None, !.tries = 0,
                                      !.there = FALSE, !.isr = isr]
    <3>1. Keep(t, gone) /\ gone.mrq = loc[t].mrq
      BY <1>0, <2>3 DEF Continue, IInv, TypeOK, Locals
    <3> HIDE DEF gone
    <3>2. Current' = Current
      BY <1>0, <3>1, KeepCurrent
    <3> QED BY <1>0, <2>1, <2>2, <2>3, <3>2, LedgerStay
  <2>4. CASE /\ host.deferred_cmd # None
             /\ Try(t, h, host.deferred_cmd, MaxTries, isr)
    <3>1. h.warned = {}
      BY <1>0, <2>1 DEF OneRole, Same, Roles
    <3> HIDE DEF h, isr
    <3> QED BY <1>0, <2>1, <2>2, <2>4, <3>1, DeferredReady, TryLedger
  <2> QED BY <1>2, <2>3, <2>4 DEF Deferred
<1>3. CASE CardEventPresent
  <2> DEFINE seen == [loc[t] EXCEPT !.there = present, !.isr = FALSE]
  <2>1. Keep(t, seen) /\ seen.mrq = loc[t].mrq
    BY <1>0, <1>3 DEF CardEventPresent, IInv, TypeOK, Locals
  <2>2. Current' = Current
    <3> HIDE DEF seen
    <3> QED BY <1>0, <2>1, KeepCurrent
  <2> QED BY <1>0, <1>3, <2>2, LedgerStay DEF CardEventPresent, Same
<1>4. CASE CardEventLocked
  <2>1. Current' = Current /\ Unlocked /\ UNCHANGED <<irq, sem_ack>>
    BY <1>0, <1>4 DEF CardEventLocked, Keep, Current
  <2>2. host' = CardEvent(host, loc[t].there) /\ loc[t].there \in BOOLEAN
    BY <1>0, <1>4 DEF CardEventLocked, IInv, TypeOK, Locals
  <2>3. Parked(host) => host' = host
    BY <2>2, NothingRuns
  <2>4. Runs(host, Current) => Books(host', Current) /\ Frame(host, host', Current)
    BY <1>0, <2>2, CardEventBooks
  <2> QED BY <2>1, <2>3, <2>4, TouchLedger
<1> QED BY <1>1, <1>2, <1>3, <1>4 DEF IrqThread

-----------------------------------------------------------------------------
(* The interrupt handler *)

\* Reading the status register: the bits move from the register to the handler.
LEMMA TakeStatusBooks ==
  ASSUME NEW h \in Host, NEW g, NEW m, g.status = {}, Roles(g) = Roles(h),
         g.cmdLine = h.cmdLine, g.datLine = h.datLine, g.served = h.served,
         g.error = h.error, g.timers = h.timers,
         g.pending_reset = h.pending_reset, g.data_early = h.data_early
  PROVE  /\ Free(g) <=> Free(h)
         /\ \A rest : Honest(g, m, rest) = Honest(h, m, rest)
         /\ AtRest(h) => AtRest(g)
         /\ Books(h, m) => Books(g, m)
         /\ Silent(h) \/ Runs(h, m) => CmdInHand(g, m, Bits(h.status))
<1>1. /\ g.cmd = h.cmd /\ g.data_cmd = h.data_cmd /\ g.data = h.data
      /\ g.deferred_cmd = h.deferred_cmd /\ Done(g) = Done(h)
      /\ (Parked(g) <=> Parked(h)) /\ (Free(g) <=> Free(h))
  BY DEF Roles, Done, Parked, Free
<1>2. Bits(g.status) = {}
  BY DEF Bits
<1>3. (Silent(h) => Silent(g)) /\ Owed(g) = Owed(h) /\ (Early(g) <=> Early(h))
  BY <1>1, <1>2 DEF Silent, Owed, Early
<1>4. \A rest : Honest(g, m, rest) = Honest(h, m, rest)
  BY DEF Honest
<1>5. AtRest(h) => AtRest(g)
  BY <1>3 DEF AtRest
<1>6. ASSUME Runs(h, m) PROVE Runs(g, m)
  <2>1. Genuine(g, m, {})
    BY DEF Genuine
  <2>2. Wired(g, m)
    BY <1>1, <1>2, <1>3, <1>6, <2>1 DEF Runs, Wired
  <2> QED BY <1>1, <1>3, <1>4, <1>6, <2>2 DEF Runs
<1>7. Books(h, m) => Books(g, m)
  <2>1. ASSUME Ready(h, m, h.deferred_cmd) PROVE Ready(g, m, g.deferred_cmd)
    BY <1>1, <1>3, <1>4, <2>1 DEF Ready
  <2>2. ASSUME Finished(h, m) PROVE Finished(g, m)
    BY <1>1, <1>3, <1>4, <2>2 DEF Finished, NeedsReset
  <2> QED BY <1>6, <2>1, <2>2 DEF Books
<1>8. ASSUME Silent(h) PROVE CmdInHand(g, m, Bits(h.status))
  <2>1. Bits(h.status) \subseteq {"CARD"}
    BY <1>8 DEF Silent
  <2> QED BY <2>1 DEF CmdInHand, CmdAnswers, DataAnswers, DataBits, Genuine
<1>9. ASSUME Runs(h, m) PROVE CmdInHand(g, m, Bits(h.status))
  <2> DEFINE M == Bits(h.status)
  <2>1. Wired(h, m)
    BY <1>9 DEF Runs
  <2>2. M \cap CmdAnswers(m) # {} => h.cmd # None /\ h.cmdLine = None
    <3>1. \A s \in h.status : s[1] \in CmdAnswers(m) => h.cmd # None
      BY <2>1 DEF Wired, CmdAnswers, DataAnswers, DataBits
    <3> QED BY <2>1, <3>1 DEF Wired, Bits
  <2>3. M \cap DataAnswers(m) # {} =>
          h.data_cmd # None /\ h.datLine = None /\ ~Early(h)
    <3>1. \A s \in h.status : s[1] \in DataAnswers(m) => h.data_cmd # None
      BY <2>1 DEF Wired, CmdAnswers, DataAnswers, DataBits
    <3> QED BY <2>1, <3>1 DEF Wired, Bits
  <2>4. Genuine(g, m, M)
    BY <1>1, <2>1 DEF Wired, Genuine
  <2> HIDE DEF M
  <2>5. CmdInHand(g, m, M)
    BY <1>1, <1>2, <1>3, <2>2, <2>3, <2>4 DEF CmdInHand, CmdOver, DataOver
  <2> QED BY <2>5 DEF M
<1> QED BY <1>1, <1>4, <1>5, <1>7, <1>8, <1>9

LEMMA TakeStatusLedger ==
  ASSUME IInv, Once, Ledger, IrqEnter \/ IrqAgain
  PROVE  Ledger' /\ Promise
<1> DEFINE M == Bits(host.status)
<1>0. host \in Host /\ OneRole(host, Current) /\ sem_ack \in {0, 1}
  BY DEF IInv, TypeOK, Once
<1>1. /\ irq'.pc = "cmd" /\ irq'.mask = M /\ sem_ack' = sem_ack
      /\ Current' = Current
      /\ host' = [host EXCEPT !.status = {}, !.thread_isr = @ \/ "CARD" \in M]
  BY DEF IrqEnter, IrqAgain, TakeStatus, Current
<1> HIDE DEF M
<1>2. /\ host'.status = {} /\ Roles(host') = Roles(host)
      /\ host'.cmdLine = host.cmdLine /\ host'.datLine = host.datLine
      /\ host'.served = host.served /\ host'.error = host.error
      /\ host'.timers = host.timers /\ host'.pending_reset = host.pending_reset
      /\ host'.data_early = host.data_early
  BY <1>0, <1>1 DEF Host, Roles
<1>3. /\ Free(host') <=> Free(host)
      /\ \A rest : Honest(host', Current, rest) = Honest(host, Current, rest)
      /\ AtRest(host) => AtRest(host')
      /\ Books(host, Current) => Books(host', Current)
      /\ Silent(host) \/ Runs(host, Current) => CmdInHand(host', Current, M)
  BY <1>0, <1>2, TakeStatusBooks DEF M
<1>4. Account'
  <2>1. Free(host') =>
          /\ AtRest(host')
          /\ sem_ack = 0 => \A n \in Reqs : host'.error[n] = {}
          /\ sem_ack = 1 => Honest(host', Current, {})
    BY <1>2, <1>3 DEF Ledger, Account
  <2>2. ~Free(host') => Books(host', Current)
    BY <1>3 DEF Ledger, Account
  <2>3. \A n \in Reqs \ {Current} : host'.error[n] = {}
    BY <1>2 DEF Ledger, Account
  <2> QED BY <1>1, <2>1, <2>2, <2>3 DEF Account
<1>5. ~host.pending_reset => Silent(host) \/ Runs(host, Current)
  BY DEF Ledger, Account, AtRest, Books, Ready, Finished
<1>6. InCmd' /\ InData'
  BY <1>1, <1>2, <1>3, <1>5 DEF InCmd, InData
<1>7. Promise
  BY <1>0, <1>1, <1>2, HiddenPromise DEF Hidden
<1> QED BY <1>4, <1>6, <1>7 DEF Ledger

LEMMA IrqCmdLedger ==
  ASSUME IInv, Once, Ledger, IrqCmd
  PROVE  Ledger' /\ Promise
<1> DEFINE bits == irq.mask \cap CmdBits
           M == irq.mask \cup CmdIrqAdds(host, bits)
<1>0. /\ host \in Host /\ OneRole(host, Current) /\ sem_ack \in {0, 1}
      /\ irq.mask \in SUBSET IntBits /\ Current \in MaybeReq
  BY DEF IInv, TypeOK, Once, Current, Locals, Threads
<1>1. /\ irq.pc = "cmd" /\ irq'.pc = "data" /\ irq'.mask = M
      /\ Current' = Current /\ sem_ack' = sem_ack
  BY DEF IrqCmd, Current, IInv, TypeOK
<1>2. host' = CmdIrq(host, bits)
  <2>1. CmdIrq(host, {}) = host
    BY DEF CmdIrq, AutoCmd12Failed, CrcOfDataCmd
  <2> QED BY <2>1 DEF IrqCmd
<1> HIDE DEF M
<1>3. InCmd'
  BY <1>1 DEF InCmd
<1>4. CASE Parked(host)
  <2>1. host' = host
    BY <1>2, <1>4, NothingRuns
  <2>2. Account' /\ Promise
    BY <1>0, <1>1, <2>1, AccountStay DEF Ledger, Same
  <2>3. InData'
    BY <1>4, <2>1 DEF InData, DataInHand, Parked
  <2> QED BY <1>3, <2>2, <2>3 DEF Ledger
<1>5. CASE ~Parked(host)
  <2>1. ~Free(host)
    BY <1>5 DEF Free
  <2>2. sem_ack = 0 /\ Runs(host, Current)
    BY <1>0, <1>5, <2>1, Busily, RunsIf DEF Ledger, Account
  <2>3. CmdInHand(host, Current, irq.mask)
    BY <1>1, <2>2 DEF Ledger, InCmd, Runs
  <2>4. /\ Books(host', Current) /\ Frame(host, host', Current)
        /\ DataInHand(host', Current, M)
    BY <1>0, <1>2, <2>2, <2>3, CmdIrqBooks DEF M
  <2>5. Account' /\ Promise
    BY <1>1, <2>2, <2>4, AccountBooks DEF Ledger
  <2>6. InData'
    BY <1>1, <2>4 DEF InData
  <2> QED BY <1>3, <2>5, <2>6 DEF Ledger
<1> QED BY <1>4, <1>5

LEMMA IrqDataLedger ==
  ASSUME IInv, Once, Ledger, IrqData
  PROVE  Ledger' /\ Promise
<1> DEFINE bits == irq.mask \cap DataBits
<1>0. /\ host \in Host /\ OneRole(host, Current) /\ sem_ack \in {0, 1}
      /\ irq.mask \in SUBSET IntBits /\ Current \in MaybeReq
  BY DEF IInv, TypeOK, Once, Current, Locals, Threads
<1>1. /\ irq.pc = "data" /\ irq'.pc = "loop"
      /\ Current' = Current /\ sem_ack' = sem_ack
      /\ host' = IF bits = {} THEN host ELSE DataIrq(host, bits)
  BY DEF IrqData, Current, IInv, TypeOK
<1>2. InCmd' /\ InData'
  BY <1>1 DEF InCmd, InData
<1>3. CASE bits = {} \/ Parked(host)
  <2>1. host' = host
    BY <1>1, <1>3, NothingRuns
  <2>2. Account' /\ Promise
    BY <1>0, <1>1, <2>1, AccountStay DEF Ledger, Same
  <2> QED BY <1>2, <2>2 DEF Ledger
<1>4. CASE bits # {} /\ ~Parked(host)
  <2>1. ~Free(host)
    BY <1>4 DEF Free
  <2>2. sem_ack = 0 /\ Runs(host, Current)
    BY <1>0, <1>4, <2>1, Busily, RunsIf DEF Ledger, Account
  <2>3. DataInHand(host, Current, irq.mask)
    BY <1>1 DEF Ledger, InData
  <2>4. Books(host', Current) /\ Frame(host, host', Current)
    BY <1>0, <1>1, <1>4, <2>2, <2>3, DataIrqBooks
  <2>5. Account' /\ Promise
    BY <1>1, <2>2, <2>4, AccountBooks DEF Ledger
  <2> QED BY <1>2, <2>5 DEF Ledger
<1> QED BY <1>3, <1>4

\* The end of the handler completes a request only if no error waits for the
\* controller to be reset.
LEMMA IrqExitLedger ==
  ASSUME IInv, Once, Ledger, IrqExit
  PROVE  Ledger' /\ Promise
<1> DEFINE now == {i \in Done(host) : ~DeferDone(host, host.mrqs_done[i])}
           slots == [i \in Slots |-> IF i \in now THEN None ELSE host.mrqs_done[i]]
<1>0. /\ host \in Host /\ OneRole(host, Current) /\ sem_ack \in {0, 1}
  BY DEF IInv, TypeOK, Once
<1>1. /\ host' = [host EXCEPT !.mrqs_done = slots]
      /\ sem_ack' = sem_ack + Cardinality(now)
      /\ Current' = Current /\ irq'.pc = "off"
  BY DEF IrqExit, IrqOff, Current
<1>2. /\ host'.cmd = host.cmd /\ host'.data_cmd = host.data_cmd
      /\ host'.deferred_cmd = host.deferred_cmd /\ host'.data = host.data
      /\ host'.warned = host.warned /\ host'.mrqs_done = slots
      /\ Ends(host') = Ends(host) /\ host'.error = host.error
      /\ host'.timers = host.timers /\ host'.pending_reset = host.pending_reset
      /\ host'.data_early = host.data_early
  <2> HIDE DEF slots
  <2> QED BY <1>0, <1>1 DEF Host, Ends
<1>3. InCmd' /\ InData'
  BY <1>1 DEF InCmd, InData
<1>4. CASE now = {}
  <2>1. slots = host.mrqs_done
    BY <1>0, <1>4 DEF Host
  <2>2. sem_ack' = sem_ack
    <3>1. Cardinality(now) = 0
      BY <1>4, FS_EmptySet
    <3> HIDE DEF now, slots
    <3> QED BY <1>0, <1>1, <3>1
  <2>3. Same(host, host')
    <3> HIDE DEF slots
    <3> QED BY <1>2, <2>1 DEF Same, Roles
  <2>4. Account' /\ Promise
    BY <1>0, <1>1, <2>2, <2>3, AccountStay DEF Ledger
  <2> QED BY <1>3, <2>4 DEF Ledger
<1>5. CASE now # {}
  <2>1. PICK i \in now : TRUE
    BY <1>5
  <2>2. i \in Done(host) /\ Done(host) = {i} /\ now = {i} /\ ~host.pending_reset
    BY <1>0, <2>1 DEF OneRole, DeferDone
  <2>3. Parked(host) /\ host.deferred_cmd = None /\ ~Free(host)
    BY <1>0, <2>2 DEF OneRole, Free
  <2>4. sem_ack = 0 /\ Current \in Reqs
    BY <2>3, Busily
  <2>5. Finished(host, Current)
    BY <2>2, <2>3 DEF Ledger, Account, Books, Ready, Runs
  <2>6. sem_ack' = 1
    <3>1. Cardinality(now) = 1
      BY <2>2, FS_Singleton
    <3> HIDE DEF now, slots
    <3> QED BY <1>1, <2>4, <3>1
  <2>7. \A j \in Slots : host'.mrqs_done[j] = None
    BY <1>2, <2>2 DEF Done
  <2>8. Done(host') = {}
    BY <2>7 DEF Done
  <2>9. Free(host')
    BY <1>2, <2>3, <2>8 DEF Free, Parked
  <2>10. /\ AtRest(host') /\ Honest(host', Current, {})
         /\ Frame(host, host', Current)
    BY <1>2, <2>2, <2>5
       DEF Finished, AtRest, Silent, Honest, Frame, Ends
  <2>11. Account' /\ Promise
    BY <1>1, <2>4, <2>6, <2>9, <2>10, AccountCompleted DEF Ledger
  <2> QED BY <1>3, <2>11 DEF Ledger
<1> QED BY <1>4, <1>5

LEMMA IrqLedger ==
  ASSUME IInv, Once, Ledger, Irq
  PROVE  Ledger' /\ Promise
BY TakeStatusLedger, IrqCmdLedger, IrqDataLedger, IrqExitLedger DEF Irq

-----------------------------------------------------------------------------
(* The controller *)

\* What an answer of the controller leaves alone: it ends the use of one line
\* and raises the bits B for the command c that used it.
Answers(h, g, c, B) ==
  /\ Roles(g) = Roles(h) /\ g.error = h.error /\ g.timers = h.timers
  /\ g.pending_reset = h.pending_reset /\ g.data_early = h.data_early
  /\ h.served \subseteq g.served
  /\ g.status = h.status \cup {<<b, c>> : b \in B}

\* The command c is answered, or its data end.
CmdAnswered(h, g, c, m, B) ==
  /\ c = h.cmdLine /\ c # None /\ g.cmdLine = None /\ g.datLine = h.datLine
  /\ B \subseteq CmdAnswers(m)
DataAnswered(h, g, c, m, B) ==
  /\ c = h.datLine /\ c # None /\ g.datLine = None /\ g.cmdLine = h.cmdLine
  /\ B \subseteq DataAnswers(m)

\* The answer is for a request that runs, or for one that has failed and whose
\* completion will reset the controller.
LEMMA AnsweredBooks ==
  ASSUME NEW h \in Host, NEW g, NEW m, NEW c, NEW B, OneRole(h, m), Books(h, m),
         Answers(h, g, c, B), ~Silent(h),
         Runs(h, m) =>
           /\ CmdAnswered(h, g, c, m, B) \/ DataAnswered(h, g, c, m, B)
           /\ Genuine(g, m, B)
  PROVE  /\ Books(g, m)
         /\ \A M : ~h.pending_reset /\ CmdInHand(h, m, M) => CmdInHand(g, m, M)
         /\ \A M : DataInHand(h, m, M) => DataInHand(g, m, M)
<1>1. /\ g.cmd = h.cmd /\ g.data_cmd = h.data_cmd /\ g.data = h.data
      /\ g.deferred_cmd = h.deferred_cmd /\ Done(g) = Done(h)
      /\ (Parked(g) <=> Parked(h)) /\ g.error = h.error /\ g.timers = h.timers
      /\ g.pending_reset = h.pending_reset /\ h.served \subseteq g.served
  BY DEF Answers, Roles, Done, Parked
<1>2. (Early(g) <=> Early(h)) /\ Owed(g) = Owed(h)
  BY <1>1 DEF Answers, Early, Owed
<1>3. \A rest : Honest(h, m, rest) => Honest(g, m, rest)
  BY <1>1 DEF Honest
<1>4. Bits(g.status) = Bits(h.status) \cup B
  <2> DEFINE raised == {<<b, c>> : b \in B}
  <2>1. \A s \in raised : s[1] \in B
    OBVIOUS
  <2>2. \A b \in B : <<b, c>> \in raised /\ <<b, c>>[1] = b
    OBVIOUS
  <2>3. g.status = h.status \cup raised
    BY DEF Answers
  <2> HIDE DEF raised
  <2>4. Bits(g.status) \subseteq Bits(h.status) \cup B
    BY <2>1, <2>3 DEF Bits
  <2>5. Bits(h.status) \subseteq Bits(g.status)
    BY <2>3 DEF Bits
  <2>6. B \subseteq Bits(g.status)
    BY <2>2, <2>3 DEF Bits
  <2> QED BY <2>4, <2>5, <2>6
<1>6. CmdAnswers(m) \cap DataAnswers(m) = {}
  BY DEF CmdAnswers, DataAnswers, DataBits
<1>7. CASE Runs(h, m)
  <2>0. /\ Wired(h, m) /\ Genuine(g, m, B)
        /\ CmdAnswered(h, g, c, m, B) \/ DataAnswered(h, g, c, m, B)
    BY <1>7 DEF Runs
  <2>1. ASSUME CmdAnswered(h, g, c, m, B)
        PROVE  Bits(h.status) \cap CmdAnswers(m) = {} /\ c = h.cmd
    BY <2>0, <2>1 DEF CmdAnswered, Wired
  <2>2. ASSUME DataAnswered(h, g, c, m, B)
        PROVE  Bits(h.status) \cap DataAnswers(m) = {} /\ c = h.data_cmd /\ ~Early(h)
    BY <2>0, <2>2 DEF DataAnswered, Wired
  <2>3. Genuine(g, m, Bits(g.status))
    BY <1>1, <1>4, <2>0 DEF Wired, Genuine
  <2>4. ASSUME NEW s \in g.status
        PROVE  \/ s[1] = "CARD"
               \/ s[1] \in CmdAnswers(m) /\ g.cmd # None /\ s[2] = g.cmd
               \/ s[1] \in DataAnswers(m) /\ g.data_cmd # None /\ s[2] = g.data_cmd
    <3>1. CASE s \in h.status
      BY <1>1, <2>0, <3>1 DEF Wired
    <3>2. CASE \E b \in B : s = <<b, c>>
      BY <1>1, <2>0, <2>1, <2>2, <3>2 DEF CmdAnswered, DataAnswered
    <3> QED BY <2>4, <3>1, <3>2 DEF Answers
  <2>5. /\ g.cmdLine \in {None, g.cmd} /\ g.datLine \in {None, g.data_cmd}
        /\ Bits(g.status) \cap CmdAnswers(m) # {} => g.cmdLine = None
        /\ Bits(g.status) \cap DataAnswers(m) # {} => g.datLine = None /\ ~Early(g)
        /\ Early(g) => g.datLine = None /\ "data" \in g.served
    <3>1. CASE CmdAnswered(h, g, c, m, B)
      <4>1. B \cap DataAnswers(m) = {} /\ g.cmdLine = None /\ g.datLine = h.datLine
        BY <1>6, <3>1 DEF CmdAnswered
      <4> QED BY <1>1, <1>2, <1>4, <2>0, <4>1 DEF Wired
    <3>2. CASE DataAnswered(h, g, c, m, B)
      <4>1. B \cap CmdAnswers(m) = {} /\ g.datLine = None /\ g.cmdLine = h.cmdLine
        BY <1>6, <3>2 DEF DataAnswered
      <4> QED BY <1>1, <1>2, <1>4, <2>0, <2>2, <3>2, <4>1 DEF Wired
    <3> QED BY <2>0, <3>1, <3>2
  <2>6. Wired(g, m)
    BY <1>1, <2>0, <2>3, <2>4, <2>5 DEF Wired
  <2>7. Runs(g, m)
    BY <1>1, <1>2, <1>3, <1>7, <2>6 DEF Runs
  <2>8. ASSUME NEW M, CmdInHand(h, m, M) PROVE CmdInHand(g, m, M)
    <3>1. Genuine(g, m, M)
      BY <1>1, <2>8 DEF CmdInHand, Genuine
    <3>2. CASE CmdAnswered(h, g, c, m, B)
      <4>1. M \cap CmdAnswers(m) = {}
        BY <2>8, <3>2 DEF CmdInHand, CmdOver, CmdAnswered
      <4>2. DataOver(h, m) => DataOver(g, m)
        BY <1>2, <1>4, <1>6, <3>2 DEF DataOver, CmdAnswered
      <4> QED BY <1>1, <2>8, <3>1, <4>1, <4>2 DEF CmdInHand
    <3>3. CASE DataAnswered(h, g, c, m, B)
      <4>1. M \cap DataAnswers(m) = {}
        BY <2>8, <3>3 DEF CmdInHand, DataOver, DataAnswered
      <4>2. CmdOver(h, m) => CmdOver(g, m)
        BY <1>4, <1>6, <3>3 DEF CmdOver, DataAnswered
      <4> QED BY <1>1, <2>8, <3>1, <4>1, <4>2 DEF CmdInHand
    <3> QED BY <2>0, <3>2, <3>3
  <2>9. ASSUME NEW M, DataInHand(h, m, M) PROVE DataInHand(g, m, M)
    <3>1. DataOver(h, m) => DataOver(g, m)
      BY <1>2, <1>4, <1>6, <2>0 DEF DataOver, CmdAnswered, DataAnswered
    <3> QED BY <1>1, <2>9, <3>1 DEF DataInHand
  <2> QED BY <2>7, <2>8, <2>9 DEF Books
<1>8. CASE ~Runs(h, m)
  <2>1. Finished(h, m) /\ h.pending_reset
    BY <1>8 DEF Books, Ready, Finished
  <2>2. Finished(g, m)
    BY <1>1, <2>1 DEF Finished, NeedsReset
  <2>3. g.data_cmd = None
    BY <1>1, <2>1 DEF Finished, OneRole, Parked
  <2>4. \A M : DataInHand(g, m, M)
    BY <2>3 DEF DataInHand
  <2> QED BY <2>1, <2>2, <2>4 DEF Books
<1> QED BY <1>7, <1>8

\* An answer of the controller and the invariant, given that the promise is
\* kept.
LEMMA AnsweredLedger ==
  ASSUME IInv, Once, Ledger, NEW c, NEW B, Answers(host, host', c, B),
         ~Silent(host), Promise, UNCHANGED <<irq, sem_ack, loc>>,
         Runs(host, Current) =>
           /\ \/ CmdAnswered(host, host', c, Current, B)
              \/ DataAnswered(host, host', c, Current, B)
           /\ Genuine(host', Current, B)
  PROVE  Ledger'
<1>1. host \in Host /\ OneRole(host, Current) /\ Current' = Current
  BY DEF IInv, TypeOK, Once, Current
<1>2. ~Free(host) /\ Books(host, Current)
  BY DEF Ledger, Account, AtRest
<1>3. /\ Books(host', Current)
      /\ \A M : ~host.pending_reset /\ CmdInHand(host, Current, M)
                  => CmdInHand(host', Current, M)
      /\ \A M : DataInHand(host, Current, M) => DataInHand(host', Current, M)
  BY <1>1, <1>2, AnsweredBooks
<1>4. host'.error = host.error /\ host'.pending_reset = host.pending_reset
  BY DEF Answers
<1>5. ~Free(host')
  BY <1>3, BooksBusy
<1>6. Account'
  BY <1>1, <1>3, <1>4, <1>5 DEF Ledger, Account
<1>7. InCmd' /\ InData'
  BY <1>1, <1>3, <1>4 DEF Ledger, InCmd, InData
<1> QED BY <1>6, <1>7 DEF Ledger

\* The lines in use are those of the request that runs.
LEMMA LinesOf ==
  ASSUME IInv, Once, Ledger
  PROVE  /\ ~Silent(host) => sem_ack = 0 /\ Current \in Reqs
         /\ Runs(host, Current) /\ host.cmdLine # None =>
              /\ host.cmdLine = host.cmd /\ Mrq(host.cmdLine) = Current
         /\ Runs(host, Current) /\ host.datLine # None =>
              /\ host.datLine = <<Current, "cmd">> /\ Mrq(host.datLine) = Current
              /\ HasData(host.datLine) => Current \in WithData
<1>1. host \in Host /\ OneRole(host, Current) /\ Current \in MaybeReq
  BY DEF IInv, TypeOK, Once, Current, Locals, Threads
<1>2. ~Silent(host) => ~Free(host)
  BY DEF Ledger, Account, AtRest
<1>3. Runs(host, Current) /\ host.cmdLine # None =>
         host.cmdLine = host.cmd /\ Mrq(host.cmdLine) = Current
  BY <1>1, CommandOf DEF Runs, Wired
<1>4. Runs(host, Current) /\ host.datLine # None => host.datLine = <<Current, "cmd">>
  BY DEF Runs, Wired
<1> QED BY <1>2, <1>3, <1>4, Busily DEF Mrq, HasData

\* The card interrupt is nobody's answer.
LEMMA CardRaised ==
  ASSUME IInv, Once, Ledger, HwCard
  PROVE  Ledger' /\ Promise
<1>0. /\ host \in Host /\ sem_ack \in {0, 1}
      /\ UNCHANGED <<irq, sem_ack, loc>> /\ Current' = Current
  BY DEF IInv, TypeOK, Once, HwCard, HwUnchanged, Current
<1> DEFINE h == host
           g == host'
           m == Current
<1>1. /\ Roles(g) = Roles(h) /\ g.cmdLine = h.cmdLine /\ g.datLine = h.datLine
      /\ g.status = h.status \cup {<<"CARD", None>>}
      /\ g.served = h.served /\ g.error = h.error /\ g.timers = h.timers
      /\ g.pending_reset = h.pending_reset /\ g.data_early = h.data_early
  BY <1>0 DEF HwCard, Raise, Host, Roles
<1>2. Bits(g.status) = Bits(h.status) \cup {"CARD"}
  <2>1. \A s \in h.status \cup {<<"CARD", None>>} :
           s \in h.status \/ s[1] = "CARD"
    OBVIOUS
  <2>2. <<"CARD", None>>[1] = "CARD"
    OBVIOUS
  <2>3. Bits(g.status) \subseteq Bits(h.status) \cup {"CARD"}
    BY <1>1, <2>1 DEF Bits
  <2>4. Bits(h.status) \subseteq Bits(g.status)
    BY <1>1 DEF Bits
  <2>5. "CARD" \in Bits(g.status)
    BY <1>1, <2>2 DEF Bits
  <2> QED BY <2>3, <2>4, <2>5
<1> HIDE DEF h, g
<1>3. "CARD" \notin CmdAnswers(m) /\ "CARD" \notin DataAnswers(m)
  BY DEF CmdAnswers, DataAnswers, DataBits
<1>4. /\ g.cmd = h.cmd /\ g.data_cmd = h.data_cmd /\ g.data = h.data
      /\ g.deferred_cmd = h.deferred_cmd /\ Done(g) = Done(h)
      /\ (Parked(g) <=> Parked(h)) /\ (Free(g) <=> Free(h))
  BY <1>1 DEF Roles, Done, Parked, Free
<1>5. /\ Silent(g) <=> Silent(h)
      /\ Early(g) <=> Early(h)
      /\ Owed(g) = Owed(h)
      /\ \A rest : Honest(g, m, rest) <=> Honest(h, m, rest)
  BY <1>1, <1>2, <1>4 DEF Silent, Early, Owed, Honest
<1>6. (CmdOver(g, m) <=> CmdOver(h, m)) /\ (DataOver(g, m) <=> DataOver(h, m))
  BY <1>1, <1>2, <1>3, <1>5 DEF CmdOver, DataOver
<1>7. /\ \A M : CmdInHand(h, m, M) => CmdInHand(g, m, M)
      /\ \A M : DataInHand(h, m, M) => DataInHand(g, m, M)
  BY <1>1, <1>4, <1>6 DEF CmdInHand, DataInHand, Genuine
<1>8. ASSUME Runs(h, m) PROVE Runs(g, m)
  <2>1. Genuine(g, m, Bits(g.status))
    BY <1>1, <1>2, <1>4, <1>8 DEF Runs, Wired, Genuine
  <2>2. /\ Bits(g.status) \cap CmdAnswers(m) = Bits(h.status) \cap CmdAnswers(m)
        /\ Bits(g.status) \cap DataAnswers(m) = Bits(h.status) \cap DataAnswers(m)
    BY <1>2, <1>3
  <2>3. \A s \in g.status : s \in h.status \/ s[1] = "CARD"
    BY <1>1
  <2>4. Wired(g, m)
    BY <1>1, <1>4, <1>5, <1>8, <2>1, <2>2, <2>3 DEF Runs, Wired
  <2> QED BY <1>1, <1>4, <1>5, <1>8, <2>4 DEF Runs
<1>9. Books(h, m) => Books(g, m)
  <2>1. ASSUME Ready(h, m, h.deferred_cmd) PROVE Ready(g, m, g.deferred_cmd)
    BY <1>1, <1>4, <1>5, <2>1 DEF Ready
  <2>2. ASSUME Finished(h, m) PROVE Finished(g, m)
    BY <1>1, <1>4, <1>5, <2>2 DEF Finished, NeedsReset
  <2> QED BY <1>8, <2>1, <2>2 DEF Books
<1>10. AtRest(h) => AtRest(g)
  BY <1>1, <1>5 DEF AtRest
<1>11. Account'
  <2>1. \A n \in Reqs \ {Current} : g.error[n] = {}
    BY <1>1 DEF Ledger, Account, h
  <2>2. Free(g) =>
          /\ AtRest(g)
          /\ sem_ack = 0 => \A n \in Reqs : g.error[n] = {}
          /\ sem_ack = 1 => Honest(g, m, {})
    BY <1>1, <1>4, <1>5, <1>10 DEF Ledger, Account, h
  <2>3. ~Free(g) => Books(g, m)
    BY <1>4, <1>9 DEF Ledger, Account, h
  <2> QED BY <1>0, <2>1, <2>2, <2>3 DEF Account, g
<1>12. InCmd' /\ InData'
  BY <1>0, <1>1, <1>7 DEF Ledger, InCmd, InData, g, h
<1>13. Promise
  BY <1>0, <1>1, HiddenPromise DEF Hidden, g, h
<1> QED BY <1>11, <1>12, <1>13 DEF Ledger

LEMMA HardwareLedger ==
  ASSUME IInv, Once, Ledger, Hardware \/ HwCard
  PROVE  Ledger' /\ Promise
<1>0. /\ host \in Host /\ sem_ack \in {0, 1} /\ OneRole(host, Current)
      /\ UNCHANGED <<irq, sem_ack, loc>> /\ Current' = Current
  BY DEF IInv, TypeOK, Once, Hardware, HwResponse, HwCmdError, HwDataEnd,
         HwDataError, HwRelease, HwCard, HwUnchanged, Current
<1>1. CASE HwResponse
  <2> DEFINE c == host.cmdLine
             B == {"RESPONSE"}
  <2>1. PICK held \in Hold("cmd") :
          host' = [host EXCEPT !.cmdLine = None, !.held = held,
                               !.status = Raise({"RESPONSE"}, c),
                               !.served = @ \cup {Part(c)}]
    BY <1>1 DEF HwResponse
  <2>2. c # None /\ ~Silent(host)
    BY <1>1 DEF HwResponse, Silent
  <2>3. /\ Answers(host, host', c, B) /\ host'.cmdLine = None
        /\ host'.datLine = host.datLine /\ Roles(host') = Roles(host)
        /\ host'.served = host.served \cup {Part(c)}
    BY <1>0, <2>1 DEF Host, Roles, Answers, Raise
  <2>4. host'.cmd = host.cmd
    BY <2>3 DEF Roles
  <2>5. Runs(host, Current) =>
          /\ CmdAnswered(host, host', c, Current, B)
          /\ Genuine(host', Current, B)
    BY <2>2, <2>3, <2>4, LinesOf DEF CmdAnswered, CmdAnswers, Genuine
  <2>6. sem_ack = 0 /\ Current \in Reqs
    BY <2>2, LinesOf
  <2>7. Part(c) \in ErrorFields
    BY <1>0, <2>2, CommandParts DEF Host, MaybeCmd, ErrorFields
  <2>8. Port!Serve(Part(c))
    BY <1>0, <2>3, <2>6, RequestAssumption DEF Port!Serve, Completed
  <2>9. Promise
    BY <2>7, <2>8 DEF Promise, Port!Next
  <2> QED BY <1>0, <2>2, <2>3, <2>5, <2>9, AnsweredLedger
<1>2. CASE HwCmdError
  <2> DEFINE c == host.cmdLine
  <2>1. PICK bits \in {{"TIMEOUT"}, {"RESPONSE", "CRC"}} \cup
                       IF AutoCmd23 /\ Mrq(c) \in WithSbc /\ HasData(c)
                       THEN {{"AUTO_CMD_ERR"}} ELSE {},
             held \in Hold("cmd") :
          host' = [host EXCEPT !.cmdLine = None, !.held = held,
                               !.status = Raise(bits, c)]
    BY <1>2 DEF HwCmdError
  <2>2. c # None /\ ~Silent(host)
    BY <1>2 DEF HwCmdError, Silent
  <2>3. /\ Answers(host, host', c, bits) /\ host'.cmdLine = None
        /\ host'.datLine = host.datLine /\ host'.served = host.served
        /\ host'.error = host.error
    BY <1>0, <2>1 DEF Host, Roles, Answers, Raise
  <2>4. Runs(host, Current) => bits \subseteq CmdAnswers(Current)
    BY <2>1, <2>2, LinesOf DEF CmdAnswers
  <2>5. Runs(host, Current) => Genuine(host', Current, bits)
    BY <2>1, <2>2, LinesOf, RequestAssumption DEF Genuine
  <2>6. Runs(host, Current) => CmdAnswered(host, host', c, Current, bits)
    BY <2>2, <2>3, <2>4 DEF CmdAnswered
  <2>7. Promise
    BY <1>0, <2>3, HiddenPromise DEF Hidden
  <2> QED BY <1>0, <2>2, <2>3, <2>5, <2>6, <2>7, AnsweredLedger
<1>3. CASE HwDataEnd
  <2> DEFINE c == host.datLine
             B == {"DATA_END"}
  <2>1. PICK held \in Hold("dat") :
          host' = [host EXCEPT !.datLine = None, !.held = held,
                               !.status = Raise({"DATA_END"}, c),
                               !.served = @ \cup {"data"}]
    BY <1>3 DEF HwDataEnd
  <2>2. c # None /\ ~Silent(host)
    BY <1>3 DEF HwDataEnd, Silent
  <2>3. /\ Answers(host, host', c, B) /\ host'.datLine = None
        /\ host'.cmdLine = host.cmdLine
        /\ host'.served = host.served \cup {"data"}
    BY <1>0, <2>1 DEF Host, Roles, Answers, Raise
  <2>4. /\ DataAnswered(host, host', c, Current, B)
        /\ Genuine(host', Current, B)
    BY <2>2, <2>3 DEF DataAnswered, DataAnswers, DataBits, Genuine
  <2>5. sem_ack = 0 /\ Current \in Reqs
    BY <2>2, LinesOf
  <2>6. Port!Serve("data")
    BY <1>0, <2>3, <2>5, RequestAssumption DEF Port!Serve, Completed
  <2>7. Promise
    BY <2>6 DEF Promise, Port!Next, ErrorFields
  <2> QED BY <1>0, <2>2, <2>3, <2>4, <2>7, AnsweredLedger
<1>4. CASE HwDataError
  <2> DEFINE c == host.datLine
  <2>1. PICK bits \in {{"DATA_TIMEOUT"}} \cup
                       (IF HasData(c) THEN {{"DATA_CRC"}} ELSE {}) \cup
                       IF AutoCmd12 /\ HasData(c) /\ Mrq(c) \in WithStop \ WithSbc
                       THEN {{"AUTO_CMD_ERR"}} ELSE {},
             held \in Hold("dat") :
          host' = [host EXCEPT !.datLine = None, !.held = held,
                               !.status = Raise(bits, c)]
    BY <1>4 DEF HwDataError
  <2>2. c # None /\ ~Silent(host)
    BY <1>4 DEF HwDataError, Silent
  <2>3. /\ Answers(host, host', c, bits) /\ host'.datLine = None
        /\ host'.cmdLine = host.cmdLine /\ host'.served = host.served
        /\ host'.error = host.error
    BY <1>0, <2>1 DEF Host, Roles, Answers, Raise
  <2>4. Runs(host, Current) => bits \subseteq DataAnswers(Current)
    BY <2>1, <2>2, LinesOf DEF DataAnswers, DataBits
  <2>5. Runs(host, Current) => Genuine(host', Current, bits)
    BY <2>1, <2>2, LinesOf, RequestAssumption DEF Genuine
  <2>6. Runs(host, Current) => DataAnswered(host, host', c, Current, bits)
    BY <2>2, <2>3, <2>4 DEF DataAnswered
  <2>7. Promise
    BY <1>0, <2>3, HiddenPromise DEF Hidden
  <2> QED BY <1>0, <2>2, <2>3, <2>5, <2>6, <2>7, AnsweredLedger
<1>5. CASE \E l \in Lines : HwRelease(l)
  <2>1. Same(host, host')
    BY <1>0, <1>5 DEF HwRelease, Same, Host, Roles, Ends
  <2> QED BY <1>0, <2>1, LedgerStay
<1>6. CASE HwCard
  BY <1>0, <1>6, CardRaised
<1> QED BY <1>1, <1>2, <1>3, <1>4, <1>5, <1>6 DEF Hardware

-----------------------------------------------------------------------------
(* The worker, the timers and the step as a whole *)

LEMMA OtherLedger ==
  ASSUME IInv, Once, Ledger,
         WorkerStart \/ \E x \in Timers : TimerExpire(x) \/ TimerRun(x)
  PROVE  Ledger' /\ Promise
<1>0. /\ host \in Host /\ sem_ack \in {0, 1} /\ OneRole(host, Current)
      /\ Current \in MaybeReq
  BY DEF IInv, TypeOK, Once, Current, Locals, Threads
<1>1. CASE WorkerStart
  <2>1. Same(host, host')
    BY <1>0, <1>1 DEF WorkerStart, Same, Host, Roles, Ends
  <2> QED BY <1>0, <1>1, <2>1, LedgerStay DEF WorkerStart, Current
<1>2. ASSUME NEW x \in Timers, TimerExpire(x)
      PROVE  Ledger' /\ Promise
  <2>1. Same(host, host')
    BY <1>0, <1>2 DEF TimerExpire, Same, Host, Roles, Ends
  <2> QED BY <1>0, <1>2, <2>1, LedgerStay DEF TimerExpire, Current
<1>3. ASSUME NEW x \in Timers, TimerRun(x)
      PROVE  Ledger' /\ Promise
  <2>1. /\ host' = IF x = "timer" THEN TimeoutTimer(host) ELSE TimeoutDataTimer(host)
        /\ Unlocked /\ UNCHANGED <<irq, sem_ack>> /\ Current' = Current
    BY <1>3 DEF TimerRun, Current
  <2>2. Parked(host) => host' = host
    BY <2>1, NothingRuns
  <2>3. Runs(host, Current) => Books(host', Current) /\ Frame(host, host', Current)
    BY <1>0, <2>1, TimeoutTimerBooks, TimeoutDataTimerBooks
  <2> QED BY <2>1, <2>2, <2>3, TouchLedger
<1> QED BY <1>1, <1>2, <1>3

-----------------------------------------------------------------------------
(* Scatter-gather DMA.  The lock is dropped around dma_unmap_sg, so that the *)
(* invariants need more: nobody else completes the request meanwhile.  That  *)
(* holds where requests are only ever finished by the handler: no timeouts,  *)
(* no card removal, and no inhibit bit that outlives its command.            *)

InTime == Mapping = "sg" => Faults \subseteq {"nomem"}

\* The worker has nothing to do, no timer fires, every command finds its lines
\* free and the card in the slot, so that no thread sleeps.
Quiet ==
  Mapping = "sg" =>
    /\ ~host.work /\ pc["worker"] = "idle"
    /\ host.held = {} /\ host.deferred_cmd = None /\ firing = {} /\ present
    /\ pc["caller"] \notin Asleep /\ pc["irq_thread"] \notin Asleep
    /\ pc["caller"] = "lock" => loc["caller"].there
    /\ pc["irq_thread"] = "removed" => loc["irq_thread"].there

\* What the functions of the handler do to the fields that the roles and the
\* ends are not about.
Watch(h) == <<h.work, h.held, h.mapped, h.served, h.deferred_cmd, h.cmdLine,
              h.datLine, h.data>>

\* From h to g no work is queued, m alone may be mapped, and is when its data
\* go out; a command deferred on the way found its lines in use.
Calm(h, g, m) ==
  /\ g.work = h.work /\ g.held \subseteq h.held /\ g.served = h.served
  /\ h.mapped \subseteq g.mapped /\ g.mapped \subseteq h.mapped \cup {m}
  /\ g.deferred_cmd # None =>
       \/ h.deferred_cmd # None
       \/ g.cmdLine # None \/ g.datLine # None \/ g.held # {}
  /\ m \in WithData /\ (g.datLine # None \/ g.data # None) =>
       m \in g.mapped \/ h.datLine # None \/ h.data # None

\* Nothing was deferred on the way.
Undeferred(h, g) == g.deferred_cmd # None => h.deferred_cmd # None

LEMMA WatchCalm ==
  ASSUME NEW h, NEW g, NEW k, NEW m, Watch(k) = Watch(g)
  PROVE  Calm(h, k, m) = Calm(h, g, m) /\ Undeferred(h, k) = Undeferred(h, g)
BY DEF Watch, Calm, Undeferred

LEMMA SelfCalm ==
  ASSUME NEW h, NEW m
  PROVE  Calm(h, h, m) /\ Undeferred(h, h)
BY DEF Calm, Undeferred

LEMMA WarnWatch ==
  ASSUME NEW h \in Host, NEW bad, NEW site
  PROVE  Watch(Warn(h, bad, site)) = Watch(h)
BY DEF Warn, Watch, Host

LEMMA FailWatch ==
  ASSUME NEW h \in Host, NEW m, NEW field
  PROVE  Watch(Fail(h, m, field)) = Watch(h)
BY DEF Fail, Watch, Host

LEMMA BeginWatch ==
  ASSUME NEW h \in Host, NEW c \in Cmds
  PROVE  Begin(h, c) \in Host /\ Watch(Begin(h, c)) = Watch(h)
<1> DEFINE g == [h EXCEPT !.error[Mrq(c)] = @ \ {Part(c)}]
<1>1. g \in Host /\ Watch(g) = Watch(h)
  BY CommandParts DEF Host, Watch
<1>2. Begin(h, c) = Warn(g, h.cmd # None, "send_command")
  BY DEF Begin
<1> HIDE DEF g
<1> QED BY <1>1, <1>2, WarnWatch, BeginType

LEMMA SetMrqDoneWatch ==
  ASSUME NEW h \in Host, NEW m \in Reqs
  PROVE  Watch(SetMrqDone(h, m)) = Watch(h)
<1>1. SetMrqDone(h, m) \in {Warn(h, TRUE, "done_twice"), Warn(h, TRUE, "done_full"),
                            [h EXCEPT !.mrqs_done[FirstSlot(Slots \ Done(h))] = m]}
  BY DEF SetMrqDone
<1>2. Watch([h EXCEPT !.mrqs_done[FirstSlot(Slots \ Done(h))] = m]) = Watch(h)
  BY DEF Watch, Host
<1>3. /\ Watch(Warn(h, TRUE, "done_twice")) = Watch(h)
      /\ Watch(Warn(h, TRUE, "done_full")) = Watch(h)
  BY WarnWatch
<1> DEFINE s == SetMrqDone(h, m)
           a == Warn(h, TRUE, "done_twice")
           b == Warn(h, TRUE, "done_full")
           c == [h EXCEPT !.mrqs_done[FirstSlot(Slots \ Done(h))] = m]
<1>4. s = a \/ s = b \/ s = c
  BY <1>1
<1>5. Watch(a) = Watch(h) /\ Watch(b) = Watch(h) /\ Watch(c) = Watch(h)
  BY <1>2, <1>3
<1> HIDE DEF s, a, b, c
<1>6. Watch(s) = Watch(h)
  BY <1>4, <1>5
<1> QED BY <1>6 DEF s

LEMMA FinishCalm ==
  ASSUME NEW h, NEW g \in Host, NEW m, NEW n \in Reqs, Calm(h, g, m)
  PROVE  Calm(h, FinishMrqNoWork(g, n), m)
<1> DEFINE detached == [g EXCEPT
             !.cmd = Drop(@, n), !.data_cmd = Drop(@, n),
             !.deferred_cmd = Drop(@, n), !.data = IF @ = n THEN None ELSE @,
             !.pending_reset = @ \/ NeedsReset(g, n)]
           s == SetMrqDone(detached, n)
           f == FinishMrqNoWork(g, n)
<1>1. detached \in Host
  BY DetachType
<1>2. /\ detached.work = g.work /\ detached.held = g.held
      /\ detached.mapped = g.mapped /\ detached.served = g.served
      /\ detached.deferred_cmd \in {None, g.deferred_cmd}
      /\ detached.cmdLine = g.cmdLine /\ detached.datLine = g.datLine
      /\ detached.data \in {None, g.data}
  BY DEF Host, Drop
<1>3. f = [s EXCEPT !.timers = @ \ {TimerOf(n)}]
  BY DEF FinishMrqNoWork
<1> HIDE DEF detached
<1>4. Calm(h, detached, m)
  BY <1>2 DEF Calm
<1>5. s \in Host /\ Watch(s) = Watch(detached)
  BY <1>1, SetMrqDoneType, SetMrqDoneWatch
<1> HIDE DEF s, f
<1>6. Watch(f) = Watch(s)
  BY <1>3, <1>5 DEF Watch, Host
<1>7. Calm(h, f, m)
  BY <1>4, <1>5, <1>6, WatchCalm
<1> QED BY <1>7 DEF f

\* Sending: the data of a command are mapped before it goes out.
LEMMA IssueCalm ==
  ASSUME Mapping = "sg", NEW h, NEW g \in Host, NEW c \in Cmds,
         Calm(h, g, Mrq(c)), Undeferred(h, g)
  PROVE  LET s == Issue(g, c)
         IN Calm(h, s, Mrq(c)) /\ Undeferred(h, s) /\ s.cmd = c
<1> DEFINE m == Mrq(c)
           w == Warn(g, g.data_cmd # None, "data_cmd")
           a == IF DataLine(c) THEN [w EXCEPT !.data_cmd = c] ELSE g
           v == Warn(a, a.data # None, "initialize_data")
           d == IF HasData(c) THEN PrepareData(a, m) ELSE a
           s == Issue(g, c)
<1>1. w \in Host /\ Watch(w) = Watch(g)
  <2>1. w \in Host
    BY WarnType DEF Warnings
  <2> QED BY <2>1, WarnWatch
<1> HIDE DEF w
<1>2. a \in Host /\ Watch(a) = Watch(g)
  BY <1>1 DEF Host, Watch, MaybeCmd
<1> HIDE DEF a
<1>3. v \in Host /\ Watch(v) = Watch(a)
  <2>1. v \in Host
    BY <1>2, WarnType DEF Warnings
  <2> QED BY <1>2, <2>1, WarnWatch
<1>4. PrepareData(a, m) = [v EXCEPT !.data = m, !.data_early = FALSE,
                                    !.mapped = @ \cup {m}]
  BY DEF PrepareData
<1> HIDE DEF v
<1>5. m \in Reqs
  BY CommandParts
<1>6. /\ d \in Host /\ d.work = g.work /\ d.held = g.held /\ d.served = g.served
      /\ d.deferred_cmd = g.deferred_cmd /\ d.datLine = g.datLine
      /\ IF HasData(c) THEN d.data = m /\ d.mapped = g.mapped \cup {m}
                       ELSE d.data = g.data /\ d.mapped = g.mapped
  <2>1. CASE HasData(c)
    <3>1. d = PrepareData(a, m) /\ d \in Host
      BY <1>2, <1>5, <2>1, PrepareDataType
    <3> HIDE DEF d
    <3> QED BY <1>2, <1>3, <1>4, <2>1, <3>1 DEF Watch, Host
  <2>2. CASE ~HasData(c)
    BY <1>2, <2>2 DEF Watch
  <2> QED BY <2>1, <2>2
<1>7. s = [d EXCEPT !.cmd = c, !.timers = @ \cup {TimerOf(m)}, !.cmdLine = c,
                    !.datLine = IF DataLine(c) THEN c ELSE @]
  BY DEF Issue, a, w
<1> HIDE DEF d, s
<1>8. /\ s.work = d.work /\ s.held = d.held /\ s.served = d.served
      /\ s.deferred_cmd = d.deferred_cmd /\ s.data = d.data /\ s.mapped = d.mapped
      /\ s.datLine = (IF DataLine(c) THEN c ELSE d.datLine)
      /\ s.cmd = c
  BY <1>6, <1>7 DEF Host
<1>9. DataLine(c) /\ m \in WithData => HasData(c)
  BY RequestAssumption DEF DataLine, HasData, Busy
<1>10. Calm(h, s, m) /\ Undeferred(h, s)
  <2>1. CASE HasData(c)
    BY <1>6, <1>8, <2>1 DEF Calm, Undeferred
  <2>2. CASE ~HasData(c)
    BY <1>6, <1>8, <1>9, <2>2 DEF Calm, Undeferred
  <2> QED BY <2>1, <2>2
<1> QED BY <1>8, <1>10 DEF s

LEMMA SendOrDeferCalm ==
  ASSUME Mapping = "sg", NEW h, NEW g \in Host, NEW c \in Cmds,
         Calm(h, g, Mrq(c)), Undeferred(h, g)
  PROVE  Calm(h, SendOrDefer(g, c), Mrq(c))
<1> DEFINE b == Begin(g, c)
           w == Warn(b, b.deferred_cmd # None, "deferred")
<1>1. b \in Host /\ Watch(b) = Watch(g)
  BY BeginWatch
<1>2. Calm(h, b, Mrq(c)) /\ Undeferred(h, b)
  BY <1>1, WatchCalm
<1>3. CASE Inhibited(g, c)
  <2>1. SendOrDefer(g, c) = [w EXCEPT !.deferred_cmd = c]
    BY <1>3 DEF SendOrDefer, SendCommand
  <2> HIDE DEF b
  <2>2. w \in Host /\ Watch(w) = Watch(b)
    <3>1. w \in Host
      BY <1>1, WarnType DEF Warnings
    <3> QED BY <1>1, <3>1, WarnWatch
  <2> HIDE DEF w
  <2>3. w.cmdLine # None \/ w.datLine # None \/ w.held # {}
    BY <1>1, <1>3, <2>2 DEF Inhibited, Watch
  <2>4. Calm(h, w, Mrq(c))
    BY <1>2, <2>2, WatchCalm
  <2> DEFINE f == SendOrDefer(g, c)
  <2> HIDE DEF f
  <2>5. /\ f.work = w.work /\ f.held = w.held /\ f.mapped = w.mapped
        /\ f.served = w.served /\ f.cmdLine = w.cmdLine
        /\ f.datLine = w.datLine /\ f.data = w.data
    BY <2>1, <2>2 DEF Host, f
  <2>6. Calm(h, f, Mrq(c))
    BY <2>3, <2>4, <2>5 DEF Calm
  <2> QED BY <2>6 DEF f
<1>4. CASE ~Inhibited(g, c)
  <2>1. SendOrDefer(g, c) = Issue(b, c)
    BY <1>4 DEF SendOrDefer, SendCommand
  <2> HIDE DEF b
  <2> QED BY <1>1, <1>2, <2>1, IssueCalm
<1> QED BY <1>3, <1>4

LEMMA FinishDataCalm ==
  ASSUME Mapping = "sg", NEW h, NEW g \in Host, NEW m \in Reqs, g.data = m,
         Calm(h, g, m), Undeferred(h, g)
  PROVE  Calm(h, FinishData(g, FALSE), m)
<1> DEFINE stop == <<m, "stop">>
           lines == IF "data" \notin g.error[m] THEN {}
                    ELSE IF g.cmd = None \/ g.cmd = g.data_cmd THEN Lines
                    ELSE {"dat"}
           e == [g EXCEPT !.data = None, !.data_cmd = None]
           r == DoReset(e, lines)
           k == [r EXCEPT !.cmd = None]
<1>1. FinishData(g, FALSE) = IF ~NeedsStop(g, m) THEN FinishMrqNoWork(r, m)
                             ELSE SendOrDefer(k, stop)
  BY DEF FinishData
<1>2. e \in Host /\ lines \in SUBSET Lines
  BY DEF Host, MaybeCmd, MaybeReq, Lines
<1>3. Calm(h, e, m) /\ Undeferred(h, e)
  <2>1. /\ e.work = g.work /\ e.held = g.held /\ e.mapped = g.mapped
        /\ e.served = g.served /\ e.deferred_cmd = g.deferred_cmd
        /\ e.cmdLine = g.cmdLine /\ e.datLine = g.datLine /\ e.data = None
    BY DEF Host
  <2> HIDE DEF e
  <2> QED BY <2>1 DEF Calm, Undeferred
<1> HIDE DEF e, lines
<1>4. r \in Host
  BY <1>2, DoResetType
<1>5. Calm(h, r, m) /\ Undeferred(h, r)
  <2>1. /\ r.work = e.work /\ r.held \subseteq e.held /\ r.mapped = e.mapped
        /\ r.served = e.served /\ r.deferred_cmd = e.deferred_cmd
        /\ r.datLine \in {None, e.datLine} /\ r.data = e.data
    BY <1>2 DEF DoReset, Host
  <2> HIDE DEF r
  <2> QED BY <1>3, <2>1 DEF Calm, Undeferred
<1> HIDE DEF r
<1>6. Calm(h, FinishMrqNoWork(r, m), m)
  BY <1>4, <1>5, FinishCalm
<1>7. k \in Host /\ Watch(k) = Watch(r)
  BY <1>4 DEF Host, Watch, MaybeCmd
<1> HIDE DEF k
<1>8. Calm(h, k, m) /\ Undeferred(h, k)
  BY <1>5, <1>7, WatchCalm
<1>9. stop \in Cmds /\ Mrq(stop) = m
  BY DEF Cmds, Parts, Mrq
<1> HIDE DEF stop
<1>10. Calm(h, SendOrDefer(k, stop), m)
  BY <1>7, <1>8, <1>9, SendOrDeferCalm
<1> QED BY <1>1, <1>6, <1>10

\* The functions of the handler, from a host whose request is m.
LEMMA FinishCommandCalm ==
  ASSUME Mapping = "sg", NEW h \in Host, NEW m \in Reqs, h.cmd \in Cmds,
         Mrq(h.cmd) = m, h.data \in {None, m}
  PROVE  Calm(h, FinishCommand(h), m)
<1> DEFINE c == h.cmd
           g == [h EXCEPT !.cmd = None]
           d == IF g.data # None /\ g.data_early THEN FinishData(g, FALSE) ELSE g
<1>1. g \in Host /\ Watch(g) = Watch(h) /\ g.data = h.data
  BY DEF Host, Watch, MaybeCmd
<1>2. FinishCommand(h) = IF Busy(c) /\ c = h.data_cmd THEN g
                         ELSE IF Part(c) = "sbc" THEN SendOrDefer(g, <<m, "cmd">>)
                         ELSE IF HasData(c) THEN d
                         ELSE FinishMrqNoWork(d, m)
  BY DEF FinishCommand
<1> HIDE DEF g
<1>3. Calm(h, g, m) /\ Undeferred(h, g)
  BY <1>1, WatchCalm, SelfCalm
<1>4. d \in Host /\ Calm(h, d, m)
  <2>1. CASE g.data # None /\ g.data_early
    <3>1. g.data = m
      BY <1>1, <2>1
    <3>2. Calm(h, FinishData(g, FALSE), m)
      BY <1>1, <1>3, <3>1, FinishDataCalm
    <3>3. FinishData(g, FALSE) \in Host
      BY <1>1, <2>1, FinishDataType
    <3> QED BY <2>1, <3>2, <3>3
  <2>2. CASE ~(g.data # None /\ g.data_early)
    BY <1>1, <1>3, <2>2
  <2> QED BY <2>1, <2>2
<1> HIDE DEF d
<1>5. Calm(h, FinishMrqNoWork(d, m), m)
  BY <1>4, FinishCalm
<1>6. <<m, "cmd">> \in Cmds /\ Mrq(<<m, "cmd">>) = m
  BY DEF Cmds, Parts, Mrq
<1>7. Calm(h, SendOrDefer(g, <<m, "cmd">>), m)
  BY <1>1, <1>3, <1>6, SendOrDeferCalm
<1> HIDE DEF c
<1> QED BY <1>2, <1>3, <1>4, <1>5, <1>7

LEMMA FailedCalm ==
  ASSUME NEW h \in Host, NEW m \in Reqs, NEW field \in ErrorFields
  PROVE  LET f == Fail(h, m, field)
         IN /\ f \in Host /\ Watch(f) = Watch(h)
            /\ Calm(h, f, m) /\ Undeferred(h, f)
            /\ Calm(h, FinishMrqNoWork(f, m), m)
<1> DEFINE f == Fail(h, m, field)
<1>1. f \in Host /\ Watch(f) = Watch(h)
  BY FailType, FailWatch
<1> HIDE DEF f
<1>2. Calm(h, f, m) /\ Undeferred(h, f)
  BY <1>1, WatchCalm, SelfCalm
<1>3. Calm(h, FinishMrqNoWork(f, m), m)
  BY <1>1, <1>2, FinishCalm
<1> QED BY <1>1, <1>2, <1>3 DEF f

LEMMA CmdIrqCalm ==
  ASSUME Mapping = "sg", NEW h \in Host, NEW m \in MaybeReq, OneRole(h, m),
         NEW bits
  PROVE  Calm(h, CmdIrq(h, bits), m)
<1>1. CASE h.cmd = None
  BY <1>1, SelfCalm DEF CmdIrq
<1>2. CASE h.cmd # None
  <2>1. /\ h.cmd \in Cmds /\ Mrq(h.cmd) = m /\ m \in Reqs /\ h.data \in {None, m}
        /\ Part(h.cmd) \in ErrorFields /\ "sbc" \in ErrorFields
    <3>1. h.cmd \in Cmds /\ Mrq(h.cmd) = m /\ m \in Reqs /\ h.data \in {None, m}
      BY <1>2, OwnerType DEF OneRole, Owns, Host
    <3> QED BY <3>1, CommandParts DEF ErrorFields, Parts
  <2> DEFINE p == Part(h.cmd)
             f == Fail(h, m, p)
             n == [f EXCEPT !.cmd = None]
             s == FinishMrqNoWork(Fail(h, m, "sbc"), m)
  <2>2. CmdIrq(h, bits) \in {h, n, FinishMrqNoWork(f, m), s, FinishCommand(h)}
    BY <2>1 DEF CmdIrq
  <2> HIDE DEF p
  <2>3. /\ f \in Host /\ Watch(f) = Watch(h)
        /\ Calm(h, FinishMrqNoWork(f, m), m) /\ Calm(h, s, m)
    BY <2>1, FailedCalm DEF p
  <2> HIDE DEF f, s
  <2>4. Watch(n) = Watch(f)
    BY <2>3 DEF Host, Watch
  <2> HIDE DEF n
  <2>5. Calm(h, n, m) /\ Calm(h, h, m)
    BY <2>3, <2>4, WatchCalm, SelfCalm
  <2>6. Calm(h, FinishCommand(h), m)
    BY <2>1, FinishCommandCalm
  <2> QED BY <2>2, <2>3, <2>5, <2>6
<1> QED BY <1>1, <1>2

LEMMA BusyIrqCalm ==
  ASSUME NEW h \in Host, NEW m \in MaybeReq, OneRole(h, m), NEW bits
  PROVE  Calm(h, BusyIrq(h, bits), m)
<1> DEFINE c == h.data_cmd
           g == [h EXCEPT !.data_cmd = None]
           p == Part(c)
           f == Fail(g, m, p)
<1>1. CASE c = None
  BY <1>1, SelfCalm DEF BusyIrq
<1>2. CASE c # None
  <2>1. c \in Cmds /\ Mrq(c) = m /\ m \in Reqs
    BY <1>2, OwnerType DEF OneRole, Owns, Host
  <2>2. p \in ErrorFields
    BY <2>1, CommandParts DEF ErrorFields
  <2>3. BusyIrq(h, bits) \in {h, g, FinishMrqNoWork(f, m), FinishMrqNoWork(g, m)}
    BY <2>1 DEF BusyIrq
  <2>4. g \in Host /\ Watch(g) = Watch(h)
    BY DEF Host, Watch, MaybeCmd
  <2> HIDE DEF g, p
  <2>5. f \in Host /\ Watch(f) = Watch(g)
    BY <2>1, <2>2, <2>4, FailType, FailWatch
  <2> HIDE DEF f
  <2>6. Calm(h, h, m) /\ Calm(h, g, m) /\ Calm(h, f, m)
    BY <2>4, <2>5, WatchCalm, SelfCalm
  <2>7. Calm(h, FinishMrqNoWork(f, m), m) /\ Calm(h, FinishMrqNoWork(g, m), m)
    BY <2>1, <2>4, <2>5, <2>6, FinishCalm
  <2> QED BY <2>3, <2>6, <2>7
<1> QED BY <1>1, <1>2

LEMMA DataIrqCalm ==
  ASSUME Mapping = "sg", NEW h \in Host, NEW m \in MaybeReq, OneRole(h, m),
         NEW bits
  PROVE  Calm(h, DataIrq(h, bits), m)
<1>1. CASE h.data = None
  BY <1>1, BusyIrqCalm DEF DataIrq
<1>2. CASE h.data # None
  <2> DEFINE f == Fail(h, m, "data")
             e == [h EXCEPT !.data_early = TRUE]
  <2>1. h.data = m /\ m \in Reqs
    BY <1>2 DEF OneRole, Owns, MaybeReq
  <2>2. DataIrq(h, bits) \in {h, e, FinishData(f, FALSE), FinishData(h, FALSE)}
    BY <1>2, <2>1 DEF DataIrq
  <2>3. /\ f \in Host /\ Watch(f) = Watch(h)
        /\ Calm(h, f, m) /\ Undeferred(h, f)
    BY <2>1, FailedCalm DEF ErrorFields
  <2> HIDE DEF f
  <2>4. f.data = m
    BY <2>1, <2>3 DEF Watch
  <2>5. Calm(h, FinishData(f, FALSE), m)
    BY <2>1, <2>3, <2>4, FinishDataCalm
  <2>6. Calm(h, FinishData(h, FALSE), m)
    BY <2>1, SelfCalm, FinishDataCalm
  <2>7. Watch(e) = Watch(h)
    BY DEF Host, Watch
  <2> HIDE DEF e
  <2>8. Calm(h, e, m) /\ Calm(h, h, m)
    BY <2>7, WatchCalm, SelfCalm
  <2> QED BY <2>2, <2>5, <2>6, <2>8
<1> QED BY <1>1, <1>2

-----------------------------------------------------------------------------
(* The thread that unmaps *)

Out == {"unmap", "relock"}
Held == \E t \in Executors : pc[t] \in Out

\* While a thread has dropped the lock nothing runs, no other thread is on its
\* way to the controller, and the request stays in its slot.
LEMMA HeldParked ==
  ASSUME IInv, Once, Unmapping, Held
  PROVE  /\ Mapping = "sg" /\ Parked(host) /\ Done(host) # {}
         /\ host.deferred_cmd = None /\ Current \in host.mapped
         /\ sem_ack = 0 /\ pc["caller"] = "wait" /\ pc["irq_thread"] \notin Asleep
<1>1. Mapping = "sg" /\ Done(host) # {} /\ Current \in host.mapped
  BY DEF Held, Unmapping, Out
<1>2. OneRole(host, Current) /\ ~Free(host)
  BY <1>1 DEF Once, Free
<1>3. Parked(host) /\ host.deferred_cmd = None
  BY <1>1, <1>2 DEF OneRole
<1> QED BY <1>1, <1>2, <1>3, Busily, Awake

\* A step that takes no thread in or out, and leaves the request of those who
\* are out.
LEMMA UnmappingStay ==
  ASSUME Unmapping,
         \A t \in Executors : loc'[t].mrq = loc[t].mrq /\ (pc'[t] \in Out <=> pc[t] \in Out),
         Held => /\ \A t \in Executors : loc'[t].slot = loc[t].slot \/ pc[t] \notin Out
                 /\ Current' = Current /\ Done(host) \subseteq Done(host')
                 /\ Current \in host.mapped => Current \in host'.mapped
  PROVE  Unmapping'
BY DEF Unmapping, Held, Out

\* A step of the interrupt handler, a timer or the controller.
LEMMA UnmappingAside ==
  ASSUME Unmapping, UNCHANGED <<pc, loc>>,
         Held => Done(host) \subseteq Done(host') /\ host'.mapped = host.mapped
  PROVE  Unmapping'
BY UnmappingStay DEF Current

\* A step of one thread, not one of those that are out.
LEMMA UnmappingGoto ==
  ASSUME IInv, Unmapping, NEW t \in Threads, NEW label \in Labels \ Out,
         Goto(t, label), pc[t] \notin Out,
         NEW l, Keep(t, l), t # "caller" => l.mrq = None,
         Held => /\ t = "caller" => l.mrq = Current
                 /\ Done(host) \subseteq Done(host') /\ host'.mapped = host.mapped
  PROVE  Unmapping'
<1>1. /\ pc'[t] = label /\ \A u \in Threads \ {t} : pc'[u] = pc[u]
      /\ loc'[t] = l /\ \A u \in Threads \ {t} : loc'[u] = loc[u]
  BY DEF Goto, Keep, IInv, TypeOK
<1>2. t = "caller" \/ t \in Executors
  BY DEF Threads
<1>3. Executors \subseteq Threads /\ "caller" \in Threads /\ "caller" \notin Executors
  BY DEF Threads, Executors
<1>4. t # "caller" => loc[t].mrq = None
  BY <1>2 DEF Unmapping, Out
<1>5. Held => Current' = Current
  BY <1>1, <1>3 DEF Current
<1>6. \A u \in Executors : /\ loc'[u].mrq = loc[u].mrq /\ (pc'[u] \in Out <=> pc[u] \in Out)
                           /\ loc'[u].slot = loc[u].slot \/ pc[u] \notin Out
  BY <1>1, <1>3, <1>4
<1> QED BY <1>5, <1>6, UnmappingStay

LEMMA KeepLocals ==
  ASSUME IInv, NEW t \in Threads, UNCHANGED loc
  PROVE  Keep(t, loc[t]) /\ (t # "caller" /\ Unmapping /\ pc[t] \notin Out =>
                               loc[t].mrq = None)
<1>1. t # "caller" => t \in Executors
  BY DEF Threads
<1> QED BY <1>1 DEF Keep, IInv, TypeOK, Unmapping, Out

LEMMA ContinueUnmapping ==
  ASSUME IInv, Unmapping, NEW t \in Threads, NEW isr, pc[t] \notin Out,
         Continue(t, isr),
         Held => Done(host) \subseteq Done(host') /\ host'.mapped = host.mapped
  PROVE  Unmapping'
<1> DEFINE l == [loc[t] EXCEPT !.cmd = None, !.tries = 0, !.there = FALSE,
                               !.isr = isr]
           label == IF t = "caller" THEN "wait" ELSE IF isr THEN "event" ELSE "idle"
<1>1. Goto(t, label) /\ Keep(t, l)
  BY DEF Continue
<1>2. label \in Labels \ Out
  BY DEF Labels, Out
<1>3. loc[t] \in Locals
  BY DEF IInv, TypeOK
<1>4. l.mrq = loc[t].mrq
  BY <1>3 DEF Locals
<1>5. t # "caller" => t \in Executors
  BY DEF Threads
<1>6. t # "caller" => l.mrq = None
  BY <1>4, <1>5 DEF Unmapping, Out
<1>7. t = "caller" => l.mrq = Current
  BY <1>4 DEF Current
<1> HIDE DEF l, label
<1> QED BY <1>1, <1>2, <1>6, <1>7, UnmappingGoto

LEMMA TryUnmapping ==
  ASSUME IInv, Unmapping, NEW t \in Threads, NEW h, NEW c, NEW tries, NEW isr,
         pc[t] \notin Out, ~Held, Try(t, h, c, tries, isr)
  PROVE  Unmapping'
<1>1. CASE Continue(t, isr)
  BY <1>1, ContinueUnmapping
<1>2. CASE Backoff(t, h, c, tries, isr)
  <2> DEFINE l == [loc[t] EXCEPT !.cmd = c, !.tries = tries - 1, !.there = FALSE,
                                 !.isr = isr]
  <2>1. Goto(t, "asleep") /\ Keep(t, l) /\ "asleep" \in Labels \ Out
    BY <1>2 DEF Backoff, Labels, Out
  <2>2. loc[t] \in Locals
    BY DEF IInv, TypeOK
  <2>3. l.mrq = loc[t].mrq
    BY <2>2 DEF Locals
  <2>4. t # "caller" => t \in Executors
    BY DEF Threads
  <2>5. t # "caller" => l.mrq = None
    BY <2>3, <2>4 DEF Unmapping, Out
  <2> HIDE DEF l
  <2> QED BY <2>1, <2>5, UnmappingGoto
<1> QED BY <1>1, <1>2 DEF Try, Sent, GaveUp

LEMMA CallerUnmapping ==
  ASSUME IInv, Once, Unmapping, Caller
  PROVE  Unmapping'
<1>1. "caller" \in Threads /\ loc["caller"] \in Locals /\ pc["caller"] \notin Out
      /\ \A u \in Executors : u \in Threads \ {"caller"}
  <2>1. pc["caller"] \notin Out
    BY DEF Caller, Submit, RequestPresent, Request, Return, Out
  <2> QED BY <2>1 DEF IInv, TypeOK, Threads, Executors
<1>2. ~Held
  <2> SUFFICES ASSUME Held PROVE FALSE
    OBVIOUS
  <2>1. pc["caller"] = "wait" /\ sem_ack = 0
    BY HeldParked
  <2> QED BY <2>1 DEF Caller, Submit, RequestPresent, Request, Return
<1>3. CASE Request
  <2>1. \/ Continue("caller", FALSE)
        \/ Try("caller", host, FirstCmd(loc["caller"].mrq), MaxTries, FALSE)
    BY <1>3 DEF Request
  <2> QED BY <1>1, <1>2, <2>1, ContinueUnmapping, TryUnmapping
<1>4. CASE ~Request
  <2>1. PICK label \in {"enter", "wait", "lock", "idle"} : Goto("caller", label)
    BY <1>4 DEF Caller, Submit, RequestPresent, Return
  <2>2. PICK l : Keep("caller", l)
    BY <1>4 DEF Caller, Submit, RequestPresent, Return
  <2>3. label \in Labels \ Out
    BY DEF Labels, Out
  <2> QED BY <1>1, <1>2, <2>1, <2>2, <2>3, UnmappingGoto
<1> QED BY <1>3, <1>4

LEMMA SleeperUnmapping ==
  ASSUME IInv, Once, Unmapping, NEW t \in Sleepers, RetryPoll(t) \/ Retry(t)
  PROVE  Unmapping'
<1>1. t \in Threads /\ pc[t] \in Asleep /\ pc[t] \notin Out /\ loc[t] \in Locals
      /\ t \in {"caller", "irq_thread"}
  BY DEF Sleepers, Threads, Executors, RetryPoll, Retry, Asleep, Out, IInv, TypeOK
<1>2. ~Held
  <2> SUFFICES ASSUME Held PROVE FALSE
    OBVIOUS
  <2>1. pc["caller"] = "wait" /\ pc["irq_thread"] \notin Asleep
    BY HeldParked
  <2> QED BY <1>1, <2>1 DEF Asleep
<1>3. CASE RetryPoll(t)
  <2> DEFINE l == [loc[t] EXCEPT !.there = present]
  <2>1. Goto(t, "retry") /\ Keep(t, l) /\ "retry" \in Labels \ Out
    BY <1>3 DEF RetryPoll, Labels, Out
  <2>2. l.mrq = loc[t].mrq
    BY <1>1 DEF Locals
  <2>3. t # "caller" => l.mrq = None
    BY <1>1, <2>2 DEF Unmapping, Out, Executors
  <2> HIDE DEF l
  <2> QED BY <1>1, <1>2, <2>1, <2>3, UnmappingGoto
<1>4. CASE Retry(t)
  <2>1. \/ Continue(t, loc[t].isr)
        \/ Try(t, host, loc[t].cmd, loc[t].tries, loc[t].isr)
    BY <1>4 DEF Retry
  <2> QED BY <1>1, <1>2, <2>1, ContinueUnmapping, TryUnmapping
<1> QED BY <1>3, <1>4

\* The handler leaves a mapped request to the thread that has it.
LEMMA IrqUnmapping ==
  ASSUME IInv, Once, Unmapping, Irq
  PROVE  Unmapping'
<1>0. host \in Host /\ OneRole(host, Current) /\ UNCHANGED <<pc, loc>>
  BY DEF IInv, TypeOK, Once, Irq, IrqEnter, IrqCmd, IrqData, IrqAgain, IrqExit
<1> SUFFICES ASSUME Held
             PROVE  Done(host) \subseteq Done(host') /\ host'.mapped = host.mapped
  BY <1>0, UnmappingAside
<1>1. Parked(host) /\ Current \in host.mapped
  BY HeldParked
<1>2. CASE IrqEnter \/ IrqAgain
  <2>1. host' = [host EXCEPT !.status = {},
                             !.thread_isr = @ \/ "CARD" \in Bits(host.status)]
    BY <1>2 DEF IrqEnter, IrqAgain, TakeStatus
  <2> QED BY <1>0, <2>1 DEF Host, Done
<1>3. CASE IrqCmd \/ IrqData
  BY <1>1, <1>3, NothingRuns DEF IrqCmd, IrqData
<1>4. CASE IrqExit
  <2> DEFINE now == {i \in Done(host) : ~DeferDone(host, host.mrqs_done[i])}
  <2>1. \A i \in Done(host) : host.mrqs_done[i] = Current
    BY <1>0 DEF OneRole, Owns, Done
  <2>2. now = {}
    BY <1>1, <2>1 DEF DeferDone
  <2>3. host' = [host EXCEPT !.mrqs_done =
                   [i \in Slots |-> IF i \in now THEN None ELSE @[i]]]
    BY <1>4 DEF IrqExit
  <2> HIDE DEF now
  <2>4. host'.mapped = host.mapped /\ \A i \in Slots : host'.mrqs_done[i] = host.mrqs_done[i]
    BY <1>0, <2>2, <2>3 DEF Host
  <2> QED BY <2>4 DEF Done
<1> QED BY <1>2, <1>3, <1>4 DEF Irq

LEMMA IrqThreadUnmapping ==
  ASSUME IInv, Once, Unmapping, IrqThread
  PROVE  Unmapping'
<1> DEFINE t == "irq_thread"
<1>0. /\ host \in Host /\ t \in Threads /\ loc[t] \in Locals /\ t \in Executors
      /\ pc[t] \notin Out
  BY DEF IInv, TypeOK, Threads, Executors, IrqThread, IrqThreadStart, Deferred,
         CardEventPresent, CardEventLocked, Out
<1>1. loc[t].mrq = None
  BY <1>0 DEF Unmapping, Out
<1>2. CASE IrqThreadStart
  <2>1. Keep(t, loc[t]) /\ Goto(t, "done") /\ "done" \in Labels \ Out /\ host' = host
    BY <1>0, <1>2, KeepLocals DEF IrqThreadStart, Labels, Out
  <2> QED BY <1>0, <1>1, <2>1, UnmappingGoto
<1>3. CASE Deferred
  <2> DEFINE isr == host.thread_isr
             h == [host EXCEPT !.thread_isr = FALSE]
  <2>1. CASE host.deferred_cmd = None
    <3>1. Continue(t, isr) /\ host' = h
      BY <1>3, <2>1 DEF Deferred
    <3>2. Done(host) \subseteq Done(host') /\ host'.mapped = host.mapped
      BY <1>0, <3>1 DEF Host, Done
    <3> HIDE DEF isr, h
    <3> QED BY <1>0, <3>1, <3>2, ContinueUnmapping
  <2>2. CASE host.deferred_cmd # None
    <3>1. Try(t, h, host.deferred_cmd, MaxTries, isr)
      BY <1>3, <2>2 DEF Deferred
    <3>2. ~Held
      BY <2>2, HeldParked
    <3> HIDE DEF isr, h
    <3> QED BY <1>0, <3>1, <3>2, TryUnmapping
  <2> QED BY <2>1, <2>2
<1>4. CASE CardEventPresent
  <2> DEFINE l == [loc[t] EXCEPT !.there = present, !.isr = FALSE]
  <2>1. Goto(t, "removed") /\ Keep(t, l) /\ "removed" \in Labels \ Out /\ host' = host
    BY <1>4 DEF CardEventPresent, Labels, Out
  <2>2. l.mrq = None
    BY <1>0, <1>1 DEF Locals
  <2> HIDE DEF l
  <2> QED BY <1>0, <2>1, <2>2, UnmappingGoto
<1>5. CASE CardEventLocked
  <2>1. Goto(t, "idle") /\ Keep(t, NoLocals) /\ "idle" \in Labels \ Out
    BY <1>5 DEF CardEventLocked, Labels, Out
  <2>2. NoLocals.mrq = None
    BY DEF NoLocals
  <2>3. Held => host' = host
    BY <1>5, HeldParked, NothingRuns DEF CardEventLocked
  <2> QED BY <1>0, <2>1, <2>2, <2>3, UnmappingGoto
<1> QED BY <1>2, <1>3, <1>4, <1>5 DEF IrqThread

\* Nobody takes the request from under a thread that has dropped the lock.
LEMMA ExecutorUnmapping ==
  ASSUME IInv, Once, Unmapping, Quiet, NEW t \in Executors, Executor(t)
  PROVE  Unmapping'
<1>0. /\ host \in Host /\ t \in Threads /\ loc[t] \in Locals
      /\ OneRole(host, Current) /\ t # "caller"
      /\ pc \in [Threads -> Labels] /\ loc \in [Threads -> Locals]
  BY DEF IInv, TypeOK, Threads, Executors, Once
<1>1. Current' = Current
  BY ExecutorCurrent
<1>2. CASE RequestDone(t) /\ Done(host) = {}
  <2>1. \E label \in {"idle", "deferred"} : Goto(t, label)
    BY <1>2 DEF RequestDone, LeaveLoop
  <2>2. PICK label \in {"idle", "deferred"} : Goto(t, label)
    BY <2>1
  <2>3. pc[t] \notin Out /\ label \in Labels \ Out /\ host' = host /\ UNCHANGED loc
    BY <1>2 DEF RequestDone, Labels, Out
  <2>4. Keep(t, loc[t]) /\ loc[t].mrq = None
    BY <1>0, <2>3, KeepLocals
  <2> QED BY <1>0, <2>2, <2>3, <2>4, UnmappingGoto
<1>3. ASSUME NEW i \in Done(host), NEW l, Keep(t, l), l.mrq = None,
             Finish(t, [host EXCEPT !.mapped = @ \ {Current}], i, Current),
             \A u \in Executors \ {t} : pc[u] \notin Out
      PROVE  Unmapping'
  <2> DEFINE h == [host EXCEPT !.mapped = @ \ {Current}]
  <2>1. Finish(t, h, i, Current)
    BY <1>3
  <2>2. \E label \in {"done", "idle", "deferred"} : Goto(t, label)
    BY <2>1 DEF Finish, LeaveLoop
  <2>3. pc'[t] \notin Out /\ \A u \in Threads \ {t} : pc'[u] = pc[u]
    BY <1>0, <2>2 DEF Goto, Out
  <2>4. loc'[t].mrq = None /\ \A u \in Threads \ {t} : loc'[u] = loc[u]
    BY <1>0, <1>3 DEF Keep
  <2> QED BY <1>3, <2>3, <2>4 DEF Unmapping, Out, Threads
<1>4. CASE RequestDone(t) /\ Done(host) # {}
  <2> DEFINE i == FirstSlot(Done(host))
             m == host.mrqs_done[i]
  <2>1. i \in Done(host)
    BY <1>4, FirstSlotType DEF Done
  <2>2. m = Current
    BY <1>0, <2>1 DEF OneRole, Owns, Done
  <2>3. pc[t] = "done" /\ loc[t].mrq = None
    BY <1>4 DEF RequestDone, Unmapping
  <2>4. CASE /\ m \in host.mapped /\ Mapping = "sg"
             /\ Keep(t, [loc[t] EXCEPT !.mrq = m, !.slot = i])
             /\ Goto(t, "unmap") /\ UNCHANGED host
    <3>1. pc'[t] = "unmap" /\ \A u \in Threads \ {t} : pc'[u] = pc[u]
      BY <1>0, <2>4 DEF Goto
    <3>2. /\ loc'[t].mrq = m /\ loc'[t].slot = i
          /\ \A u \in Threads \ {t} : loc'[u] = loc[u]
      <4>1. loc' = [loc EXCEPT ![t] = [loc[t] EXCEPT !.mrq = m, !.slot = i]]
        BY <2>4 DEF Keep
      <4> HIDE DEF m, i
      <4> QED BY <1>0, <4>1 DEF Locals
    <3> HIDE DEF m, i
    <3> QED BY <1>0, <1>1, <2>1, <2>2, <2>4, <3>1, <3>2 DEF Unmapping, Threads, Out
  <2>5. CASE /\ m \notin host.mapped \/ Mapping # "sg"
             /\ Finish(t, [host EXCEPT !.mapped = @ \ {m}], i, m) /\ UNCHANGED loc
    <3>1. \A u \in Executors : pc[u] \notin Out
      BY <2>2, <2>5 DEF Unmapping, Out
    <3>2. Keep(t, loc[t])
      BY <1>0, <2>5, KeepLocals
    <3> HIDE DEF m, i
    <3> QED BY <1>3, <2>1, <2>2, <2>3, <2>5, <3>1, <3>2
  <2> QED BY <1>4, <2>4, <2>5 DEF RequestDone
<1>5. CASE Unmap(t)
  <2>1. /\ pc[t] = "unmap" /\ pc'[t] = "relock"
        /\ \A u \in Threads \ {t} : pc'[u] = pc[u]
    BY <1>0, <1>5 DEF Unmap, Goto
  <2>2. UNCHANGED <<host, loc>>
    BY <1>5 DEF Unmap
  <2> QED BY <1>0, <1>1, <2>1, <2>2 DEF Unmapping, Threads, Out
<1>6. CASE Relock(t)
  <2> DEFINE l == [loc[t] EXCEPT !.mrq = None, !.slot = 0]
  <2>1. pc[t] = "relock" /\ loc[t].mrq = Current /\ loc[t].slot \in Done(host)
        /\ Mapping = "sg"
    BY <1>6 DEF Relock, Unmapping
  <2>2. pc["worker"] = "idle"
    BY <2>1 DEF Quiet
  <2>3. \A u \in Executors \ {t} : pc[u] \notin Out
    BY <2>1, <2>2 DEF Executors, Out
  <2>4. Keep(t, l) /\ l.mrq = None
    BY <1>0, <1>6 DEF Relock, Locals
  <2>5. Finish(t, [host EXCEPT !.mapped = @ \ {Current}], loc[t].slot, Current)
    BY <1>6, <2>1 DEF Relock
  <2> HIDE DEF l
  <2> QED BY <1>3, <2>1, <2>3, <2>4, <2>5
<1> QED BY <1>2, <1>4, <1>5, <1>6 DEF Executor

\* The controller does not touch the requests of the driver.
LEMMA HardwareSame ==
  ASSUME host \in Host, Hardware \/ HwCard
  PROVE  /\ Roles(host') = Roles(host) /\ host'.mapped = host.mapped
         /\ host'.work = host.work
         /\ UNCHANGED <<irq, pc, loc, firing, wake, sem_ack, buf>>
<1>1. CASE HwResponse
  BY <1>1 DEF HwResponse, HwUnchanged, Roles, Host
<1>2. CASE HwCmdError
  BY <1>2 DEF HwCmdError, HwUnchanged, Roles, Host
<1>3. CASE HwDataEnd
  BY <1>3 DEF HwDataEnd, HwUnchanged, Roles, Host
<1>4. CASE HwDataError
  BY <1>4 DEF HwDataError, HwUnchanged, Roles, Host
<1>5. CASE \E l \in Lines : HwRelease(l)
  BY <1>5 DEF HwRelease, HwUnchanged, Roles, Host
<1>6. CASE HwCard
  BY <1>6 DEF HwCard, HwUnchanged, Roles, Host
<1> QED BY <1>1, <1>2, <1>3, <1>4, <1>5, <1>6 DEF Hardware

LEMMA OtherUnmapping ==
  ASSUME IInv, Once, Unmapping,
         \/ WorkerStart
         \/ \E x \in Timers : TimerExpire(x) \/ TimerRun(x)
         \/ Hardware
         \/ HwCard
  PROVE  Unmapping'
<1>0. host \in Host
  BY DEF IInv, TypeOK
<1>1. CASE WorkerStart
  <2>1. "worker" \in Threads /\ pc["worker"] \notin Out /\ UNCHANGED loc
    BY <1>1 DEF WorkerStart, Threads, Executors, Out
  <2>2. Keep("worker", loc["worker"]) /\ loc["worker"].mrq = None
    BY <2>1, KeepLocals
  <2>3. Goto("worker", "done") /\ "done" \in Labels \ Out
    BY <1>1 DEF WorkerStart, Labels, Out
  <2>4. Done(host) \subseteq Done(host') /\ host'.mapped = host.mapped
    BY <1>0, <1>1 DEF WorkerStart, Host, Done
  <2> QED BY <2>1, <2>2, <2>3, <2>4, UnmappingGoto
<1>2. ASSUME NEW x \in Timers, TimerExpire(x)
      PROVE  Unmapping'
  <2>1. Done(host) \subseteq Done(host') /\ host'.mapped = host.mapped
        /\ UNCHANGED <<pc, loc>>
    BY <1>0, <1>2 DEF TimerExpire, Host, Done
  <2> QED BY <2>1, UnmappingAside
<1>3. ASSUME NEW x \in Timers, TimerRun(x)
      PROVE  Unmapping'
  <2>1. Held => host' = host
    BY <1>3, HeldParked, NothingRuns DEF TimerRun
  <2> QED BY <1>3, <2>1, UnmappingAside DEF TimerRun
<1>4. CASE Hardware \/ HwCard
  BY <1>0, <1>4, HardwareSame, UnmappingAside DEF Roles, Done
<1> QED BY <1>1, <1>2, <1>3, <1>4

LEMMA NextUnmapping ==
  IInv /\ Once /\ Unmapping /\ Quiet /\ [Next]_vars => Unmapping'
<1> SUFFICES ASSUME IInv, Once, Unmapping, Quiet, [Next]_vars PROVE Unmapping'
  OBVIOUS
<1>1. CASE UNCHANGED vars
  BY <1>1, UnmappingAside DEF vars
<1>2. CASE Next
  BY <1>2, CallerUnmapping, SleeperUnmapping, IrqUnmapping, IrqThreadUnmapping,
     ExecutorUnmapping, OtherUnmapping DEF Next
<1> QED BY <1>1, <1>2

-----------------------------------------------------------------------------
(* Nothing but the interrupt handler finishes a request, and no command waits *)

LEMMA InitQuiet == Init => Quiet
<1> SUFFICES ASSUME Init PROVE Quiet
  OBVIOUS
<1>1. host = InitHost /\ firing = {} /\ present /\ \A t \in Threads : pc[t] = "idle"
  BY DEF Init
<1>2. ~host.work /\ host.held = {} /\ host.deferred_cmd = None
  BY <1>1 DEF InitHost
<1> QED BY <1>1, <1>2 DEF Quiet, Threads, Executors, Asleep

\* A deferred command would have found its lines free.
LEMMA NotDeferred ==
  ASSUME NEW h, NEW m, OneRole(h, m), Books(h, m), h.deferred_cmd # None
  PROVE  Silent(h)
BY DEF OneRole, Books, Runs, Finished, Ready

QuietHost(h) == ~h.work /\ h.held = {} /\ h.deferred_cmd = None

LEMMA CalmQuiet ==
  ASSUME Mapping = "sg", Quiet, Once', Ledger', NEW m, Calm(host, host', m)
  PROVE  QuietHost(host')
<1>1. ~host'.work /\ host'.held = {} /\ host.deferred_cmd = None
  BY DEF Quiet, Calm
<1>2. host'.deferred_cmd # None => host'.cmdLine # None \/ host'.datLine # None
  BY <1>1 DEF Calm
<1>3. host'.deferred_cmd # None => Silent(host')
  BY NotDeferred DEF Once, Ledger, Account, Free
<1> QED BY <1>1, <1>2, <1>3 DEF Silent, QuietHost

\* A step of others than the threads.
LEMMA QuietAside ==
  ASSUME Mapping = "sg", Quiet, QuietHost(host'),
         UNCHANGED <<pc, loc, firing, present>>
  PROVE  Quiet'
BY DEF Quiet, QuietHost

\* A step of one thread.
LEMMA QuietGoto ==
  ASSUME IInv, Mapping = "sg", Quiet, QuietHost(host'), UNCHANGED <<firing, present>>,
         NEW t \in Threads \ {"worker"}, NEW label, Goto(t, label),
         label \notin Asleep, NEW l, Keep(t, l), label \in {"lock", "removed"} => l.there
  PROVE  Quiet'
<1>1. t \in {"caller", "irq_thread"} /\ t \in Threads
      /\ "caller" \in Threads /\ "worker" \in Threads /\ "irq_thread" \in Threads
  BY DEF Threads, Executors
<1>2. /\ pc'[t] = label /\ \A u \in Threads \ {t} : pc'[u] = pc[u]
      /\ loc'[t] = l /\ \A u \in Threads \ {t} : loc'[u] = loc[u]
  BY <1>1 DEF Goto, Keep, IInv, TypeOK
<1> QED BY <1>1, <1>2 DEF Quiet, QuietHost

LEMMA QuietNow ==
  ASSUME Mapping = "sg", Quiet
  PROVE  QuietHost(host)
BY DEF Quiet, QuietHost

\* The caller finds the lines free: it sends its command, or maps its data first.
LEMMA RequestCalm ==
  ASSUME Mapping = "sg", IInv, Once, Ledger, Quiet, Request
  PROVE  /\ Calm(host, host', Current) /\ QuietHost(host')
         /\ Goto("caller", "wait") /\ \E l : Keep("caller", l)
         /\ Current' = Current
<1> DEFINE m == loc["caller"].mrq
           c == FirstCmd(m)
           b == Begin(host, c)
           s == Issue(b, c)
<1>0. /\ host \in Host /\ loc["caller"] \in Locals /\ QuietHost(host)
      /\ "caller" \in Threads /\ loc \in [Threads -> Locals]
  BY QuietNow DEF IInv, TypeOK, Threads
<1>1. pc["caller"] = "lock" /\ loc["caller"].there
  BY DEF Request, Quiet
<1>2. Try("caller", host, c, MaxTries, FALSE)
  BY <1>1 DEF Request
<1>3. Free(host) /\ m = Current /\ m # None
  BY <1>1 DEF Once, Current
<1>4. Silent(host) /\ host.held = {}
  BY <1>0, <1>3 DEF Ledger, Account, AtRest, QuietHost
<1>5. ~Inhibited(host, c)
  BY <1>4 DEF Inhibited, Silent
<1>6. Sent("caller", host, c, FALSE)
  BY <1>2, <1>5 DEF Try, GaveUp, Backoff
<1>7. c \in Cmds /\ m \in Reqs /\ Mrq(c) = m
  BY <1>0, <1>3 DEF Locals, MaybeReq, FirstCmd, Cmds, Parts, Mrq
<1> HIDE DEF c
<1>8. b \in Host /\ Watch(b) = Watch(host)
  BY <1>0, <1>7, BeginWatch
<1>9. SendCommand(host, c) = s
  BY <1>5 DEF SendCommand
<1> HIDE DEF b
<1>10. Calm(host, b, Mrq(c)) /\ Undeferred(host, b)
  BY <1>8, WatchCalm, SelfCalm
<1>11. Calm(host, s, Mrq(c)) /\ Undeferred(host, s) /\ s \in Host
  BY <1>7, <1>8, <1>10, IssueCalm, IssueType
<1> HIDE DEF s
<1>12. QuietHost(s)
  BY <1>0, <1>11 DEF Calm, Undeferred, QuietHost
<1>13. host' = [s EXCEPT !.deferred_cmd = IF @ = c THEN None ELSE @]
  BY <1>6, <1>9 DEF Sent
<1>14. Watch(host') = Watch(s)
  BY <1>11, <1>12, <1>13 DEF QuietHost, Watch, Host
<1>15. Calm(host, host', Current) /\ QuietHost(host')
  <2>1. Calm(host, s, Current)
    BY <1>3, <1>7, <1>11
  <2> QED BY <1>12, <1>14, <2>1, WatchCalm DEF Watch, QuietHost
<1>16. Goto("caller", "wait") /\ \E l : Keep("caller", l)
  BY <1>6 DEF Sent, Continue
<1>17. Current' = Current
  <2>1. loc' = [loc EXCEPT !["caller"] = [loc["caller"] EXCEPT
                  !.cmd = None, !.tries = 0, !.there = FALSE, !.isr = FALSE]]
    BY <1>6 DEF Sent, Continue, Keep
  <2> QED BY <1>0, <2>1 DEF Current, Locals
<1> QED BY <1>15, <1>16, <1>17

LEMMA CallerQuiet ==
  ASSUME InTime, Mapping = "sg", IInv, Once, Ledger, Quiet, Caller
  PROVE  Quiet'
<1>0. /\ host \in Host /\ loc["caller"] \in Locals /\ "caller" \in Threads \ {"worker"}
      /\ UNCHANGED <<firing, present>> /\ QuietHost(host)
  BY QuietNow DEF IInv, TypeOK, Threads, Executors, Caller, Submit, RequestPresent,
     Request, Return
<1>1. ASSUME NEW m \in Reqs, Submit(m)
      PROVE  Quiet'
  <2>1. PICK label \in {"enter", "wait"} : Goto("caller", label)
    BY <1>1 DEF Submit
  <2>2. PICK l : Keep("caller", l)
    BY <1>1 DEF Submit
  <2>3. host' = host \/ host' = Fail(host, m, "data")
    BY <1>1 DEF Submit
  <2>4. QuietHost(host')
    BY <1>0, <2>3, FailWatch DEF QuietHost, Watch
  <2> QED BY <1>0, <2>1, <2>2, <2>4, QuietGoto DEF Asleep
<1>2. CASE RequestPresent
  <2> DEFINE l == [loc["caller"] EXCEPT !.there = present]
  <2>1. Keep("caller", l) /\ Goto("caller", "lock") /\ host' = host
    BY <1>2 DEF RequestPresent
  <2>2. l.there
    BY <1>0 DEF Quiet, Locals
  <2> HIDE DEF l
  <2> QED BY <1>0, <2>1, <2>2, QuietGoto DEF Asleep
<1>3. CASE Request
  <2>1. QuietHost(host') /\ Goto("caller", "wait") /\ \E l : Keep("caller", l)
    BY <1>3, RequestCalm
  <2> QED BY <1>0, <2>1, QuietGoto DEF Asleep
<1>4. CASE Return
  <2>1. Keep("caller", NoLocals) /\ Goto("caller", "idle")
    BY <1>4 DEF Return
  <2>2. QuietHost(host')
    BY <1>0, <1>4 DEF Return, QuietHost, Host
  <2> QED BY <1>0, <2>1, <2>2, QuietGoto DEF Asleep
<1> QED BY <1>1, <1>2, <1>3, <1>4 DEF Caller

LEMMA IrqQuiet ==
  ASSUME Mapping = "sg", IInv, Once, Once', Ledger', Quiet, Irq
  PROVE  Quiet'
<1>0. /\ host \in Host /\ Current \in MaybeReq /\ OneRole(host, Current)
      /\ UNCHANGED <<pc, loc, firing, present>> /\ QuietHost(host)
  BY QuietNow DEF IInv, TypeOK, Once, Current, Locals, Threads, Irq, IrqEnter,
     IrqCmd, IrqData, IrqAgain, IrqExit
<1> SUFFICES QuietHost(host')
  BY <1>0, QuietAside
<1>1. CASE IrqEnter \/ IrqAgain
  <2>1. host' = [host EXCEPT !.status = {},
                             !.thread_isr = @ \/ "CARD" \in Bits(host.status)]
    BY <1>1 DEF IrqEnter, IrqAgain, TakeStatus
  <2> QED BY <1>0, <2>1 DEF QuietHost, Host
<1>2. CASE IrqCmd
  <2>1. host' = host \/ \E bits : host' = CmdIrq(host, bits)
    BY <1>2 DEF IrqCmd
  <2>2. host' = host \/ Calm(host, host', Current)
    BY <1>0, <2>1, CmdIrqCalm
  <2> QED BY <1>0, <2>2, CalmQuiet
<1>3. CASE IrqData
  <2>1. host' = host \/ \E bits : host' = DataIrq(host, bits)
    BY <1>3 DEF IrqData
  <2>2. host' = host \/ Calm(host, host', Current)
    BY <1>0, <2>1, DataIrqCalm
  <2> QED BY <1>0, <2>2, CalmQuiet
<1>4. CASE IrqExit
  BY <1>0, <1>4 DEF IrqExit, QuietHost, Host
<1> QED BY <1>1, <1>2, <1>3, <1>4 DEF Irq

LEMMA IrqThreadQuiet ==
  ASSUME Mapping = "sg", IInv, Quiet, IrqThread
  PROVE  Quiet'
<1> DEFINE t == "irq_thread"
<1>0. /\ host \in Host /\ loc[t] \in Locals /\ t \in Threads \ {"worker"}
      /\ UNCHANGED <<firing, present>> /\ QuietHost(host)
  BY QuietNow DEF IInv, TypeOK, Threads, Executors, IrqThread, IrqThreadStart,
     Deferred, CardEventPresent, CardEventLocked
<1>1. CASE IrqThreadStart
  <2>1. Goto(t, "done") /\ Keep(t, loc[t]) /\ host' = host
    BY <1>0, <1>1, KeepLocals DEF IrqThreadStart
  <2> QED BY <1>0, <2>1, QuietGoto DEF Asleep
<1>2. CASE Deferred
  <2>1. host' = [host EXCEPT !.thread_isr = FALSE] /\ Continue(t, host.thread_isr)
    BY <1>0, <1>2 DEF Deferred, QuietHost
  <2>2. QuietHost(host')
    BY <1>0, <2>1 DEF QuietHost, Host
  <2>3. PICK label \in {"event", "idle"} : Goto(t, label)
    BY <2>1 DEF Continue
  <2>4. PICK l : Keep(t, l)
    BY <2>1 DEF Continue
  <2> QED BY <1>0, <2>2, <2>3, <2>4, QuietGoto DEF Asleep
<1>3. CASE CardEventPresent
  <2> DEFINE l == [loc[t] EXCEPT !.there = present, !.isr = FALSE]
  <2>1. Keep(t, l) /\ Goto(t, "removed") /\ host' = host
    BY <1>3 DEF CardEventPresent
  <2>2. l.there
    BY <1>0 DEF Quiet, Locals
  <2> HIDE DEF l
  <2> QED BY <1>0, <2>1, <2>2, QuietGoto DEF Asleep
<1>4. CASE CardEventLocked
  <2>1. loc[t].there
    BY <1>4 DEF CardEventLocked, Quiet
  <2>2. host' = host
    BY <1>4, <2>1 DEF CardEventLocked, CardEvent
  <2>3. Keep(t, NoLocals) /\ Goto(t, "idle")
    BY <1>4 DEF CardEventLocked
  <2> QED BY <1>0, <2>2, <2>3, QuietGoto DEF Asleep
<1> QED BY <1>1, <1>2, <1>3, <1>4 DEF IrqThread

LEMMA ExecutorQuiet ==
  ASSUME Mapping = "sg", IInv, Quiet, NEW t \in Executors, Executor(t)
  PROVE  Quiet'
<1>0. /\ host \in Host /\ t \in Threads \ {"worker"} /\ loc[t] \in Locals
      /\ UNCHANGED <<firing, present>> /\ QuietHost(host)
  BY QuietNow DEF IInv, TypeOK, Threads, Executors, Executor, RequestDone, Unmap,
     Relock, Quiet
<1>1. ASSUME NEW m, NEW i, Finish(t, [host EXCEPT !.mapped = @ \ {m}], i, m)
      PROVE  QuietHost(host') /\ \E label \in {"done", "idle", "deferred"} : Goto(t, label)
  <2> DEFINE h == [host EXCEPT !.mapped = @ \ {m}]
             r == DoReset(h, Lines)
             g == IF NeedsReset(h, m)
                  THEN [r EXCEPT !.pending_reset = FALSE] ELSE h
  <2>1. host' \in {h, [g EXCEPT !.mrqs_done[i] = None]}
    BY <1>1 DEF Finish, Complete
  <2>2. h \in Host /\ QuietHost(h)
    BY <1>0 DEF Host, QuietHost
  <2> HIDE DEF h
  <2>3. r \in Host /\ QuietHost(r)
    <3>1. /\ r.work = h.work /\ r.held = h.held \ Lines
          /\ r.deferred_cmd = h.deferred_cmd
      BY <2>2 DEF DoReset, Host
    <3> QED BY <2>2, <3>1, DoResetType DEF QuietHost
  <2> HIDE DEF r
  <2>4. g \in Host /\ QuietHost(g)
    BY <2>2, <2>3 DEF Host, QuietHost
  <2> HIDE DEF g
  <2>5. QuietHost([g EXCEPT !.mrqs_done[i] = None])
    BY <2>4 DEF Host, QuietHost
  <2>6. \E label \in {"done", "idle", "deferred"} : Goto(t, label)
    BY <1>1 DEF Finish, LeaveLoop
  <2> QED BY <2>1, <2>2, <2>5, <2>6
<1>2. \E l : Keep(t, l)
  BY <1>0, KeepLocals DEF Executor, RequestDone, Unmap, Relock
<1>3. CASE QuietHost(host') /\ \E label \in {"done", "idle", "deferred"} : Goto(t, label)
  BY <1>0, <1>2, <1>3, QuietGoto DEF Asleep
<1>4. CASE host' = host /\ \E label \in {"idle", "deferred", "unmap", "relock"} : Goto(t, label)
  BY <1>0, <1>2, <1>4, QuietGoto DEF Asleep
<1> QED BY <1>1, <1>3, <1>4 DEF Executor, RequestDone, Unmap, Relock, LeaveLoop

\* The controller holds no line after a command that is over.
LEMMA HardwareQuiet ==
  ASSUME InTime, Mapping = "sg", IInv, Quiet, Hardware \/ HwCard
  PROVE  Quiet'
<1>0. host \in Host /\ QuietHost(host) /\ UNCHANGED <<pc, loc, firing>>
  BY QuietNow, HardwareSame DEF IInv, TypeOK
<1>1. Hold("cmd") = {host.held} /\ Hold("dat") = {host.held}
  BY DEF InTime, Hold
<1>2. present' = present
  BY DEF InTime, HwCard, Hardware, HwResponse, HwCmdError, HwDataEnd, HwDataError,
         HwRelease
<1>3. host'.held = {}
  <2>1. CASE HwResponse
    BY <1>0, <1>1, <2>1 DEF HwResponse, Host, QuietHost
  <2>2. CASE HwCmdError
    BY <1>0, <1>1, <2>2 DEF HwCmdError, Host, QuietHost
  <2>3. CASE HwDataEnd
    BY <1>0, <1>1, <2>3 DEF HwDataEnd, Host, QuietHost
  <2>4. CASE HwDataError
    BY <1>0, <1>1, <2>4 DEF HwDataError, Host, QuietHost
  <2>5. ~ (\E l \in Lines : HwRelease(l)) /\ ~HwCard
    BY <1>0 DEF HwRelease, HwCard, InTime, QuietHost
  <2> QED BY <2>1, <2>2, <2>3, <2>4, <2>5 DEF Hardware
<1>4. host'.work = host.work /\ host'.deferred_cmd = host.deferred_cmd
  BY <1>0, HardwareSame DEF Roles
<1> QED BY <1>0, <1>2, <1>3, <1>4, QuietAside DEF QuietHost

LEMMA NextQuiet ==
  ASSUME InTime
  PROVE  IInv /\ Once /\ Ledger /\ Quiet /\ Once' /\ Ledger' /\ [Next]_vars => Quiet'
<1> SUFFICES ASSUME Mapping = "sg", IInv, Once, Ledger, Quiet, Once', Ledger',
                    [Next]_vars
             PROVE  Quiet'
  BY DEF Quiet
<1>1. CASE UNCHANGED vars
  BY <1>1, QuietNow, QuietAside DEF vars
<1>2. ASSUME NEW t \in Sleepers, RetryPoll(t) \/ Retry(t)
      PROVE  FALSE
  BY <1>2 DEF Sleepers, RetryPoll, Retry, Quiet, Asleep
<1>3. ~WorkerStart
  BY DEF WorkerStart, Quiet
<1>4. ASSUME NEW x \in Timers, TimerExpire(x) \/ TimerRun(x)
      PROVE  FALSE
  BY <1>4 DEF TimerExpire, TimerRun, Quiet, InTime
<1>5. CASE Next
  BY <1>2, <1>3, <1>4, <1>5, CallerQuiet, IrqQuiet, IrqThreadQuiet, ExecutorQuiet,
     HardwareQuiet DEF Next
<1> QED BY <1>1, <1>5

-----------------------------------------------------------------------------

LEMMA NextLedger ==
  IInv /\ Once /\ Unmapping /\ Ledger /\ IInv' /\ Once' /\ [Next]_vars
    => Ledger' /\ Promise
<1> SUFFICES ASSUME IInv, Once, Unmapping, Ledger, IInv', Once', [Next]_vars
             PROVE  Ledger' /\ Promise
  OBVIOUS
<1>1. CASE UNCHANGED vars
  <2>1. /\ Same(host, host') /\ Current' = Current /\ UNCHANGED <<irq, sem_ack>>
        /\ sem_ack \in {0, 1}
    BY <1>1 DEF vars, Same, Current, Once
  <2> QED BY <2>1, LedgerStay
<1>2. CASE Next
  BY <1>2, CallerLedger, RetryPollLedger, RetryLedger, IrqLedger, IrqThreadLedger,
     ExecutorLedger, OtherLedger, HardwareLedger DEF Next
<1> QED BY <1>1, <1>2

-----------------------------------------------------------------------------

\* Between two requests, and from the completion on, the host is free.
LEMMA FreeWhen ==
  ASSUME Once, Current = None \/ Completed
  PROVE  Free(host) /\ (Completed => sem_ack = 1)
BY DEF Once, Completed

LEMMA LedgerQuiescent == Once /\ Ledger => Quiescent
<1> SUFFICES ASSUME Once, Ledger, Current = None \/ Completed
             PROVE  AtRest(host)
  BY DEF Quiescent, AtRest, Silent
<1> QED BY FreeWhen DEF Ledger, Account

LEMMA LedgerTruthful == IInv /\ Once /\ Ledger => Truthful
<1> SUFFICES ASSUME IInv, Once, Ledger, Completed, Current # None,
                    host.error[Current] = {}
             PROVE  /\ "cmd" \in host.served
                    /\ Current \in WithData \cup WithBusy => "data" \in host.served
                    /\ ManualCmd23(Current) => "sbc" \in host.served
                    /\ NeedsStop(host, Current) => "stop" \in host.served
  BY DEF Truthful
<1>1. Honest(host, Current, {})
  BY FreeWhen DEF Ledger, Account
<1>2. Current \in Reqs
  BY DEF IInv, TypeOK, Current, Locals, Threads, MaybeReq
<1>3. Needs[Current] \subseteq host.served
  BY <1>1 DEF Honest
<1> QED BY <1>2, <1>3 DEF Needs, NeedsStop

LEMMA LedgerAttributed == IInv /\ Once /\ Ledger => Attributed
<1> SUFFICES ASSUME IInv, Once, Ledger, NEW s \in host.status
             PROVE  /\ s[1] \in CmdBits => host.cmd \in {None, s[2]}
                    /\ s[1] \in DataBits => host.data_cmd \in {None, s[2]}
  BY DEF Attributed
<1>1. OneRole(host, Current)
  BY DEF Once
<1>2. CASE Silent(host)
  <2>1. s[1] = "CARD"
    BY <1>2 DEF Silent, Bits
  <2> QED BY <2>1 DEF CmdBits, DataBits
<1>3. CASE Parked(host)
  BY <1>3 DEF Parked
<1>4. CASE Runs(host, Current)
  <2>1. Wired(host, Current)
    BY <1>4 DEF Runs
  <2> QED BY <2>1 DEF Wired, CmdAnswers, DataAnswers, CmdBits, DataBits
<1>5. Silent(host) \/ Parked(host) \/ Runs(host, Current)
  BY <1>1 DEF Ledger, Account, AtRest, Books, Ready, Finished, OneRole
<1> QED BY <1>2, <1>3, <1>4, <1>5

\* The inductive invariant of the request path.
Core == IInv /\ Once /\ Unmapping /\ Quiet /\ Ledger

LEMMA InitCore == Init => Core
BY InitInv, InitOnce, InitQuiet, InitLedger DEF Core

LEMMA NextCore ==
  ASSUME InTime
  PROVE  Core /\ [Next]_vars => Core' /\ Promise
<1> SUFFICES ASSUME Core, [Next]_vars PROVE Core' /\ Promise
  OBVIOUS
<1>1. IInv' /\ Once'
  BY NextInv, NextOnce DEF Core
<1>2. Unmapping' /\ Ledger' /\ Promise
  BY <1>1, NextUnmapping, NextLedger DEF Core
<1>3. Quiet'
  BY <1>1, <1>2, NextQuiet DEF Core
<1> QED BY <1>1, <1>2, <1>3 DEF Core

LEMMA CoreAlways ==
  ASSUME InTime
  PROVE  Spec => []Core
BY InitCore, NextCore, PTL DEF Spec

\* In every reachable state the lines, the timers and the pending bits of the
\* controller agree with the request that runs, if answers come in time where
\* scatter-gather DMA is used.
THEOREM LedgerAlways ==
  ASSUME InTime
  PROVE  Spec => [](IInv /\ Once /\ Ledger)
<1>1. Core => IInv /\ Once /\ Ledger
  BY DEF Core
<1> QED BY <1>1, CoreAlways, PTL

\* The host has the request of the caller in at most one role, under the same
\* condition: it runs, or a command of it is deferred, or it is in one slot, and
\* there a thread that has dropped the lock finds it again.
THEOREM OneRoleAlways ==
  ASSUME InTime
  PROVE  Spec => [](IInv /\ Once /\ Unmapping)
<1>1. Core => IInv /\ Once /\ Unmapping
  BY DEF Core
<1> QED BY <1>1, CoreAlways, PTL

\* A completion is signalled at most once for each request, under the same
\* condition, and after it neither the host nor a thread points to the request.
THEOREM CompletesOnce ==
  ASSUME InTime
  PROVE  Spec => []CompletedOnce
<1>1. Core => CompletedOnce
  BY OnceCompletes DEF Core
<1> QED BY <1>1, CoreAlways, PTL

\* No WARN_ON of the request path fires, under the same condition: nothing is
\* sent over a command or data that run, no deferred command is overwritten,
\* and mrqs_done never holds a request twice or overflows.
THEOREM NeverWarns ==
  ASSUME InTime
  PROVE  Spec => []NoWarning
<1>1. Core => NoWarning
  BY OnceCompletes DEF Core
<1> QED BY <1>1, CoreAlways, PTL

\* The controller has stopped with a request when its caller is told, under the
\* same condition: no transfer, no timer and no interrupt is left of it.
THEOREM QuiescentAlways ==
  ASSUME InTime
  PROVE  Spec => []Quiescent
BY LedgerAlways, LedgerQuiescent, PTL

\* A request reported as good was carried out, under the same condition: each
\* part of it that the driver or the card had to do.
THEOREM TruthfulAlways ==
  ASSUME InTime
  PROVE  Spec => []Truthful
BY LedgerAlways, LedgerTruthful, PTL

\* No interrupt bit is taken for the answer to another command than the one it
\* was raised for, under the same condition.
THEOREM AttributedAlways ==
  ASSUME InTime
  PROVE  Spec => []Attributed
BY LedgerAlways, LedgerAttributed, PTL

\* The driver implements RequestPort, under the same condition: one completion
\* for each request, good only if the controller did all of it, and nothing of
\* it moves between the completion and the return of the caller.
THEOREM KeepsPromise ==
  ASSUME InTime
  PROVE  Spec => PortSpec
<1>1. Init => Port!Init
  BY DEF Init, Port!Init, Current, NoLocals, Threads, Completed, InitHost
<1>2. Core /\ [Next]_vars => [Port!Next]_(Port!vars)
  BY NextCore DEF Promise
<1> QED BY <1>1, <1>2, CoreAlways, PTL DEF Spec, PortSpec, Port!Spec

-----------------------------------------------------------------------------
(* No request is forgotten: the timers and the wake-ups *)

\* The driver sends a CMD23 or a CMD12 of its own for the requests that need it.
Lawful(c) ==
  c # None => /\ Part(c) = "sbc" => ManualCmd23(Mrq(c))
              /\ Part(c) = "stop" => Mrq(c) \in WithStop
Own(h) == Lawful(h.cmd) /\ Lawful(h.deferred_cmd)

\* A command of m, or its data, runs under the timer of m.
Guarded(h, m) == Own(h) /\ (HasRequests(h) => TimerOf(m) \in h.timers)

\* From h to g the timer of m is started, or left as it was.
Timed(h, g, m) ==
  Own(g) /\ (HasRequests(g) =>
               \/ TimerOf(m) \in g.timers
               \/ HasRequests(h) /\ g.timers = h.timers)

\* A request in a slot needs no timer.
LEMMA DoneGuarded ==
  ASSUME NEW g, NEW m, OneRole(g, m), Done(g) # {}
  PROVE  Guarded(g, m) /\ g.deferred_cmd = None /\ Parked(g) /\ ~Free(g)
BY DEF OneRole, Parked, Guarded, Own, Lawful, HasRequests, Free

LEMMA FinishGuarded ==
  ASSUME NEW h \in Host, NEW m \in Reqs, Owns(h, m), Done(h) = {}, h.warned = {}
  PROVE  /\ Guarded(FinishMrqNoWork(h, m), m)
         /\ FinishMrqNoWork(h, m).deferred_cmd = None
         /\ Guarded(FinishMrq(h, m), m)
         /\ FinishMrq(h, m).deferred_cmd = None
         /\ FinishMrq(h, m).work /\ ~Free(FinishMrq(h, m))
<1> DEFINE f == FinishMrqNoWork(h, m)
<1>1. f \in Host
  BY FinishMrqNoWorkType
<1>2. FinishMrq(h, m) = [f EXCEPT !.work = TRUE]
  BY DEF FinishMrq
<1>3. FinishMrq(h, m).work
  <2> HIDE DEF f
  <2> QED BY <1>1, <1>2 DEF Host
<1> HIDE DEF f
<1> QED BY <1>3, FinishRoles, DoneGuarded

LEMMA FailGuarded ==
  ASSUME NEW h \in Host, NEW m \in Reqs, Owns(h, m), Done(h) = {}, h.warned = {},
         NEW field \in ErrorFields
  PROVE  LET f == Fail(h, m, field)
         IN /\ Guarded(FinishMrqNoWork(f, m), m)
            /\ FinishMrqNoWork(f, m).deferred_cmd = None
            /\ Guarded(FinishMrq(f, m), m)
            /\ FinishMrq(f, m).deferred_cmd = None
            /\ FinishMrq(f, m).work /\ ~Free(FinishMrq(f, m))
<1> DEFINE f == Fail(h, m, field)
<1>1. f \in Host /\ Roles(f) = Roles(h)
  BY FailType, FailRoles
<1> HIDE DEF f
<1>2. Owns(f, m) /\ Done(f) = {} /\ f.warned = {}
  BY <1>1 DEF Roles, Owns, Done
<1> QED BY <1>1, <1>2, FinishGuarded DEF f

LEMMA SendGuarded ==
  ASSUME NEW h \in Host, NEW m \in Reqs, NEW c \in Cmds, Mrq(c) = m,
         Parked(h), Done(h) = {}, h.warned = {}, ~Inhibited(h, c), Lawful(c),
         h.deferred_cmd \in {None, c}, NEW g \in Host,
         g = [SendCommand(h, c) EXCEPT !.deferred_cmd = None]
  PROVE  Guarded(g, m) /\ g.deferred_cmd = None /\ Done(g) = {} /\ ~Free(g)
<1> DEFINE s == SendCommand(h, c)
<1>1. s \in Host /\ s.cmd = c /\ s.mrqs_done = h.mrqs_done
  BY SendRoles
<1>2. TimerOf(m) \in s.timers
  BY SendFields
<1> HIDE DEF s
<1>3. /\ g.cmd = c /\ g.mrqs_done = h.mrqs_done /\ TimerOf(m) \in g.timers
      /\ g.deferred_cmd = None
  BY <1>1, <1>2 DEF Host, s
<1>4. c # None
  BY RequestAssumption DEF Cmds, Parts
<1> QED BY <1>3, <1>4 DEF Guarded, Own, Lawful, Done, Free, Parked

LEMMA SendOrDeferGuarded ==
  ASSUME NEW h \in Host, NEW m \in Reqs, NEW c \in Cmds, Mrq(c) = m,
         Parked(h), Done(h) = {}, h.warned = {}, h.deferred_cmd = None, Lawful(c)
  PROVE  /\ Guarded(SendOrDefer(h, c), m)
         /\ ~Inhibited(h, c) => SendOrDefer(h, c).deferred_cmd = None
<1> DEFINE s == SendCommand(h, c)
<1>1. CASE ~Inhibited(h, c)
  <2>1. SendOrDefer(h, c) = s /\ s \in Host /\ s.deferred_cmd = None
    BY <1>1, SendRoles DEF SendOrDefer
  <2>2. s = [s EXCEPT !.deferred_cmd = None]
    <3> HIDE DEF s
    <3> QED BY <2>1 DEF Host
  <2> QED BY <1>1, <2>1, <2>2, SendGuarded
<1>2. CASE Inhibited(h, c)
  <2>1. s = Begin(h, c)
    BY <1>2 DEF SendCommand
  <2>2. s \in Host /\ Roles(s) = Roles(h)
    BY <2>1, BeginType, BeginRoles DEF Parked
  <2> DEFINE g == [s EXCEPT !.deferred_cmd = c]
  <2>3. SendOrDefer(h, c) = g
    BY <1>2, <2>2 DEF SendOrDefer, Warn, Roles
  <2> HIDE DEF s
  <2>4. g.cmd = None /\ g.data_cmd = None /\ g.deferred_cmd = c
    BY <2>2 DEF Roles, Parked, Host
  <2> QED BY <1>2, <2>3, <2>4 DEF Guarded, Own, Lawful, HasRequests
<1> QED BY <1>1, <1>2

LEMMA FinishDataGuarded ==
  ASSUME NEW h \in Host, NEW m \in MaybeReq, OneRole(h, m), h.data # None,
         NEW swTimeout \in BOOLEAN, Own(h)
  PROVE  /\ Guarded(FinishData(h, swTimeout), m)
         /\ swTimeout => FinishData(h, swTimeout).deferred_cmd = None
<1> DEFINE stop == <<m, "stop">>
           lines == IF "data" \notin h.error[m] THEN {}
                    ELSE IF h.cmd = None \/ h.cmd = h.data_cmd THEN Lines
                    ELSE {"dat"}
           e == [h EXCEPT !.data = None, !.data_cmd = None]
           g == DoReset(e, lines)
           k == [g EXCEPT !.cmd = None]
<1>1. m \in Reqs /\ h.data = m
  BY DEF OneRole, Owns, Host, MaybeReq
<1>2. /\ h.deferred_cmd = None /\ Done(h) = {} /\ h.warned = {} /\ Owns(h, m)
  BY Running DEF Parked
<1>3. e \in Host /\ g \in Host
  <2>1. e \in Host
    BY DEF Host, MaybeCmd, MaybeReq
  <2> QED BY <2>1, DoResetType DEF Lines
<1>4. Roles(g) = Roles(e)
  BY <1>3, ResetRoles
<1>5. /\ g.cmd = h.cmd /\ g.data_cmd = None /\ g.data = None
      /\ g.deferred_cmd = None /\ g.mrqs_done = h.mrqs_done /\ g.warned = {}
  <2> HIDE DEF g
  <2> QED BY <1>2, <1>4 DEF Roles, Host
<1>6. Done(g) = {} /\ Owns(g, m)
  <2> HIDE DEF g
  <2> QED BY <1>2, <1>5 DEF Done, Owns, Owner
<1>7. k \in Host /\ Parked(k) /\ Done(k) = {} /\ k.warned = {}
        /\ k.deferred_cmd = None /\ Owns(k, m)
  <2> HIDE DEF g
  <2> QED BY <1>3, <1>5, <1>6 DEF Host, MaybeCmd, Parked, Done, Owns, Owner
<1>8. stop \in Cmds /\ Mrq(stop) = m /\ Part(stop) = "stop"
  BY <1>1 DEF Cmds, Parts, Mrq, Part
<1> HIDE DEF k
<1>9. /\ Guarded(FinishMrqNoWork(g, m), m)
      /\ FinishMrqNoWork(g, m).deferred_cmd = None
  BY <1>1, <1>3, <1>5, <1>6, FinishGuarded
<1>10. LET f == FinishMrqNoWork(Fail(Begin(k, stop), m, "stop"), m)
       IN Guarded(f, m) /\ f.deferred_cmd = None
  <2> DEFINE b == Begin(k, stop)
  <2>1. b \in Host /\ Roles(b) = Roles(k)
    BY <1>7, <1>8, BeginType, BeginRoles DEF Parked
  <2> HIDE DEF b
  <2>2. Owns(b, m) /\ Done(b) = {} /\ b.warned = {}
    BY <1>7, <2>1 DEF Roles, Owns, Done
  <2>3. "stop" \in ErrorFields
    BY DEF ErrorFields, Parts
  <2> QED BY <1>1, <2>1, <2>2, <2>3, FailGuarded DEF b
<1>11. NeedsStop(h, m) =>
         /\ Guarded(SendOrDefer(k, stop), m)
         /\ ~Inhibited(k, stop) => SendOrDefer(k, stop).deferred_cmd = None
  <2>1. NeedsStop(h, m) => Lawful(stop)
    BY <1>8 DEF NeedsStop, Lawful
  <2> QED BY <1>1, <1>7, <1>8, <2>1, SendOrDeferGuarded
<1> QED BY <1>1, <1>9, <1>10, <1>11 DEF FinishData, k

LEMMA GuardedTimed ==
  ASSUME NEW h, NEW g, NEW m, Guarded(g, m)
  PROVE  Timed(h, g, m)
BY DEF Guarded, Timed

\* A command is over, the data run on.
LEMMA SameTimed ==
  ASSUME NEW h, NEW g, NEW m, Own(h), HasRequests(h), g.timers = h.timers,
         g.cmd \in {None, h.cmd}, g.deferred_cmd = h.deferred_cmd
  PROVE  Timed(h, g, m)
BY DEF Timed, Own, Lawful

LEMMA FinishCommandTimed ==
  ASSUME NEW h \in Host, NEW m \in MaybeReq, OneRole(h, m), h.cmd # None, Own(h)
  PROVE  Timed(h, FinishCommand(h), m)
<1> DEFINE c == h.cmd
           g == [h EXCEPT !.cmd = None]
           d == IF g.data # None /\ g.data_early THEN FinishData(g, FALSE) ELSE g
<1>1. c \in Cmds /\ Mrq(c) = m /\ m \in Reqs
  BY OwnerType DEF OneRole, Owns, Host
<1>2. /\ h.deferred_cmd = None /\ Done(h) = {} /\ h.warned = {} /\ Owns(h, m)
  BY Running DEF Parked
<1>3. g \in Host
  BY DEF Host, MaybeCmd
<1>4. /\ g.cmd = None /\ g.data_cmd = h.data_cmd /\ g.data = h.data
      /\ g.deferred_cmd = None /\ g.mrqs_done = h.mrqs_done /\ g.warned = {}
      /\ g.timers = h.timers
  BY <1>2 DEF Host
<1> HIDE DEF g
<1>5. Done(g) = {} /\ Owns(g, m)
  BY <1>2, <1>4 DEF Done, Owns, Owner
<1>6. OneRole(g, m)
  BY <1>4, <1>5 DEF OneRole
<1>7. Timed(h, g, m) /\ Own(g)
  BY <1>2, <1>4, SameTimed DEF HasRequests, Timed
<1>8. CASE Part(c) = "sbc"
  <2>1. g.data_cmd = None
    BY <1>4, <1>8 DEF OneRole
  <2>2. g.data = None
    <3>1. Part(<<h.data, "cmd">>) = "cmd"
      BY DEF Part
    <3> QED BY <1>4, <1>8, <3>1 DEF OneRole
  <2>3. /\ <<m, "cmd">> \in Cmds /\ Mrq(<<m, "cmd">>) = m
        /\ Lawful(<<m, "cmd">>)
    BY <1>1 DEF Cmds, Parts, Mrq, Part, Lawful
  <2>4. Timed(h, SendOrDefer(g, <<m, "cmd">>), m)
    BY <1>1, <1>3, <1>4, <1>5, <2>1, <2>2, <2>3, SendOrDeferGuarded, GuardedTimed
       DEF Parked
  <2> QED BY <1>1, <1>7, <1>8, <2>4 DEF FinishCommand, g
<1>9. CASE HasData(c)
  <2>1. Part(c) # "sbc"
    BY <1>9 DEF HasData
  <2>2. Timed(h, d, m)
    BY <1>3, <1>6, <1>7, FinishDataGuarded, GuardedTimed
  <2> QED BY <1>7, <1>9, <2>1, <2>2 DEF FinishCommand, g
<1>10. CASE Part(c) # "sbc" /\ ~HasData(c)
  <2>1. h.data = None
    BY <1>10 DEF OneRole, HasData, Part, Mrq
  <2>2. d = g
    BY <1>4, <2>1
  <2>3. Timed(h, FinishMrqNoWork(g, m), m)
    BY <1>1, <1>3, <1>4, <1>5, FinishGuarded, GuardedTimed
  <2> QED BY <1>1, <1>7, <1>10, <2>2, <2>3 DEF FinishCommand, g
<1> QED BY <1>8, <1>9, <1>10

LEMMA CmdIrqTimed ==
  ASSUME NEW h \in Host, NEW m \in MaybeReq, OneRole(h, m), Own(h),
         HasRequests(h), NEW bits \in SUBSET IntBits
  PROVE  Timed(h, CmdIrq(h, bits), m)
<1>1. Timed(h, h, m)
  BY SameTimed
<1>2. CASE h.cmd = None
  BY <1>1, <1>2 DEF CmdIrq
<1>3. CASE h.cmd # None
  <2> DEFINE failed == Fail(h, m, Part(h.cmd))
  <2>1. /\ Mrq(h.cmd) = m /\ m \in Reqs /\ Part(h.cmd) \in ErrorFields
        /\ "sbc" \in ErrorFields
        /\ Done(h) = {} /\ h.warned = {} /\ Owns(h, m)
    BY <1>3, CommandOf DEF ErrorFields, Parts
  <2>2. /\ Timed(h, FinishMrqNoWork(failed, m), m)
        /\ Timed(h, FinishMrqNoWork(Fail(h, m, "sbc"), m), m)
    BY <2>1, FailGuarded, GuardedTimed
  <2>3. Timed(h, [failed EXCEPT !.cmd = None], m)
    <3> DEFINE g == [failed EXCEPT !.cmd = None]
    <3>1. failed \in Host /\ Roles(failed) = Roles(h) /\ failed.timers = h.timers
      BY <2>1, FailFields
    <3> HIDE DEF failed
    <3>2. g.cmd = None /\ g.deferred_cmd = h.deferred_cmd /\ g.timers = h.timers
      BY <3>1 DEF Roles, Host
    <3> HIDE DEF g
    <3>3. Timed(h, g, m)
      BY <3>2, SameTimed
    <3> QED BY <3>3 DEF g
  <2>4. Timed(h, FinishCommand(h), m)
    BY <1>3, FinishCommandTimed
  <2> QED BY <1>1, <2>1, <2>2, <2>3, <2>4 DEF CmdIrq
<1> QED BY <1>2, <1>3

LEMMA BusyIrqTimed ==
  ASSUME NEW h \in Host, NEW m \in MaybeReq, OneRole(h, m), Own(h),
         HasRequests(h), NEW bits \in SUBSET IntBits
  PROVE  Timed(h, BusyIrq(h, bits), m)
<1>1. Timed(h, h, m)
  BY SameTimed
<1>2. CASE h.data_cmd = None
  BY <1>1, <1>2 DEF BusyIrq
<1>3. CASE h.data_cmd # None
  <2> DEFINE c == h.data_cmd
             g == [h EXCEPT !.data_cmd = None]
  <2>1. /\ Mrq(c) = m /\ m \in Reqs /\ Part(c) \in ErrorFields
        /\ Done(h) = {} /\ h.warned = {} /\ Owns(h, m)
    BY <1>3, CommandOf DEF ErrorFields
  <2>2. /\ g \in Host /\ g.cmd = h.cmd /\ g.data_cmd = None /\ g.data = h.data
        /\ g.deferred_cmd = h.deferred_cmd /\ g.mrqs_done = h.mrqs_done
        /\ g.warned = h.warned /\ g.timers = h.timers
    BY DEF Host, MaybeCmd
  <2> HIDE DEF g
  <2>3. Done(g) = {} /\ Owns(g, m) /\ g.warned = {}
    BY <2>1, <2>2 DEF Done, Owns, Owner
  <2>4. Timed(h, g, m)
    BY <2>2, SameTimed
  <2>5. /\ Timed(h, FinishMrqNoWork(g, m), m)
        /\ Timed(h, FinishMrqNoWork(Fail(g, m, Part(c)), m), m)
    BY <2>1, <2>2, <2>3, FinishGuarded, FailGuarded, GuardedTimed
  <2> QED BY <1>1, <2>1, <2>4, <2>5 DEF BusyIrq, g
<1> QED BY <1>2, <1>3

\* Data that failed are finished as they are.
LEMMA FailDataGuarded ==
  ASSUME NEW h \in Host, NEW m \in MaybeReq, OneRole(h, m), h.data # None,
         NEW swTimeout \in BOOLEAN, Own(h)
  PROVE  LET g == FinishData(Fail(h, h.data, "data"), swTimeout)
         IN /\ Guarded(g, m)
            /\ swTimeout => g.deferred_cmd = None
<1> DEFINE f == Fail(h, h.data, "data")
<1>1. h.data \in Reqs /\ "data" \in ErrorFields
  BY DEF Host, MaybeReq, ErrorFields
<1>2. f \in Host /\ Roles(f) = Roles(h)
  BY <1>1, FailType, FailRoles
<1> HIDE DEF f
<1>3. f.data # None /\ OneRole(f, m) /\ Own(f)
  BY <1>2, SameRoles DEF Roles, Moves, Own
<1>4. /\ Guarded(FinishData(f, swTimeout), m)
      /\ swTimeout => FinishData(f, swTimeout).deferred_cmd = None
  BY <1>2, <1>3, FinishDataGuarded
<1> QED BY <1>4 DEF f

LEMMA DataIrqTimed ==
  ASSUME NEW h \in Host, NEW m \in MaybeReq, OneRole(h, m), Own(h),
         HasRequests(h), NEW bits \in SUBSET IntBits
  PROVE  Timed(h, DataIrq(h, bits), m)
<1>1. CASE h.data = None
  BY <1>1, BusyIrqTimed DEF DataIrq
<1>2. CASE h.data # None
  <2>1. /\ Timed(h, FinishData(Fail(h, h.data, "data"), FALSE), m)
        /\ Timed(h, FinishData(h, FALSE), m)
    BY <1>2, FailDataGuarded, FinishDataGuarded, GuardedTimed
  <2> DEFINE g == [h EXCEPT !.data_early = TRUE]
  <2>2. g.cmd = h.cmd /\ g.deferred_cmd = h.deferred_cmd /\ g.timers = h.timers
    BY DEF Host
  <2> HIDE DEF g
  <2>3. Timed(h, g, m) /\ Timed(h, h, m)
    BY <2>2, SameTimed
  <2> QED BY <1>2, <2>1, <2>3 DEF DataIrq, g
<1> QED BY <1>1, <1>2

\* A request that is sent, or finished with the work queued to complete it.
Handed(g, m) ==
  /\ Guarded(g, m) /\ g.deferred_cmd = None /\ ~Free(g)
  /\ Done(g) # {} => g.work

LEMMA FailAndFinishHanded ==
  ASSUME NEW h \in Host, NEW m \in MaybeReq, OneRole(h, m),
         NEW c \in {h.cmd, h.data_cmd}, c # None
  PROVE  Handed(FinishMrq(Fail(h, Mrq(c), Part(c)), Mrq(c)), m)
<1>1. /\ Mrq(c) = m /\ m \in Reqs /\ Part(c) \in ErrorFields
      /\ Done(h) = {} /\ h.warned = {} /\ Owns(h, m)
  BY CommandOf DEF ErrorFields
<1> QED BY <1>1, FailGuarded DEF Handed

\* A timer that runs out finishes its request or sends the CMD12, unless the
\* request has the other timer.
LEMMA TimeoutTimerHanded ==
  ASSUME NEW h \in Host, NEW m \in MaybeReq, OneRole(h, m), Runs(h, m)
  PROVE  \/ Handed(TimeoutTimer(h), m)
         \/ TimeoutTimer(h) = h /\ TimerOf(m) # "timer"
<1>1. CASE h.cmd # None /\ ~DataLine(h.cmd)
  BY <1>1, FailAndFinishHanded DEF TimeoutTimer
<1>2. CASE ~(h.cmd # None /\ ~DataLine(h.cmd))
  <2>1. TimeoutTimer(h) = h
    BY <1>2 DEF TimeoutTimer
  <2>2. h.cmd # None \/ h.data_cmd # None
    BY DEF Runs, Wired, Parked
  <2>3. PICK c \in {h.cmd, h.data_cmd} : c # None /\ DataLine(c)
    BY <1>2, <2>2 DEF Runs, Wired
  <2>4. c = <<m, Part(c)>>
    BY <2>3, CommandOf
  <2>5. c = <<m, "cmd">>
    BY <2>3, <2>4 DEF DataLine, HasData, Busy
  <2> QED BY <2>1, <2>3, <2>5 DEF TimerOf
<1> QED BY <1>1, <1>2

LEMMA TimeoutDataTimerHanded ==
  ASSUME NEW h \in Host, NEW m \in MaybeReq, OneRole(h, m), Runs(h, m), Own(h),
         m \notin WithStop, ~ManualCmd23(m)
  PROVE  \/ Handed(TimeoutDataTimer(h), m)
         \/ TimeoutDataTimer(h) = h /\ TimerOf(m) # "data_timer"
<1>1. CASE h.data # None
  <2> DEFINE f == FinishData(Fail(h, h.data, "data"), TRUE)
             g == [f EXCEPT !.work = TRUE]
  <2>1. Guarded(f, m) /\ f.deferred_cmd = None
    BY <1>1, FailDataGuarded
  <2>2. f \in Host /\ Books(f, m)
    BY <1>1, FailedDataBooks
  <2>3. ~Free(f)
    BY <2>2, BooksBusy
  <2> HIDE DEF f
  <2>4. Roles(g) = Roles(f) /\ g.timers = f.timers /\ g.work
    BY <2>2 DEF Host, Roles
  <2> HIDE DEF g
  <2>5. Handed(g, m)
    BY <2>1, <2>3, <2>4
       DEF Handed, Guarded, Own, Roles, Free, Parked, Done, HasRequests
  <2> QED BY <1>1, <2>5 DEF TimeoutDataTimer, f, g
<1>2. CASE h.data = None /\ h.data_cmd # None
  BY <1>2, FailAndFinishHanded DEF TimeoutDataTimer
<1>3. CASE h.data = None /\ h.data_cmd = None
  <2>1. h.cmd # None
    BY <1>3 DEF Runs, Parked
  <2>2. CASE DataLine(h.cmd)
    BY <1>3, <2>1, <2>2, FailAndFinishHanded DEF TimeoutDataTimer
  <2>3. CASE ~DataLine(h.cmd)
    <3>1. h.cmd = <<m, Part(h.cmd)>> /\ Part(h.cmd) \in Parts /\ Mrq(h.cmd) = m
      BY <2>1, CommandOf
    <3>2. Part(h.cmd) = "cmd"
      BY <2>1, <3>1 DEF Own, Lawful, Parts
    <3>3. TimerOf(m) = "timer"
      BY <2>3, <3>1, <3>2 DEF TimerOf
    <3> QED BY <1>3, <2>3, <3>3 DEF TimeoutDataTimer
  <2> QED BY <2>2, <2>3
<1> QED BY <1>1, <1>2, <1>3

LEMMA CardEventHanded ==
  ASSUME NEW h \in Host, NEW m \in MaybeReq, OneRole(h, m), NEW there \in BOOLEAN
  PROVE  CardEvent(h, there) = h \/ Handed(CardEvent(h, there), m)
<1>1. CASE there \/ ~HasRequests(h)
  BY <1>1 DEF CardEvent
<1>2. CASE ~there /\ HasRequests(h)
  <2> DEFINE r == DoReset(h, Lines)
             g == ErrorOut(r, r.data_cmd)
  <2>1. r \in Host /\ Roles(r) = Roles(h)
    BY ResetFields
  <2>2. CardEvent(h, there) = ErrorOut(g, g.cmd)
    BY <1>2 DEF CardEvent, ErrorOutMrqs
  <2> HIDE DEF r
  <2>3. OneRole(r, m) /\ (r.data_cmd # None \/ r.cmd # None)
    BY <1>2, <2>1, SameRoles DEF Moves, Roles, HasRequests
  <2>4. CASE r.data_cmd # None
    <3>1. g = FinishMrq(Fail(r, Mrq(r.data_cmd), Part(r.data_cmd)), Mrq(r.data_cmd))
      BY <2>4 DEF ErrorOut
    <3> HIDE DEF g
    <3>2. Handed(g, m) /\ Parked(g)
      BY <2>1, <2>3, <2>4, <3>1, FailAndFinishHanded, FailAndFinishRoles
    <3> QED BY <2>2, <3>2 DEF ErrorOut, Parked
  <2>5. CASE r.data_cmd = None
    <3>1. g = r
      BY <2>5 DEF ErrorOut
    <3> HIDE DEF g
    <3>2. ErrorOut(g, g.cmd) = FinishMrq(Fail(r, Mrq(r.cmd), Part(r.cmd)), Mrq(r.cmd))
      BY <2>3, <2>5, <3>1 DEF ErrorOut
    <3> QED BY <2>1, <2>2, <2>3, <2>5, <3>2, FailAndFinishHanded
  <2> QED BY <2>4, <2>5
<1> QED BY <1>1, <1>2

-----------------------------------------------------------------------------
(* The invariant behind NotForgotten *)

Tending == {"done", "deferred", "asleep", "retry"}

\* Somebody will look at the slots, or at the deferred command.
DoneMinded ==
  \/ wake \/ host.work
  \/ \E t \in Executors : pc[t] \in {"done", "unmap", "relock"}
DeferredMinded == wake \/ pc["irq_thread"] \in Tending

\* What runs has its timer, what is left to a thread has a thread, and the host
\* has the request while the caller waits.
Tended ==
  /\ "stall" \notin Faults => firing = {}
  /\ Own(host)
  /\ HasRequests(host) => TimerOf(Current) \in host.timers \cup firing
  /\ (Unlocked /\ Done(host) # {}) => DoneMinded
  /\ (Unlocked /\ host.deferred_cmd # None) => DeferredMinded
  /\ pc["caller"] = "wait" /\ sem_ack = 0 => ~Free(host)

\* The driver sends no CMD23 or CMD12 of its own, which run under a timer that
\* ignores them, if answers may be late.
Prompt == "stall" \in Faults => \A m \in Reqs : m \notin WithStop /\ ~ManualCmd23(m)

LEMMA InitTended == Init => Tended
<1> SUFFICES ASSUME Init PROVE Tended
  OBVIOUS
<1>1. host = InitHost /\ firing = {} /\ pc["caller"] = "idle"
  BY DEF Init, Threads
<1>2. /\ host.cmd = None /\ host.data_cmd = None /\ host.deferred_cmd = None
      /\ Done(host) = {}
  BY <1>1 DEF InitHost, Done
<1> QED BY <1>1, <1>2 DEF Tended, Own, Lawful, HasRequests

\* The host has no request.
LEMMA TendedFree ==
  ASSUME Tended, Once', firing' = firing, pc'["caller"] # "wait" \/ sem_ack' # 0
  PROVE  Tended'
<1>1. Free(host')
  BY DEF Once
<1> QED BY <1>1 DEF Tended, Free, Parked, HasRequests, Own, Lawful

\* The request was sent or finished.
LEMMA TendedHanded ==
  ASSUME Handed(host', Current'), "stall" \notin Faults => firing' = {}
  PROVE  Tended'
BY DEF Handed, Guarded, Tended, DoneMinded

\* The request stayed where it was, and so did those who look after it.
LEMMA TendedStay ==
  ASSUME Tended, Roles(host') = Roles(host), Current' = Current,
         host.timers \cup firing \subseteq host'.timers \cup firing',
         "stall" \notin Faults => firing' = {},
         pc'["caller"] = "wait" /\ sem_ack' = 0 =>
           pc["caller"] = "wait" /\ sem_ack = 0,
         Unlocked' => /\ Unlocked
                      /\ Done(host) # {} /\ DoneMinded => DoneMinded'
                      /\ host.deferred_cmd # None /\ DeferredMinded => DeferredMinded'
  PROVE  Tended'
<1>1. /\ Done(host') = Done(host) /\ (Free(host') <=> Free(host))
      /\ host'.deferred_cmd = host.deferred_cmd
      /\ (HasRequests(host') <=> HasRequests(host))
      /\ (Own(host') <=> Own(host))
  BY DEF Roles, Done, Free, Parked, HasRequests, Own
<1> QED BY <1>1 DEF Tended

\* The same for a step of others than the threads.
LEMMA TendedAside ==
  ASSUME Tended, Roles(host') = Roles(host), UNCHANGED <<pc, loc, sem_ack, wake>>,
         host.work => host'.work, Unlocked' => Unlocked,
         host.timers \cup firing \subseteq host'.timers \cup firing',
         "stall" \notin Faults => firing' = {}
  PROVE  Tended'
<1>1. Current' = Current
  BY DEF Current
<1> QED BY <1>1, TendedStay DEF DoneMinded, DeferredMinded

\* The handler changed the request.
LEMMA TendedTimed ==
  ASSUME Tended, Timed(host, host', Current), ~Free(host) => ~Free(host'),
         irq'.pc # "off", UNCHANGED <<pc, loc, firing, sem_ack>>
  PROVE  Tended'
<1>1. Current' = Current
  BY DEF Current
<1> QED BY <1>1 DEF Tended, Timed, Unlocked

\* What runs has a command or data that the controller knows of.
LEMMA RunsCommand ==
  ASSUME NEW h, NEW m, Runs(h, m)
  PROVE  HasRequests(h)
BY DEF Runs, Wired, Parked, HasRequests

LEMMA TendedNotForgotten == IInv /\ Once /\ Ledger /\ Tended => NotForgotten
<1> SUFFICES ASSUME IInv, Once, Ledger, Tended, pc["caller"] = "wait", ~Completed
             PROVE  LET soon == ~Unlocked \/ wake
                    IN \/ \E t \in Executors : loc[t].mrq # None
                       \/ /\ Done(host) # {}
                          /\ \/ soon \/ host.work
                             \/ \E t \in Executors : pc[t] = "done"
                       \/ /\ host.deferred_cmd # None
                          /\ \/ soon
                             \/ pc["irq_thread"] \in {"done", "deferred", "asleep", "retry"}
                       \/ /\ HasRequests(host)
                          /\ \/ host.timers \cup firing # {}
                             \/ host.status # {} \/ ~Unlocked
  BY DEF NotForgotten
<1>1. sem_ack = 0 /\ ~Free(host) /\ OneRole(host, Current) /\ host \in Host
  BY DEF Completed, Once, Tended, IInv, TypeOK
<1>2. CASE ~Parked(host)
  <2>1. HasRequests(host)
    BY <1>1, <1>2, RunsIf, RunsCommand DEF Ledger, Account
  <2> QED BY <2>1 DEF Tended
<1>3. CASE Parked(host) /\ Done(host) # {}
  <2>1. \A t \in Executors : pc[t] \in {"unmap", "relock"} => loc[t].mrq # None
    BY DEF IInv, Working, Threads
  <2> QED BY <1>3, <2>1 DEF Tended, DoneMinded
<1>4. CASE Parked(host) /\ Done(host) = {}
  BY <1>1, <1>4 DEF Tended, DeferredMinded, Tending, Free
<1> QED BY <1>2, <1>3, <1>4

-----------------------------------------------------------------------------
(* The steps *)

\* The two attempts to send, and the failure that ends them.
LEMMA TryTended ==
  ASSUME IInv, Once, IInv', Once', Ledger, Tended, sem_ack = 0, NEW m \in Reqs,
         m = Current, NEW h \in Host, Same(host, h), NEW c, Ready(host, m, c),
         h.warned = {}, Owns(host, m), host.deferred_cmd \in {None, c}, Lawful(c),
         NEW t \in Sleepers, t = "irq_thread" => pc[t] \in Tending \ {"done"},
         NEW tries, NEW isr, Try(t, h, c, tries, isr),
         UNCHANGED <<irq, firing, wake, sem_ack>>
  PROVE  Tended'
<1>0. /\ Ready(h, m, c) /\ Owns(h, m) /\ h.deferred_cmd \in {None, c}
      /\ host' \in Host /\ t \in Threads
  <2>1. Ready(h, m, c)
    BY SameBooks
  <2>2. Owns(h, m) /\ h.deferred_cmd \in {None, c}
    BY SameFields DEF Owns
  <2>3. host' \in Host /\ t \in Threads
    BY DEF IInv, TypeOK, Sleepers, Threads, Executors
  <2> QED BY <2>1, <2>2, <2>3
<1>1. /\ Current' = Current
      /\ Books(host', m) \/ Same(h, host')
  BY <1>0, TryBooks
<1>2. c \in Cmds /\ Mrq(c) = m /\ Part(c) \in ErrorFields /\ Parked(h) /\ Done(h) = {}
  BY <1>0, CommandParts DEF Ready, ErrorFields
<1>3. CASE Sent(t, h, c, isr)
  <2> DEFINE s == SendCommand(h, c)
  <2>1. ~Inhibited(h, c) /\ host' = [s EXCEPT !.deferred_cmd = IF @ = c THEN None ELSE @]
    BY <1>3 DEF Sent
  <2>2. s \in Host /\ s.deferred_cmd \in {None, c}
    BY <1>0, <1>2, <2>1, SendRoles
  <2>3. host' = [s EXCEPT !.deferred_cmd = None]
    <3> HIDE DEF s
    <3> QED BY <2>1, <2>2 DEF Host
  <2>4. /\ Guarded(host', m) /\ host'.deferred_cmd = None
        /\ Done(host') = {} /\ ~Free(host')
    <3>1. ~Inhibited(h, c)
      BY <2>1
    <3> QED BY <1>0, <1>2, <2>3, <3>1, SendGuarded
  <2>5. Handed(host', m)
    BY <2>4 DEF Handed
  <2> QED BY <1>1, <2>5, TendedHanded DEF Tended
<1>4. CASE GaveUp(t, h, c, tries, isr)
  <2> DEFINE b == Begin(h, c)
  <2>1. b \in Host /\ Roles(b) = Roles(h)
    BY <1>2, BeginType, BeginRoles DEF Parked
  <2>2. host' = FinishMrq(Fail(b, m, Part(c)), m)
    BY <1>2, <1>4 DEF GaveUp
  <2> HIDE DEF b
  <2>3. Owns(b, m) /\ Done(b) = {} /\ b.warned = {}
    BY <1>0, <1>2, <2>1 DEF Roles, Owns, Done
  <2>4. Handed(host', m)
    BY <1>2, <2>1, <2>2, <2>3, FailGuarded DEF Handed
  <2> QED BY <1>1, <2>4, TendedHanded DEF Tended
<1>5. CASE Backoff(t, h, c, tries, isr)
  <2>1. pc' = [pc EXCEPT ![t] = "asleep"]
    BY <1>5 DEF Backoff, Goto
  <2>2. pc'[t] = "asleep" /\ \A u \in Threads \ {t} : pc'[u] = pc[u]
    BY <1>0, <2>1 DEF IInv, TypeOK
  <2>3. CASE t = "caller"
    BY <2>2, <2>3, TendedFree
  <2>4. CASE t = "irq_thread"
    <3>1. Roles(host') = Roles(h) /\ host'.timers = h.timers
      BY <1>2, <1>5, BeginRoles, BeginFields DEF Backoff, Parked
    <3>2. Roles(host') = Roles(host) /\ Done(host) = {}
      BY <1>2, <3>1, SameFields DEF Same
    <3>3. /\ Own(host') /\ ~HasRequests(host') /\ Done(host') = {}
          /\ (Free(host') <=> Free(host))
      BY <3>2 DEF Roles, Own, Tended, Ready, Parked, HasRequests, Done, Free
    <3>4. pc'["caller"] = pc["caller"] /\ DeferredMinded'
      BY <2>2, <2>4 DEF DeferredMinded, Tending, Threads, Executors
    <3> QED BY <3>3, <3>4 DEF Tended
  <2> QED BY <2>3, <2>4 DEF Sleepers
<1> QED BY <1>3, <1>4, <1>5 DEF Try

LEMMA FailTended ==
  ASSUME IInv, Tended, NEW m \in Reqs, m = Current, Owns(host, m),
         Done(host) = {}, host.warned = {}, NEW field \in Parts,
         host' = FinishMrq(Fail(host, m, field), m), NEW t \in Threads, NEW isr,
         Continue(t, isr), firing' = firing
  PROVE  Tended'
<1> DEFINE gone == [loc[t] EXCEPT !.cmd = None, !.tries = 0,
                                  !.there = FALSE, !.isr = isr]
<1>1. Keep(t, gone) /\ gone.mrq = loc[t].mrq
  BY DEF Continue, IInv, TypeOK, Locals
<1>2. Current' = Current
  <2> HIDE DEF gone
  <2> QED BY <1>1, KeepCurrent
<1>3. Handed(host', m)
  BY FailGuarded DEF Handed, IInv, TypeOK, ErrorFields
<1> QED BY <1>2, <1>3, TendedHanded DEF Tended

LEMMA CallerTended ==
  ASSUME IInv, Once, IInv', Once', Ledger, Tended, Caller
  PROVE  Tended'
<1>0. /\ "caller" \in Threads /\ "caller" \in Sleepers /\ host \in Host
      /\ firing' = firing /\ sem_ack \in {0, 1} /\ Current \in MaybeReq
      /\ pc \in [Threads -> Labels]
  BY DEF IInv, TypeOK, Threads, Sleepers, Once, Current, Locals, Caller, Submit,
         RequestPresent, Request, Return
<1>1. ASSUME NEW m \in Reqs, Submit(m)
      PROVE  Tended'
  <2>1. sem_ack = 0
    BY <1>1 DEF Submit, Once
  <2>2. pc'["caller"] = "enter" \/ sem_ack' = 1
    BY <1>0, <1>1, <2>1 DEF Submit, Goto
  <2> QED BY <1>0, <2>2, TendedFree
<1>2. CASE RequestPresent \/ Return
  <2>1. pc'["caller"] # "wait"
    BY <1>0, <1>2 DEF RequestPresent, Return, Goto
  <2> QED BY <1>0, <2>1, TendedFree
<1>3. CASE Request
  <2>1. /\ Free(host) /\ sem_ack = 0 /\ Current \in Reqs
        /\ UNCHANGED <<irq, firing, wake, sem_ack>> /\ Same(host, host)
        /\ host.warned = {} /\ Owns(host, Current) /\ host.deferred_cmd = None
    <3>1. Free(host) /\ sem_ack = 0 /\ Current # None
      BY <1>0, <1>3 DEF Request, Once
    <3> QED BY <1>0, <1>3, <3>1 DEF Request, Once, OneRole, Free, Same, MaybeReq
  <2>2. Ready(host, Current, FirstCmd(Current)) /\ Done(host) = {}
    BY <2>1, FirstReady
  <2>3. Lawful(FirstCmd(Current))
    BY DEF FirstCmd, Lawful, Mrq, Part
  <2>4. CASE Try("caller", host, FirstCmd(Current), MaxTries, FALSE)
    BY <1>0, <2>1, <2>2, <2>3, <2>4, TryTended
  <2>5. CASE /\ host' = FinishMrq(Fail(host, Current, "cmd"), Current)
             /\ Continue("caller", FALSE)
    BY <1>0, <2>1, <2>2, <2>5, FailTended DEF Parts
  <2> QED BY <1>3, <2>4, <2>5 DEF Request, Current
<1> QED BY <1>1, <1>2, <1>3 DEF Caller

LEMMA RetryTended ==
  ASSUME IInv, Once, IInv', Once', Ledger, Tended, NEW t \in Sleepers, Retry(t)
  PROVE  Tended'
<1> DEFINE c == loc[t].cmd
           isr == loc[t].isr
<1>1. /\ pc[t] = "retry" /\ UNCHANGED <<irq, firing, wake, sem_ack>>
      /\ t \in Threads
  BY DEF Retry, Sleepers, Threads, Executors
<1>2. host \in Host /\ Same(host, host)
  BY DEF IInv, TypeOK, Same
<1>3. /\ sem_ack = 0 /\ Current \in Reqs /\ Ready(host, Current, c)
      /\ Owns(host, Current) /\ host.deferred_cmd \in {None, c}
      /\ host.warned = {} /\ Done(host) = {} /\ ~Disappeared(t)
  BY <1>1, RetryReady
<1>4. Lawful(c)
  <2>1. CASE t = "caller"
    <3>1. c = FirstCmd(Current)
      BY <1>1, <2>1 DEF Once, InHand, Asleep
    <3> QED BY <3>1 DEF FirstCmd, Lawful, Mrq, Part
  <2>2. CASE t = "irq_thread"
    <3>1. c = host.deferred_cmd
      BY <1>1, <2>2 DEF Once, InHand, Asleep
    <3> QED BY <3>1 DEF Tended, Own
  <2> QED BY <2>1, <2>2 DEF Sleepers
<1>5. CASE Try(t, host, c, loc[t].tries, isr)
  BY <1>1, <1>2, <1>3, <1>4, <1>5, TryTended DEF Tending
<1>6. CASE /\ host' = IF Disappeared(t) THEN host
                      ELSE FinishMrq(Fail(host, Mrq(c), Part(c)), Mrq(c))
           /\ Continue(t, isr)
  <2>1. Mrq(c) = Current /\ Part(c) \in Parts
    BY <1>3, CommandParts DEF Ready
  <2>2. host' = FinishMrq(Fail(host, Current, Part(c)), Current)
    BY <1>3, <1>6, <2>1
  <2> QED BY <1>1, <1>3, <1>6, <2>1, <2>2, FailTended
<1> QED BY <1>5, <1>6 DEF Retry

LEMMA RetryPollTended ==
  ASSUME IInv, Once', Tended, NEW t \in Sleepers, RetryPoll(t)
  PROVE  Tended'
<1> DEFINE seen == [loc[t] EXCEPT !.there = present]
<1>1. /\ t \in Threads /\ pc[t] = "asleep" /\ pc'[t] = "retry"
      /\ \A u \in Threads \ {t} : pc'[u] = pc[u]
      /\ UNCHANGED <<host, irq, firing, wake, sem_ack>>
  BY DEF RetryPoll, Goto, IInv, TypeOK, Sleepers, Threads, Executors
<1>2. CASE t = "caller"
  BY <1>1, <1>2, TendedFree
<1>3. CASE t = "irq_thread"
  <2>1. Keep(t, seen) /\ seen.mrq = loc[t].mrq
    BY <1>1 DEF RetryPoll, IInv, TypeOK, Locals
  <2>2. Current' = Current
    <3> HIDE DEF seen
    <3> QED BY <1>1, <2>1, KeepCurrent
  <2>3. /\ pc'["caller"] = pc["caller"] /\ DeferredMinded'
        /\ DoneMinded => DoneMinded'
    BY <1>1, <1>3 DEF DeferredMinded, Tending, DoneMinded, Threads, Executors
  <2> QED BY <1>1, <2>2, <2>3, TendedStay DEF Tended, Unlocked
<1> QED BY <1>2, <1>3 DEF Sleepers

LEMMA IrqThreadTended ==
  ASSUME IInv, Once, IInv', Once', Ledger, Tended, IrqThread
  PROVE  Tended'
<1> DEFINE t == "irq_thread"
<1>0. /\ t \in Threads /\ "caller" \in Threads /\ host \in Host /\ t \in Sleepers
      /\ Current \in MaybeReq /\ OneRole(host, Current) /\ firing' = firing
      /\ UNCHANGED <<irq, firing, sem_ack>>
      /\ pc \in [Threads -> Labels] /\ t \in Executors
  BY DEF IInv, TypeOK, Current, Locals, Threads, Executors, Sleepers, Once,
         IrqThread, IrqThreadStart, Deferred, CardEventPresent, CardEventLocked
<1>1. CASE IrqThreadStart
  <2>1. pc'[t] = "done" /\ pc'["caller"] = pc["caller"] /\ UNCHANGED <<host, loc>>
    BY <1>0, <1>1 DEF IrqThreadStart, Goto
  <2>2. DoneMinded' /\ DeferredMinded' /\ Current' = Current
    BY <1>0, <2>1 DEF DoneMinded, DeferredMinded, Tending, Current
  <2> QED BY <1>0, <2>1, <2>2, TendedStay DEF Tended, Unlocked
<1>2. CASE Deferred
  <2> DEFINE isr == host.thread_isr
             h == [host EXCEPT !.thread_isr = FALSE]
  <2>1. h \in Host /\ Same(host, h) /\ h.timers = host.timers /\ h.work = host.work
    BY <1>0 DEF Host, Same, Roles, Ends
  <2>2. Unlocked /\ wake' = wake /\ pc[t] = "deferred"
    BY <1>2 DEF Deferred
  <2>3. CASE host.deferred_cmd = None /\ host' = h /\ Continue(t, isr)
    <3> DEFINE gone == [loc[t] EXCEPT !.cmd = None, !.tries = 0,
                                      !.there = FALSE, !.isr = isr]
    <3>1. Keep(t, gone) /\ gone.mrq = loc[t].mrq
      BY <1>0, <2>3 DEF Continue, IInv, TypeOK, Locals
    <3> HIDE DEF gone
    <3>2. Current' = Current
      BY <1>0, <3>1, KeepCurrent
    <3> HIDE DEF h
    <3>3. \A u \in Threads \ {t} : pc'[u] = pc[u]
      BY <1>0, <2>3 DEF Continue, Goto
    <3>4. DoneMinded => DoneMinded'
      BY <1>0, <2>1, <2>2, <2>3, <3>3 DEF DoneMinded, Executors, Threads
    <3>5. pc'["caller"] = pc["caller"] /\ Roles(host') = Roles(host)
      BY <1>0, <2>1, <2>3, <3>3 DEF Same
    <3> QED BY <1>0, <2>1, <2>2, <2>3, <3>2, <3>4, <3>5, TendedStay
            DEF Tended, Unlocked
  <2>4. CASE /\ host.deferred_cmd # None
             /\ Try(t, h, host.deferred_cmd, MaxTries, isr)
    <3>1. h.warned = {}
      BY <1>0, <2>1 DEF OneRole, Same, Roles
    <3>2. Lawful(host.deferred_cmd)
      BY DEF Tended, Own
    <3> HIDE DEF h, isr
    <3> QED BY <1>0, <2>1, <2>2, <2>4, <3>1, <3>2, DeferredReady, TryTended
            DEF Tending
  <2> QED BY <1>2, <2>3, <2>4 DEF Deferred
<1>3. CASE CardEventPresent
  <2> DEFINE seen == [loc[t] EXCEPT !.there = present, !.isr = FALSE]
  <2>1. Keep(t, seen) /\ seen.mrq = loc[t].mrq
    BY <1>0, <1>3 DEF CardEventPresent, IInv, TypeOK, Locals
  <2>2. Current' = Current
    <3> HIDE DEF seen
    <3> QED BY <1>0, <2>1, KeepCurrent
  <2>3. /\ pc[t] = "event" /\ UNCHANGED <<host, wake>>
        /\ \A u \in Threads \ {t} : pc'[u] = pc[u]
    BY <1>0, <1>3 DEF CardEventPresent, Goto
  <2>4. /\ pc'["caller"] = pc["caller"]
        /\ (DoneMinded => DoneMinded') /\ (DeferredMinded => DeferredMinded')
    BY <1>0, <2>3 DEF DoneMinded, DeferredMinded, Tending, Executors, Threads
  <2> QED BY <1>0, <2>2, <2>3, <2>4, TendedStay DEF Tended, Unlocked
<1>4. CASE CardEventLocked
  <2>1. Current' = Current
    BY <1>0, <1>4 DEF CardEventLocked, Keep, Current
  <2>2. host' = CardEvent(host, loc[t].there) /\ loc[t].there \in BOOLEAN
    BY <1>0, <1>4 DEF CardEventLocked, IInv, TypeOK, Locals
  <2>3. /\ pc[t] = "removed" /\ wake' = wake
        /\ \A u \in Threads \ {t} : pc'[u] = pc[u]
    BY <1>0, <1>4 DEF CardEventLocked, Goto
  <2>4. CASE host' = host
    <3>1. /\ pc'["caller"] = pc["caller"]
          /\ (DoneMinded => DoneMinded') /\ (DeferredMinded => DeferredMinded')
      BY <1>0, <2>3, <2>4 DEF DoneMinded, DeferredMinded, Tending, Executors, Threads
    <3> QED BY <1>0, <2>1, <2>4, <3>1, TendedStay DEF Tended, Unlocked
  <2>5. CASE Handed(host', Current)
    BY <1>0, <2>1, <2>5, TendedHanded DEF Tended
  <2> QED BY <1>0, <2>2, <2>4, <2>5, CardEventHanded
<1> QED BY <1>1, <1>2, <1>3, <1>4 DEF IrqThread

LEMMA ExecutorTended ==
  ASSUME IInv, Once, Unmapping, Once', Tended, NEW t \in Executors, Executor(t)
  PROVE  Tended'
<1>0. /\ host \in Host /\ sem_ack \in {0, 1} /\ OneRole(host, Current)
      /\ pc \in [Threads -> Labels] /\ t \in Threads /\ t # "caller"
      /\ "caller" \in Threads
  BY DEF IInv, TypeOK, Once, Threads, Executors
<1>1. /\ UNCHANGED <<irq, firing, wake>> /\ Current' = Current
      /\ pc[t] \in {"done", "unmap", "relock"}
  BY ExecutorCurrent DEF Executor, RequestDone, Unmap, Relock
<1>2. CASE RequestDone(t) /\ Done(host) = {}
  <2>1. /\ UNCHANGED <<host, sem_ack>>
        /\ pc' = [pc EXCEPT ![t] = IF t = "worker" THEN "idle" ELSE "deferred"]
    BY <1>0, <1>2 DEF RequestDone, LeaveLoop, Goto
  <2>2. pc'["caller"] = pc["caller"]
    BY <1>0, <2>1
  <2>3. DeferredMinded => DeferredMinded'
    BY <1>0, <1>1, <2>1 DEF DeferredMinded, Tending, Executors, Threads
  <2> QED BY <1>1, <1>2, <2>1, <2>2, <2>3, TendedStay DEF Tended, Unlocked
<1>3. ASSUME UNCHANGED <<host, sem_ack>>, NEW label \in {"unmap", "relock"},
             Goto(t, label), Done(host) # {}
      PROVE  Tended'
  <2>1. /\ pc'["caller"] = pc["caller"] /\ pc'[t] = label
    BY <1>0, <1>3 DEF Goto
  <2>2. DoneMinded'
    BY <2>1 DEF DoneMinded
  <2>3. host.deferred_cmd = None
    BY <1>0, <1>3 DEF OneRole
  <2> QED BY <1>1, <1>3, <2>1, <2>2, <2>3, TendedStay DEF Tended, Unlocked
<1>4. ASSUME NEW i \in Done(host),
             Finish(t, [host EXCEPT !.mapped = @ \ {Current}], i, Current)
      PROVE  Tended'
  <2> DEFINE h == [host EXCEPT !.mapped = @ \ {Current}]
  <2>1. Finish(t, h, i, Current)
    BY <1>4
  <2>2. h.cmd = host.cmd /\ h.data_cmd = host.data_cmd
    BY <1>0 DEF Host
  <2> HIDE DEF h
  <2>3. Parked(host)
    BY <1>0 DEF OneRole
  <2>4. ~Blocked(h, Current)
    BY <2>2, <2>3 DEF Blocked, HasRequests, Parked
  <2>5. sem_ack' # 0
    BY <1>0, <2>1, <2>4 DEF Finish
  <2> QED BY <1>1, <2>5, TendedFree
<1>5. CASE RequestDone(t) /\ Done(host) # {}
  <2> DEFINE i == FirstSlot(Done(host))
             m == host.mrqs_done[i]
  <2>1. i \in Done(host)
    BY <1>5, FirstSlotType DEF Done
  <2>2. m = Current
    BY <1>0, <2>1 DEF OneRole, Owns, Done
  <2>3. \/ UNCHANGED <<host, sem_ack>> /\ Goto(t, "unmap")
        \/ Finish(t, [host EXCEPT !.mapped = @ \ {m}], i, m)
    BY <1>5 DEF RequestDone
  <2> HIDE DEF i
  <2> QED BY <1>3, <1>4, <1>5, <2>1, <2>2, <2>3
<1>6. CASE Unmap(t)
  <2>1. Done(host) # {}
    BY <1>6 DEF Unmap, Unmapping
  <2> QED BY <1>3, <1>6, <2>1 DEF Unmap
<1>7. CASE Relock(t)
  <2>1. loc[t].mrq = Current /\ loc[t].slot \in Done(host)
    BY <1>7 DEF Relock, Unmapping
  <2> QED BY <1>4, <1>7, <2>1 DEF Relock
<1> QED BY <1>2, <1>5, <1>6, <1>7 DEF Executor

LEMMA TakeStatusTended ==
  ASSUME IInv, Tended, IrqEnter \/ IrqAgain
  PROVE  Tended'
<1>1. host \in Host
  BY DEF IInv, TypeOK
<1>2. /\ irq'.pc = "cmd" /\ UNCHANGED <<pc, loc, firing, wake, sem_ack>>
      /\ host' = [host EXCEPT !.status = {},
                              !.thread_isr = @ \/ "CARD" \in Bits(host.status)]
  BY DEF IrqEnter, IrqAgain, TakeStatus
<1>3. Roles(host') = Roles(host) /\ host'.timers = host.timers /\ host'.work = host.work
  BY <1>1, <1>2 DEF Host, Roles
<1> QED BY <1>2, <1>3, TendedAside DEF Tended, Unlocked

LEMMA IrqCmdTended ==
  ASSUME IInv, Once, Ledger, Tended, IrqCmd
  PROVE  Tended'
<1> DEFINE bits == irq.mask \cap CmdBits
<1>0. /\ host \in Host /\ OneRole(host, Current) /\ Current \in MaybeReq
      /\ irq.mask \in SUBSET IntBits
  BY DEF IInv, TypeOK, Once, Current, Locals, Threads
<1>1. /\ irq.pc = "cmd" /\ irq'.pc = "data"
      /\ UNCHANGED <<pc, loc, firing, sem_ack>>
  BY DEF IrqCmd, IInv, TypeOK
<1>2. host' = CmdIrq(host, bits)
  <2>1. CmdIrq(host, {}) = host
    BY DEF CmdIrq, AutoCmd12Failed, CrcOfDataCmd
  <2> QED BY <2>1 DEF IrqCmd
<1>3. CASE Parked(host)
  <2>1. host' = host
    BY <1>2, <1>3, NothingRuns
  <2> QED BY <1>1, <2>1, TendedTimed DEF Timed, Tended
<1>4. CASE ~Parked(host)
  <2>1. Runs(host, Current)
    BY <1>0, <1>4, RunsIf DEF Ledger, Account, Free
  <2>2. CmdInHand(host, Current, irq.mask)
    BY <1>1, <2>1 DEF Ledger, InCmd, Runs
  <2>3. Books(host', Current)
    BY <1>0, <1>2, <2>1, <2>2, CmdIrqBooks
  <2>4. Timed(host, host', Current)
    BY <1>0, <1>2, <2>1, RunsCommand, CmdIrqTimed DEF Tended
  <2> QED BY <1>1, <2>3, <2>4, BooksBusy, TendedTimed
<1> QED BY <1>3, <1>4

LEMMA IrqDataTended ==
  ASSUME IInv, Once, Ledger, Tended, IrqData
  PROVE  Tended'
<1> DEFINE bits == irq.mask \cap DataBits
<1>0. /\ host \in Host /\ OneRole(host, Current) /\ Current \in MaybeReq
      /\ irq.mask \in SUBSET IntBits
  BY DEF IInv, TypeOK, Once, Current, Locals, Threads
<1>1. /\ irq.pc = "data" /\ irq'.pc = "loop"
      /\ UNCHANGED <<pc, loc, firing, sem_ack>>
      /\ host' = IF bits = {} THEN host ELSE DataIrq(host, bits)
  BY DEF IrqData, IInv, TypeOK
<1>2. CASE bits = {} \/ Parked(host)
  <2>1. host' = host
    BY <1>1, <1>2, NothingRuns
  <2> QED BY <1>1, <2>1, TendedTimed DEF Timed, Tended
<1>3. CASE bits # {} /\ ~Parked(host)
  <2>1. Runs(host, Current)
    BY <1>0, <1>3, RunsIf DEF Ledger, Account, Free
  <2>2. DataInHand(host, Current, irq.mask)
    BY <1>1 DEF Ledger, InData
  <2>3. Books(host', Current)
    BY <1>0, <1>1, <1>3, <2>1, <2>2, DataIrqBooks
  <2>4. Timed(host, host', Current)
    BY <1>0, <1>1, <1>3, <2>1, RunsCommand, DataIrqTimed DEF Tended
  <2> QED BY <1>1, <2>3, <2>4, BooksBusy, TendedTimed
<1> QED BY <1>2, <1>3

\* The end of the handler: what it does not complete it leaves to the thread.
LEMMA FewDone ==
  ASSUME NEW h, NEW S \in SUBSET Done(h)
  PROVE  IsFiniteSet(S)
<1>1. Slots = 0 .. 1 /\ 0 \in Int /\ 1 \in Int
  BY DEF Slots, MaxMrqs
<1>2. IsFiniteSet(0 .. 1)
  BY <1>1, FS_Interval
<1>3. IsFiniteSet(Slots)
  BY <1>1, <1>2
<1>4. S \subseteq Slots
  BY DEF Done
<1> QED BY <1>3, <1>4, FS_Subset

LEMMA IrqExitTended ==
  ASSUME IInv, Once, Once', Tended, IrqExit
  PROVE  Tended'
<1> DEFINE now == {i \in Done(host) : ~DeferDone(host, host.mrqs_done[i])}
           slots == [i \in Slots |-> IF i \in now THEN None ELSE host.mrqs_done[i]]
<1>0. host \in Host /\ sem_ack \in {0, 1}
  BY DEF IInv, TypeOK, Once
<1>1. /\ host' = [host EXCEPT !.mrqs_done = slots]
      /\ sem_ack' = sem_ack + Cardinality(now)
      /\ wake' = (\/ wake \/ irq.wake
                  \/ Done(host) # now \/ host.deferred_cmd # None)
      /\ UNCHANGED <<pc, loc, firing>>
  BY DEF IrqExit
<1>2. IsFiniteSet(now)
  BY FewDone
<1>3. CASE now = {}
  <2>1. slots = host.mrqs_done
    BY <1>0, <1>3 DEF Host
  <2>2. sem_ack' = sem_ack
    <3>1. Cardinality(now) = 0
      BY <1>3, FS_EmptySet
    <3> HIDE DEF now, slots
    <3> QED BY <1>0, <1>1, <3>1
  <2>3. host' = host
    <3> HIDE DEF slots
    <3> QED BY <1>0, <1>1, <2>1 DEF Host
  <2>4. Done(host) # {} \/ host.deferred_cmd # None => wake'
    BY <1>1, <1>3
  <2>5. Current' = Current
    BY <1>1 DEF Current
  <2> HIDE DEF now
  <2> QED BY <1>1, <2>2, <2>3, <2>4, <2>5 DEF Tended, DoneMinded, DeferredMinded
<1>4. CASE now # {}
  <2>1. Cardinality(now) \in Nat /\ Cardinality(now) # 0
    BY <1>2, <1>4, FS_CardinalityType, FS_EmptySet
  <2> HIDE DEF now, slots
  <2>2. sem_ack' # 0
    BY <1>0, <1>1, <2>1
  <2> QED BY <1>1, <2>2, TendedFree
<1> QED BY <1>3, <1>4

LEMMA HardwareTended ==
  ASSUME IInv, Tended, Hardware \/ HwCard
  PROVE  Tended'
<1> DEFINE Aside == /\ Roles(host') = Roles(host) /\ host'.timers = host.timers
                    /\ host'.work = host.work
                    /\ UNCHANGED <<irq, pc, loc, firing, wake, sem_ack>>
<1>0. host \in Host
  BY DEF IInv, TypeOK
<1>1. ASSUME HwResponse PROVE Aside
  <2>1. PICK held \in Hold("cmd"), new \in SUBSET ErrorFields :
          host' = [host EXCEPT !.cmdLine = None, !.held = held,
                               !.status = Raise({"RESPONSE"}, host.cmdLine),
                               !.served = new]
    <3>1. host.served \cup {Part(host.cmdLine)} \in SUBSET ErrorFields
      BY <1>0, <1>1, CommandParts DEF HwResponse, Host, MaybeCmd, ErrorFields
    <3> QED BY <1>1, <3>1 DEF HwResponse
  <2> QED BY <1>0, <1>1, <2>1 DEF Host, Roles, HwResponse, HwUnchanged
<1>2. ASSUME HwCmdError PROVE Aside
  <2>1. PICK held \in Hold("cmd"), bits \in SUBSET IntBits :
          host' = [host EXCEPT !.cmdLine = None, !.held = held,
                               !.status = Raise(bits, host.cmdLine)]
    BY <1>2 DEF HwCmdError, IntBits, CmdBits, DataBits
  <2> QED BY <1>0, <1>2, <2>1 DEF Host, Roles, HwCmdError, HwUnchanged
<1>3. ASSUME HwDataEnd PROVE Aside
  BY <1>0, <1>3 DEF Host, Roles, HwDataEnd, HwUnchanged
<1>4. ASSUME HwDataError PROVE Aside
  <2>1. PICK held \in Hold("dat"), bits \in SUBSET IntBits :
          host' = [host EXCEPT !.datLine = None, !.held = held,
                               !.status = Raise(bits, host.datLine)]
    BY <1>4 DEF HwDataError, IntBits, CmdBits, DataBits
  <2> QED BY <1>0, <1>4, <2>1 DEF Host, Roles, HwDataError, HwUnchanged
<1>5. ASSUME NEW l \in Lines, HwRelease(l) PROVE Aside
  BY <1>0, <1>5 DEF Host, Roles, HwRelease, HwUnchanged
<1>6. ASSUME HwCard PROVE Aside
  BY <1>0, <1>6 DEF Host, Roles, HwCard, HwUnchanged
<1>7. Aside
  BY <1>1, <1>2, <1>3, <1>4, <1>5, <1>6 DEF Hardware
<1> HIDE DEF Aside
<1>8. /\ Roles(host') = Roles(host) /\ host'.timers = host.timers
      /\ host'.work = host.work
      /\ UNCHANGED <<irq, pc, loc, firing, wake, sem_ack>>
  BY <1>7 DEF Aside
<1> QED BY <1>8, TendedAside DEF Tended, Unlocked

LEMMA OtherTended ==
  ASSUME Prompt, IInv, Once, Ledger, Tended,
         WorkerStart \/ \E x \in Timers : TimerExpire(x) \/ TimerRun(x)
  PROVE  Tended'
<1>0. /\ host \in Host /\ OneRole(host, Current) /\ Current \in MaybeReq
      /\ pc \in [Threads -> Labels]
  BY DEF IInv, TypeOK, Once, Current, Locals, Threads
<1>1. CASE WorkerStart
  <2>1. /\ pc'["worker"] = "done" /\ \A u \in Threads \ {"worker"} : pc'[u] = pc[u]
        /\ UNCHANGED <<irq, loc, firing, wake, sem_ack>>
    BY <1>0, <1>1 DEF WorkerStart, Goto, Threads, Executors
  <2>2. Roles(host') = Roles(host) /\ host'.timers = host.timers
    BY <1>0, <1>1 DEF WorkerStart, Roles, Host
  <2>3. /\ DoneMinded' /\ pc'["caller"] = pc["caller"] /\ Current' = Current
        /\ (DeferredMinded => DeferredMinded')
    BY <2>1 DEF DoneMinded, DeferredMinded, Current, Threads, Executors
  <2> QED BY <2>1, <2>2, <2>3, TendedStay DEF Tended, Unlocked
<1>2. ASSUME NEW x \in Timers, TimerExpire(x)
      PROVE  Tended'
  <2>1. /\ Roles(host') = Roles(host) /\ host'.timers = host.timers \ {x}
        /\ host'.work = host.work /\ firing' = firing \cup {x}
    BY <1>0, <1>2 DEF TimerExpire, Roles, Host
  <2> QED BY <1>2, <2>1, TendedAside DEF TimerExpire, Unlocked
<1>3. ASSUME NEW x \in Timers, TimerRun(x)
      PROVE  Tended'
  <2>1. /\ x \in firing /\ firing' = firing \ {x}
        /\ host' = IF x = "timer" THEN TimeoutTimer(host) ELSE TimeoutDataTimer(host)
        /\ UNCHANGED <<irq, pc, loc, wake, sem_ack>>
    BY <1>3 DEF TimerRun
  <2>2. Current' = Current /\ x \in {"timer", "data_timer"} /\ "stall" \in Faults
    BY <2>1 DEF Current, Timers, Tended
  <2>3. CASE Parked(host)
    <3>1. host' = host /\ ~HasRequests(host)
      BY <2>1, <2>3, NothingRuns DEF Parked, HasRequests
    <3> QED BY <2>1, <2>2, <3>1 DEF Tended, DoneMinded, DeferredMinded, Unlocked
  <2>4. CASE ~Parked(host)
    <3>1. Runs(host, Current) /\ Current \in Reqs
      <4>1. ~Free(host)
        BY <2>4 DEF Free
      <4> QED BY <1>0, <2>4, <4>1, Busily, RunsIf DEF Ledger, Account
    <3>2. Current \notin WithStop /\ ~ManualCmd23(Current)
      BY <2>2, <3>1 DEF Prompt
    <3>3. \/ Handed(host', Current)
          \/ host' = host /\ TimerOf(Current) # x
      BY <1>0, <2>1, <2>2, <3>1, <3>2, TimeoutTimerHanded, TimeoutDataTimerHanded
         DEF Tended
    <3>4. CASE Handed(host', Current)
      BY <2>2, <3>4, TendedHanded
    <3>5. CASE host' = host /\ TimerOf(Current) # x
      BY <2>1, <2>2, <3>5 DEF Tended, DoneMinded, DeferredMinded, Unlocked
    <3> QED BY <3>3, <3>4, <3>5
  <2> QED BY <2>3, <2>4
<1> QED BY <1>1, <1>2, <1>3

LEMMA NextTended ==
  ASSUME Prompt
  PROVE  Core /\ Tended /\ IInv' /\ Once' /\ [Next]_vars => Tended'
<1> SUFFICES ASSUME IInv, Once, Unmapping, Ledger, Tended, IInv', Once', [Next]_vars
             PROVE  Tended'
  BY DEF Core
<1>1. CASE UNCHANGED vars
  BY <1>1, TendedAside DEF vars, Tended, Unlocked
<1>2. CASE Next
  BY <1>2, CallerTended, RetryPollTended, RetryTended, TakeStatusTended,
     IrqCmdTended, IrqDataTended, IrqExitTended, IrqThreadTended, ExecutorTended,
     OtherTended, HardwareTended DEF Next, Irq
<1> QED BY <1>1, <1>2

\* A request the caller waits for is always somewhere it will be picked up from:
\* it runs under its timer, or a thread that is awake, or about to be woken, will
\* find it.  So it is without scatter-gather DMA if, where answers may be late,
\* the driver sends no command of its own, and with it if answers come in time.
THEOREM NotForgottenAlways ==
  ASSUME InTime, Prompt
  PROVE  Spec => []NotForgotten
<1>1. Init => Core /\ Tended
  BY InitCore, InitTended
<1>2. Core /\ Tended /\ [Next]_vars => (Core /\ Tended)'
  <2> SUFFICES ASSUME Core, Tended, [Next]_vars PROVE Core' /\ Tended'
    OBVIOUS
  <2>1. Core'
    BY NextCore
  <2> QED BY <2>1, NextTended DEF Core
<1>3. Core /\ Tended => NotForgotten
  BY TendedNotForgotten DEF Core
<1> QED BY <1>1, <1>2, <1>3, PTL DEF Spec

-----------------------------------------------------------------------------
(* The aligned buffers of scatter-gather DMA *)

\* Only a realigned request the caller waits for has a buffer.
Unlent == \A m \in Reqs : m # Current \/ m \notin Realigned => buf[m] = "none"

\* It is there until a thread unmaps the request, on its way to complete it.
Lent ==
  sem_ack = 0 /\ Current \in Realigned =>
    buf[Current] = IF pc["irq_thread"] = "relock" THEN "freed" ELSE "held"

\* A request whose data went out is mapped until it is completed, so that it is
\* not completed before a thread has unmapped it.
Carried ==
  sem_ack = 0 /\ Current \in WithData /\ Current \notin host.mapped =>
    host.datLine = None /\ host.data = None /\ "data" \notin host.served

Unserved == pc["caller"] # "wait" => host.served = {}

HandedOver ==
  sem_ack = 1 /\ Current \in Realigned =>
    /\ buf[Current] # "twice"
    /\ host.error[Current] = {} => buf[Current] = "freed"

Buffers == Unlent /\ Lent /\ Carried /\ Unserved /\ HandedOver

\* What the steps of the driver and the controller are looked at under.
Lending == Mapping = "sg" /\ Core /\ Buffers

LEMMA InitBuffers == Init => Buffers
<1> SUFFICES ASSUME Init PROVE Buffers
  OBVIOUS
<1>1. /\ Current = None /\ host.served = {} /\ sem_ack = 0
      /\ \A m \in Reqs : buf[m] = "none"
  BY DEF Init, Current, NoLocals, Threads, InitHost
<1>2. None \notin WithData /\ None \notin Realigned
  BY RequestAssumption, EnvironmentAssumption
<1> QED BY <1>1, <1>2 DEF Buffers, Unlent, Lent, Carried, Unserved, HandedOver

LEMMA BuffersBuffered == Core /\ Buffers => Delivered /\ FreedOnce
<1> SUFFICES ASSUME Core, Buffers PROVE Delivered /\ FreedOnce
  OBVIOUS
<1>1. sem_ack \in {0, 1} /\ (Completed => sem_ack = 1)
  BY DEF Core, Once, Completed
<1>2. Delivered
  BY <1>1 DEF Delivered, Buffers, HandedOver
<1>3. \A m \in Reqs : buf[m] # "twice"
  BY <1>1 DEF Buffers, Unlent, Lent, HandedOver
<1> QED BY <1>2, <1>3 DEF FreedOnce

\* A step that keeps the request where it is, as far as its buffer goes.
LEMMA BuffersCalm ==
  ASSUME Buffers, Calm(host, host', Current), Current' = Current,
         UNCHANGED <<sem_ack, buf>>, sem_ack = 1 => host'.error = host.error,
         pc'["caller"] # "wait" => pc["caller"] # "wait",
         pc'["irq_thread"] = "relock" <=> pc["irq_thread"] = "relock"
  PROVE  Buffers'
<1>1. Carried'
  BY DEF Buffers, Carried, Calm
<1> QED BY <1>1 DEF Buffers, Unlent, Lent, Unserved, HandedOver, Calm

\* The request is completed: unmapped by the thread, or never mapped.
LEMMA BuffersCompleted ==
  ASSUME IInv, Buffers, Truthful', sem_ack = 0, sem_ack' = 1, Current' = Current,
         host'.served = host.served, UNCHANGED buf,
         pc["caller"] = "wait" /\ pc'["caller"] = "wait",
         Current \notin host.mapped \/ pc["irq_thread"] = "relock"
  PROVE  Buffers'
<1>1. Unlent' /\ Lent' /\ Carried' /\ Unserved'
  BY DEF Buffers, Unlent, Lent, Carried, Unserved
<1>2. ASSUME Current \in Realigned
      PROVE  /\ buf[Current] # "twice"
             /\ host'.error[Current] = {} => buf[Current] = "freed"
  <2>1. Current \in WithData /\ Current # None
    BY <1>2, RequestAssumption, EnvironmentAssumption
  <2>2. buf[Current] \in {"freed", "held"}
    BY <1>2 DEF Buffers, Lent
  <2>3. CASE pc["irq_thread"] = "relock"
    BY <1>2, <2>3 DEF Buffers, Lent
  <2>4. CASE Current \notin host.mapped
    <3>1. "data" \notin host'.served
      BY <2>1, <2>4 DEF Buffers, Carried
    <3>2. host'.error[Current] # {}
      BY <2>1, <3>1 DEF Truthful, Completed
    <3> QED BY <2>2, <3>2
  <2> QED BY <2>3, <2>4
<1>3. HandedOver'
  BY <1>2 DEF HandedOver
<1> QED BY <1>1, <1>3 DEF Buffers

LEMMA CallerBuffers ==
  ASSUME InTime, Lending, Core', Caller
  PROVE  Buffers'
<1>0. /\ host \in Host /\ "caller" \in Threads /\ loc["caller"] \in Locals
      /\ loc \in [Threads -> Locals] /\ pc \in [Threads -> Labels]
      /\ buf \in [Reqs -> {"none", "held", "freed", "twice"}]
      /\ "irq_thread" \in Threads /\ sem_ack \in {0, 1}
  BY DEF Lending, Core, Once, IInv, TypeOK, Threads, Executors
<1>1. pc["irq_thread"] # "relock" /\ pc'["irq_thread"] = pc["irq_thread"]
  <2>1. ~Held
    <3> SUFFICES ASSUME Held PROVE FALSE
      OBVIOUS
    <3>1. pc["caller"] = "wait" /\ sem_ack = 0
      BY HeldParked DEF Lending, Core
    <3> QED BY <3>1 DEF Caller, Submit, RequestPresent, Request, Return
  <2>2. \E label : Goto("caller", label)
    BY RequestCalm DEF Caller, Submit, RequestPresent, Return, Lending, Core
  <2> QED BY <1>0, <2>1, <2>2 DEF Held, Out, Executors, Goto
<1>2. ASSUME NEW m \in Reqs, Submit(m)
      PROVE  Buffers'
  <2>1. pc["caller"] = "idle" /\ Current = None /\ sem_ack = 0 /\ Free(host)
    BY <1>2 DEF Submit, Lending, Core, Once
  <2>2. \A n \in Reqs : buf[n] = "none"
    BY <2>1, RequestAssumption DEF Lending, Buffers, Unlent
  <2>3. Current' = m
    <3>1. loc' = [loc EXCEPT !["caller"] = [loc["caller"] EXCEPT !.mrq = m]]
      BY <1>2 DEF Submit, Keep
    <3> QED BY <1>0, <3>1 DEF Current, Locals
  <2>4. /\ host.datLine = None /\ host.data = None /\ host.served = {}
    BY <2>1 DEF Lending, Core, Ledger, Account, AtRest, Silent, Buffers, Unserved,
       Free, Parked
  <2>5. CASE /\ Goto("caller", "enter")
             /\ buf' = [buf EXCEPT ![m] = IF m \in Realigned THEN "held" ELSE @]
             /\ UNCHANGED <<host, sem_ack>>
    <3>1. \A n \in Reqs : buf'[n] = IF n = m /\ m \in Realigned THEN "held" ELSE "none"
      BY <1>0, <2>2, <2>5
    <3> QED BY <1>1, <2>1, <2>3, <2>4, <2>5, <3>1
            DEF Buffers, Unlent, Lent, Carried, Unserved, HandedOver
  <2>6. CASE /\ host' = Fail(host, m, "data") /\ sem_ack' = sem_ack + 1
             /\ Goto("caller", "wait") /\ UNCHANGED buf
    <3>1. host'.error[m] # {}
      <4>1. "data" \in ErrorFields
        BY DEF ErrorFields
      <4>2. Fail(host, m, "data").error[m] = host.error[m] \cup {"data"}
        BY <1>0, <4>1, FailFields
      <4> QED BY <2>6, <4>2
    <3>2. pc'["caller"] = "wait" /\ sem_ack' = 1
      BY <1>0, <2>1, <2>6 DEF Goto
    <3> QED BY <2>2, <2>3, <2>6, <3>1, <3>2
            DEF Buffers, Unlent, Lent, Carried, Unserved, HandedOver
  <2> QED BY <1>2, <2>5, <2>6 DEF Submit
<1>3. CASE RequestPresent
  <2>1. loc' = [loc EXCEPT !["caller"] = [loc["caller"] EXCEPT !.there = present]]
    BY <1>3 DEF RequestPresent, Keep
  <2>2. Current' = Current
    BY <1>0, <2>1 DEF Current, Locals
  <2>3. pc["caller"] # "wait" /\ host' = host /\ UNCHANGED <<sem_ack, buf>>
    BY <1>3 DEF RequestPresent
  <2> QED BY <1>1, <2>2, <2>3, SelfCalm, BuffersCalm DEF Lending
<1>4. CASE Request
  <2>1. Calm(host, host', Current) /\ Current' = Current
    BY <1>4, RequestCalm DEF Lending, Core
  <2>2. pc["caller"] # "wait" /\ UNCHANGED <<sem_ack, buf>> /\ sem_ack # 1
    BY <1>4 DEF Request, Lending, Core, Once
  <2> QED BY <1>1, <2>1, <2>2, BuffersCalm DEF Lending
<1>5. CASE Return
  <2>1. sem_ack' = 0 /\ Current' = None
    BY <1>0, <1>5 DEF Return, Keep, Current, NoLocals
  <2>2. host'.served = {}
    BY <1>0, <1>5 DEF Return, Host
  <2>3. \A n \in Reqs : buf'[n] = "none"
    BY <1>0, <1>5 DEF Return, Lending, Buffers, Unlent, Current
  <2>4. None \notin WithData /\ None \notin Realigned
    BY RequestAssumption, EnvironmentAssumption
  <2> QED BY <2>1, <2>2, <2>3, <2>4
          DEF Buffers, Unlent, Lent, Carried, Unserved, HandedOver
<1> QED BY <1>2, <1>3, <1>4, <1>5 DEF Caller

LEMMA IrqBuffers ==
  ASSUME Lending, Core', Truthful', Irq
  PROVE  Buffers'
<1>0. /\ host \in Host /\ Current \in MaybeReq /\ OneRole(host, Current)
      /\ UNCHANGED <<pc, loc, buf>> /\ sem_ack \in {0, 1} /\ Current' = Current
      /\ IInv /\ Once /\ Mapping = "sg"
  BY DEF Lending, Core, IInv, TypeOK, Once, Current, Locals, Threads, Irq, IrqEnter,
     IrqCmd, IrqData, IrqAgain, IrqExit
<1>1. ASSUME Calm(host, host', Current), sem_ack' = sem_ack,
             sem_ack = 1 => host'.error = host.error
      PROVE  Buffers'
  BY <1>0, <1>1, BuffersCalm DEF Lending
<1>2. CASE IrqEnter \/ IrqAgain
  <2>1. host' = [host EXCEPT !.status = {},
                             !.thread_isr = @ \/ "CARD" \in Bits(host.status)]
    BY <1>2 DEF IrqEnter, IrqAgain, TakeStatus
  <2>2. Watch(host') = Watch(host) /\ host'.error = host.error
    BY <1>0, <2>1 DEF Watch, Host
  <2>3. sem_ack' = sem_ack
    BY <1>2 DEF IrqEnter, IrqAgain
  <2>4. Calm(host, host', Current)
    BY <2>2, WatchCalm, SelfCalm
  <2> QED BY <1>1, <2>2, <2>3, <2>4
<1>3. CASE IrqCmd \/ IrqData
  <2>1. \/ host' = host \/ \E bits : host' = CmdIrq(host, bits)
        \/ \E bits : host' = DataIrq(host, bits)
    BY <1>3 DEF IrqCmd, IrqData
  <2>2. Calm(host, host', Current)
    BY <1>0, <2>1, CmdIrqCalm, DataIrqCalm, SelfCalm
  <2>3. sem_ack = 1 => host' = host
    BY <1>0, <2>1, NothingRuns DEF Once, Free
  <2> QED BY <1>1, <1>3, <2>2, <2>3 DEF IrqCmd, IrqData
<1>4. CASE IrqExit
  <2> DEFINE now == {i \in Done(host) : ~DeferDone(host, host.mrqs_done[i])}
  <2>1. /\ host' = [host EXCEPT !.mrqs_done =
                      [i \in Slots |-> IF i \in now THEN None ELSE @[i]]]
        /\ sem_ack' = sem_ack + Cardinality(now)
    BY <1>4 DEF IrqExit
  <2>2. Watch(host') = Watch(host) /\ host'.error = host.error
    <3> HIDE DEF now
    <3> QED BY <1>0, <2>1 DEF Watch, Host
  <2>3. CASE now = {}
    <3>1. sem_ack' = sem_ack
      BY <1>0, <2>1, <2>3, FS_EmptySet
    <3> QED BY <1>1, <2>2, <3>1, WatchCalm, SelfCalm
  <2>4. CASE now # {}
    <3>1. PICK i \in Done(host) : ~DeferDone(host, host.mrqs_done[i])
      BY <2>4
    <3>2. host.mrqs_done[i] = Current /\ Current \notin host.mapped
      BY <1>0, <3>1 DEF OneRole, Owns, Done, DeferDone
    <3>3. sem_ack = 0 /\ pc["caller"] = "wait"
      BY <1>0, <3>1, Busily DEF Free
    <3>4. IsFiniteSet(now) /\ Cardinality(now) # 0 /\ Cardinality(now) \in Nat
      <4>1. IsFiniteSet(now)
        BY FewDone
      <4> QED BY <2>4, <4>1, FS_EmptySet, FS_CardinalityType
    <3>5. sem_ack' \in {0, 1}
      BY DEF Core, Once
    <3>6. sem_ack' = 1
      BY <2>1, <3>3, <3>4, <3>5
    <3>7. host'.served = host.served
      BY <2>2 DEF Watch
    <3> QED BY <1>0, <3>2, <3>3, <3>6, <3>7, BuffersCompleted DEF Lending
  <2> QED BY <2>3, <2>4
<1> QED BY <1>2, <1>3, <1>4 DEF Irq

LEMMA IrqThreadBuffers ==
  ASSUME Lending, IrqThread
  PROVE  Buffers'
<1> DEFINE t == "irq_thread"
<1>0. /\ host \in Host /\ t \in Threads /\ "caller" \in Threads /\ t # "caller"
      /\ pc \in [Threads -> Labels] /\ loc \in [Threads -> Locals]
      /\ UNCHANGED <<sem_ack, buf>> /\ Quiet /\ Mapping = "sg"
      /\ host.deferred_cmd = None
  BY DEF Lending, Core, Quiet, IInv, TypeOK, Threads, Executors, IrqThread,
     IrqThreadStart, Deferred, CardEventPresent, CardEventLocked
<1>1. ASSUME host' = host \/ host' = [host EXCEPT !.thread_isr = FALSE],
             pc[t] # "relock", NEW label, label # "relock", Goto(t, label),
             NEW l, Keep(t, l)
      PROVE  Buffers'
  <2>1. Watch(host') = Watch(host) /\ host'.error = host.error
    BY <1>0, <1>1 DEF Watch, Host
  <2>2. pc'[t] = label /\ pc'["caller"] = pc["caller"] /\ Current' = Current
    BY <1>0, <1>1 DEF Goto, Keep, Current
  <2> QED BY <1>0, <1>1, <2>1, <2>2, WatchCalm, SelfCalm, BuffersCalm DEF Lending
<1>2. CASE IrqThreadStart
  <2>1. Keep(t, loc[t])
    BY <1>0, <1>2 DEF IrqThreadStart, Keep
  <2> QED BY <1>1, <1>2, <2>1 DEF IrqThreadStart
<1>3. CASE Deferred
  <2>1. host' = [host EXCEPT !.thread_isr = FALSE] /\ Continue(t, host.thread_isr)
    BY <1>0, <1>3 DEF Deferred
  <2>2. PICK label \in {"event", "idle"} : Goto(t, label)
    BY <2>1 DEF Continue
  <2>3. PICK l : Keep(t, l)
    BY <2>1 DEF Continue
  <2>4. pc[t] # "relock"
    BY <1>3 DEF Deferred
  <2> QED BY <1>1, <2>1, <2>2, <2>3, <2>4
<1>4. CASE CardEventPresent
  BY <1>1, <1>4 DEF CardEventPresent
<1>5. CASE CardEventLocked
  <2>1. host' = host
    BY <1>0, <1>5 DEF CardEventLocked, CardEvent, Quiet
  <2> QED BY <1>1, <1>5, <2>1 DEF CardEventLocked
<1> QED BY <1>2, <1>3, <1>4, <1>5 DEF IrqThread

LEMMA ExecutorBuffers ==
  ASSUME Lending, Truthful', NEW t \in Executors, Executor(t)
  PROVE  Buffers'
<1>0. /\ host \in Host /\ t = "irq_thread" /\ t \in Threads /\ "caller" \in Threads
      /\ pc \in [Threads -> Labels] /\ sem_ack \in {0, 1}
      /\ IInv /\ Once /\ Unmapping /\ Mapping = "sg" /\ OneRole(host, Current)
      /\ buf \in [Reqs -> {"none", "held", "freed", "twice"}]
  BY DEF Lending, Core, Quiet, IInv, TypeOK, Threads, Executors, Once, Executor,
     RequestDone, Unmap, Relock
<1>1. Current' = Current /\ \E label : Goto(t, label)
  BY <1>0, ExecutorCurrent DEF Executor, RequestDone, Unmap, Relock, LeaveLoop, Finish
<1>2. pc'["caller"] = pc["caller"]
  BY <1>0, <1>1 DEF Goto
<1>3. ASSUME host' = host, UNCHANGED <<sem_ack, buf>>, pc[t] # "relock",
             pc'[t] # "relock"
      PROVE  Buffers'
  BY <1>0, <1>1, <1>2, <1>3, SelfCalm, BuffersCalm DEF Lending
<1>4. ASSUME NEW i \in Done(host), UNCHANGED buf,
             Finish(t, [host EXCEPT !.mapped = @ \ {Current}], i, Current),
             Current \notin host.mapped \/ pc[t] = "relock"
      PROVE  Buffers'
  <2> DEFINE h == [host EXCEPT !.mapped = @ \ {Current}]
  <2>1. Finish(t, h, i, Current)
    BY <1>4
  <2>2. ~Free(host) /\ Parked(host)
    BY <1>0, <1>4 DEF Free, OneRole
  <2>3. sem_ack = 0 /\ pc["caller"] = "wait"
    BY <1>0, <2>2, Busily
  <2>4. h \in Host /\ h.cmd = host.cmd /\ h.data_cmd = host.data_cmd
        /\ h.served = host.served
    BY <1>0 DEF Host
  <2> HIDE DEF h
  <2>5. ~Blocked(h, Current)
    BY <2>2, <2>4 DEF Blocked, HasRequests, Parked
  <2>6. host' = Complete(h, i, Current) /\ sem_ack' = 1
    BY <2>1, <2>3, <2>5 DEF Finish
  <2>7. host'.served = host.served
    <3> DEFINE r == DoReset(h, Lines)
               g == IF NeedsReset(h, Current)
                    THEN [r EXCEPT !.pending_reset = FALSE] ELSE h
    <3>1. r \in Host /\ r.served = h.served
      BY <2>4, ResetFields
    <3> HIDE DEF r
    <3>2. g \in Host /\ g.served = h.served
      BY <2>4, <3>1 DEF Host
    <3>3. Complete(h, i, Current) = [g EXCEPT !.mrqs_done[i] = None]
      BY DEF Complete, r
    <3> HIDE DEF g
    <3> QED BY <2>4, <2>6, <3>2, <3>3 DEF Host
  <2> QED BY <1>0, <1>1, <1>2, <1>4, <2>3, <2>6, <2>7, BuffersCompleted DEF Lending
<1>5. CASE RequestDone(t) /\ Done(host) = {}
  <2>1. host' = host /\ UNCHANGED <<sem_ack, buf>> /\ pc[t] = "done"
        /\ Goto(t, "deferred")
    BY <1>0, <1>5 DEF RequestDone, LeaveLoop
  <2> QED BY <1>0, <1>3, <2>1 DEF Goto
<1>6. CASE RequestDone(t) /\ Done(host) # {}
  <2> DEFINE i == FirstSlot(Done(host))
             m == host.mrqs_done[i]
  <2>1. i \in Done(host)
    BY <1>6, FirstSlotType DEF Done
  <2>2. m = Current
    BY <1>0, <2>1 DEF OneRole, Owns, Done
  <2>3. pc[t] = "done" /\ UNCHANGED buf
    BY <1>6 DEF RequestDone
  <2>4. CASE Goto(t, "unmap") /\ UNCHANGED <<host, sem_ack>>
    BY <1>0, <1>3, <2>3, <2>4 DEF Goto
  <2>5. CASE /\ m \notin host.mapped \/ Mapping # "sg"
             /\ Finish(t, [host EXCEPT !.mapped = @ \ {m}], i, m)
    <3> HIDE DEF i
    <3> QED BY <1>0, <1>4, <2>1, <2>2, <2>3, <2>5
  <2> QED BY <1>6, <2>4, <2>5 DEF RequestDone
<1>7. CASE Unmap(t)
  <2>1. pc[t] = "unmap" /\ pc'[t] = "relock" /\ UNCHANGED <<host, sem_ack>>
    BY <1>0, <1>7 DEF Unmap, Goto
  <2>2. loc[t].mrq = Current /\ Held
    BY <1>0, <2>1 DEF Unmapping, Held, Out
  <2>3. sem_ack = 0
    BY <1>0, <2>2, HeldParked
  <2>4. buf' = [buf EXCEPT ![Current] =
                  CASE @ = "held" -> "freed"
                    [] @ \in {"freed", "twice"} -> "twice"
                    [] OTHER -> @]
    BY <1>7, <2>2 DEF Unmap
  <2>5. \A m \in Reqs : m # Current => buf'[m] = buf[m]
    BY <1>0, <2>4
  <2>6. ASSUME Current \in Reqs
        PROVE  /\ buf[Current] = "held" => buf'[Current] = "freed"
               /\ buf[Current] = "none" => buf'[Current] = "none"
    BY <1>0, <2>4, <2>6
  <2>7. Current \in Realigned => Current \in Reqs
    BY RequestAssumption, EnvironmentAssumption
  <2>8. Lent' /\ Unlent'
    BY <1>0, <1>1, <2>1, <2>3, <2>5, <2>6, <2>7 DEF Lending, Buffers, Lent, Unlent
  <2> QED BY <1>1, <1>2, <2>1, <2>3, <2>8
          DEF Lending, Buffers, Carried, Unserved, HandedOver
<1>8. CASE Relock(t)
  <2>1. pc[t] = "relock" /\ loc[t].mrq = Current /\ loc[t].slot \in Done(host)
        /\ UNCHANGED buf
    BY <1>0, <1>8 DEF Relock, Unmapping
  <2> QED BY <1>4, <1>8, <2>1 DEF Relock
<1> QED BY <1>5, <1>6, <1>7, <1>8 DEF Executor

LEMMA HardwareBuffers ==
  ASSUME Lending, Hardware \/ HwCard
  PROVE  Buffers'
<1>0. /\ host \in Host /\ sem_ack \in {0, 1} /\ IInv /\ Once /\ Ledger
      /\ UNCHANGED <<pc, sem_ack, buf>> /\ Current' = Current
      /\ host'.mapped = host.mapped /\ host'.data = host.data
  BY HardwareSame DEF Lending, Core, IInv, TypeOK, Once, Current, Roles
<1>1. /\ host'.error = host.error /\ host'.datLine \in {None, host.datLine}
      /\ \/ host'.served = host.served
         \/ /\ host.cmdLine # None
            /\ host'.served = host.served \cup {Part(host.cmdLine)}
         \/ host.datLine # None /\ host'.served = host.served \cup {"data"}
  <2>1. CASE HwResponse
    BY <1>0, <2>1 DEF HwResponse, Host
  <2>2. CASE HwCmdError
    BY <1>0, <2>2 DEF HwCmdError, Host
  <2>3. CASE HwDataEnd
    BY <1>0, <2>3 DEF HwDataEnd, Host
  <2>4. CASE HwDataError
    BY <1>0, <2>4 DEF HwDataError, Host
  <2>5. CASE \E l \in Lines : HwRelease(l)
    BY <1>0, <2>5 DEF HwRelease, Host
  <2>6. CASE HwCard
    BY <1>0, <2>6 DEF HwCard, Host
  <2> QED BY <2>1, <2>2, <2>3, <2>4, <2>5, <2>6 DEF Hardware
<1>2. host.cmdLine # None => Part(host.cmdLine) # "data"
  BY <1>0, CommandParts DEF Host, MaybeCmd, Parts
<1>3. Carried'
  BY <1>0, <1>1, <1>2 DEF Lending, Buffers, Carried
<1>4. pc["caller"] # "wait" => host.cmdLine = None /\ host.datLine = None
  BY <1>0 DEF Once, Ledger, Account, AtRest, Silent
<1>5. Unserved'
  BY <1>0, <1>1, <1>4 DEF Lending, Buffers, Unserved
<1> QED BY <1>0, <1>1, <1>3, <1>5 DEF Lending, Buffers, Unlent, Lent, HandedOver

LEMMA NextBuffers ==
  ASSUME InTime, Mapping = "sg"
  PROVE  Core /\ Buffers /\ Core' /\ Truthful' /\ [Next]_vars => Buffers'
<1> SUFFICES ASSUME Lending, Core', Truthful', [Next]_vars PROVE Buffers'
  BY DEF Lending
<1>1. CASE UNCHANGED vars
  BY <1>1 DEF vars, Lending, Buffers, Unlent, Lent, Carried, Unserved, HandedOver,
              Current
<1>2. ASSUME NEW t \in Sleepers, RetryPoll(t) \/ Retry(t)
      PROVE  FALSE
  BY <1>2 DEF Sleepers, RetryPoll, Retry, Lending, Core, Quiet, Asleep
<1>3. ~WorkerStart
  BY DEF WorkerStart, Lending, Core, Quiet
<1>4. ASSUME NEW x \in Timers, TimerExpire(x) \/ TimerRun(x)
      PROVE  FALSE
  BY <1>4 DEF TimerExpire, TimerRun, Lending, Core, Quiet, InTime
<1>5. CASE Next
  BY <1>2, <1>3, <1>4, <1>5, CallerBuffers, IrqBuffers, IrqThreadBuffers,
     ExecutorBuffers, HardwareBuffers DEF Next
<1> QED BY <1>1, <1>5

\* With scatter-gather DMA and answers in time, the core and the buffers agree in
\* every reachable state.
LEMMA BuffersAlways ==
  ASSUME Mapping = "sg", Faults \subseteq {"nomem"}
  PROVE  Spec => [](Core /\ Buffers)
<1>1. InTime
  BY DEF InTime
<1>2. Spec => []Core /\ []Truthful
  BY <1>1, CoreAlways, TruthfulAlways, PTL
<1>3. Init => Buffers
  BY InitBuffers
<1>4. Core /\ Buffers /\ Core' /\ Truthful' /\ [Next]_vars => Buffers'
  BY <1>1, NextBuffers
<1> QED BY <1>2, <1>3, <1>4, PTL DEF Spec

\* A realigned read that is reported as good has been copied to the memory of the
\* caller before the caller goes on, with scatter-gather DMA and answers in time:
\* whoever completes it, a thread has unmapped it before.
THEOREM DeliveredAlways ==
  ASSUME Mapping = "sg", Faults \subseteq {"nomem"}
  PROVE  Spec => []Delivered
BY BuffersAlways, BuffersBuffered, PTL

\* And no aligned buffer is freed twice: the run double_unmap, where answers are
\* late, shows that this needs the assumption.
THEOREM FreedOnceAlways ==
  ASSUME Mapping = "sg", Faults \subseteq {"nomem"}
  PROVE  Spec => []FreedOnce
BY BuffersAlways, BuffersBuffered, PTL

=============================================================================
