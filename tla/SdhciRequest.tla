---------------------------- MODULE SdhciRequest ----------------------------
(***************************************************************************)
(* The life of a request: the thread of the upper layer that submits it,   *)
(* the controller, the interrupt handler with its thread, the worker of    *)
(* complete_wq and the two timers, all working on the host of SdhciHost.   *)
(*                                                                         *)
(* host->lock.  A section of a thread or a timer under the lock is one     *)
(* action, enabled while the interrupt handler is not running.  The        *)
(* handler takes the lock for its whole run, which spans several actions   *)
(* so that the controller can raise bits while it works.  Where the code   *)
(* drops the lock (usleep_range, get_cd, dma_unmap_sg) an action ends.     *)
(***************************************************************************)
EXTENDS SdhciHost

CONSTANTS
  Realigned,    (* reads whose buffer __map_sg replaces by an aligned one   *)
  Faults,       (* what may go wrong outside the driver: "stall" (an answer
                   takes longer than the timeout), "remove" (the card comes
                   and goes), "inhibit" (an inhibit bit stays on after the
                   interrupt), "nomem" (rt_malloc_align fails)              *)
  MaxLoops,     (* passes of one run of the handler (16 in the code)        *)
  MaxTries      (* sleeps for an inhibit bit (10 in the code)               *)

ASSUME EnvironmentAssumption ==
  /\ Realigned \subseteq WithData
  /\ Faults \subseteq {"stall", "remove", "inhibit", "nomem"}
  /\ MaxLoops \in Nat \ {0}
  /\ MaxTries \in Nat

VARIABLES
  host,     \* the host
  irq,      \* the interrupt handler
  pc,       \* where each thread is
  loc,      \* local variables of each thread
  firing,   \* timers whose callback has left the timer list and not yet run
  wake,     \* wake flag of wait_for_threads
  sem_ack,  \* completions the upper layer has not taken
  present,  \* a card is in the slot
  buf       \* the aligned buffer of each request

vars == <<host, irq, pc, loc, firing, wake, sem_ack, present, buf>>

Executors == {"irq_thread", "worker"}
Threads == Executors \cup {"caller"}
Sleepers == {"irq_thread", "caller"}  \* users of sdhci_send_command_retry

Labels == {"idle", "enter", "lock", "asleep", "retry", "wait", "done", "unmap",
           "relock", "deferred", "event", "removed"}

\* mrq: the request the thread works for; slot: its slot of mrqs_done; cmd,
\* tries: of sdhci_send_command_retry; there: what get_cd returned; isr: the
\* copy of thread_isr.
Locals == [mrq: MaybeReq, slot: Slots, cmd: MaybeCmd, tries: 0 .. MaxTries,
           there: BOOLEAN, isr: BOOLEAN]
NoLocals == [mrq |-> None, slot |-> 0, cmd |-> None, tries |-> 0,
             there |-> FALSE, isr |-> FALSE]
IrqOff == [pc |-> "off", mask |-> {}, loops |-> 0, wake |-> FALSE]

Unlocked == irq.pc = "off"

TypeOK ==
  /\ host \in Host
  /\ irq \in [pc: {"off", "cmd", "data", "loop"}, mask: SUBSET IntBits,
              loops: 0 .. MaxLoops, wake: BOOLEAN]
  /\ pc \in [Threads -> Labels]
  /\ loc \in [Threads -> Locals]
  /\ firing \subseteq Timers
  /\ wake \in BOOLEAN
  /\ sem_ack \in Nat
  /\ present \in BOOLEAN
  /\ buf \in [Reqs -> {"none", "held", "freed", "twice"}]

Init ==
  /\ host = InitHost
  /\ irq = IrqOff
  /\ pc = [t \in Threads |-> "idle"]
  /\ loc = [t \in Threads |-> NoLocals]
  /\ firing = {}
  /\ wake = FALSE
  /\ sem_ack = 0
  /\ present = TRUE
  /\ buf = [m \in Reqs |-> "none"]

Goto(t, label) == pc' = [pc EXCEPT ![t] = label]
Keep(t, locals) == loc' = [loc EXCEPT ![t] = locals]

-----------------------------------------------------------------------------
(* sdhci_send_command_retry, for the caller and for the interrupt thread *)

\* The thread goes on after the function, isr being its copy of thread_isr.
Continue(t, isr) ==
  /\ Goto(t, IF t = "caller" THEN "wait" ELSE IF isr THEN "event" ELSE "idle")
  /\ Keep(t, [loc[t] EXCEPT !.cmd = None, !.tries = 0,
                             !.there = FALSE, !.isr = isr])

\* The command is on its way.
Sent(t, h, c, isr) ==
  LET s == SendCommand(h, c)
  IN /\ ~Inhibited(h, c)
     /\ host' = [s EXCEPT !.deferred_cmd = IF @ = c THEN None ELSE @]
     /\ Continue(t, isr)

\* The inhibit bits were never released.
GaveUp(t, h, c, tries, isr) ==
  /\ Inhibited(h, c)
  /\ tries = 0
  /\ host' = FinishMrq(Fail(Begin(h, c), Mrq(c), Part(c)), Mrq(c))
  /\ Continue(t, isr)

\* Mutant: one sleep too many.
BackoffOnceMore(t, h, c, tries, isr) ==
  /\ Inhibited(h, c)
  /\ host' = Begin(h, c)
  /\ Goto(t, "asleep")
  /\ Keep(t, [loc[t] EXCEPT !.cmd = c, !.tries = tries - 1,
                             !.there = FALSE, !.isr = isr])

\* Drop the lock and sleep.
Backoff(t, h, c, tries, isr) ==
  /\ Inhibited(h, c)
  /\ tries > 0
  /\ host' = Begin(h, c)
  /\ Goto(t, "asleep")
  /\ Keep(t, [loc[t] EXCEPT !.cmd = c, !.tries = tries - 1,
                             !.there = FALSE, !.isr = isr])

Try(t, h, c, tries, isr) ==
  \/ Sent(t, h, c, isr)
  \/ GaveUp(t, h, c, tries, isr)
  \/ Backoff(t, h, c, tries, isr)

\* usleep_range is over: look for the card, without the lock.
RetryPoll(t) ==
  /\ pc[t] = "asleep"
  /\ Keep(t, [loc[t] EXCEPT !.there = present])
  /\ Goto(t, "retry")
  /\ UNCHANGED <<host, irq, firing, wake, sem_ack, present, buf>>

\* A deferred command that disappeared during the sleep counts as sent.
Disappeared(t) == t = "irq_thread" /\ host.deferred_cmd # loc[t].cmd

Retry(t) ==
  LET c == loc[t].cmd
      isr == loc[t].isr
  IN /\ pc[t] = "retry"
     /\ Unlocked
     /\ \/ /\ ~Disappeared(t) /\ loc[t].there
           /\ Try(t, host, c, loc[t].tries, isr)
        \/ /\ Disappeared(t) \/ ~loc[t].there
           /\ host' = IF Disappeared(t) THEN host
                      ELSE FinishMrq(Fail(host, Mrq(c), Part(c)), Mrq(c))
           /\ Continue(t, isr)
     /\ UNCHANGED <<irq, firing, wake, sem_ack, present, buf>>

-----------------------------------------------------------------------------
(* The upper layer: mmcsd_send_request serialises its callers, calls         *)
(* _mmc_request and sleeps on sem_ack.                                       *)

\* _mmc_request up to the call of sdhci_request
Submit(m) ==
  /\ pc["caller"] = "idle"
  /\ Keep("caller", [loc["caller"] EXCEPT !.mrq = m])
  /\ \/ /\ Goto("caller", "enter")
        /\ buf' = [buf EXCEPT ![m] = IF m \in Realigned THEN "held" ELSE @]
        /\ UNCHANGED <<host, sem_ack>>
     \/ /\ "nomem" \in Faults /\ m \in Realigned
        /\ host' = Fail(host, m, "data")
        /\ sem_ack' = sem_ack + 1
        /\ Goto("caller", "wait")
        /\ UNCHANGED buf
  /\ UNCHANGED <<irq, firing, wake, present>>

\* sdhci_request reads the card detect line before it takes the lock.
RequestPresent ==
  /\ pc["caller"] = "enter"
  /\ Keep("caller", [loc["caller"] EXCEPT !.there = present])
  /\ Goto("caller", "lock")
  /\ UNCHANGED <<host, irq, firing, wake, sem_ack, present, buf>>

Request ==
  LET m == loc["caller"].mrq
  IN /\ pc["caller"] = "lock"
     /\ Unlocked
     /\ \/ /\ loc["caller"].there
           /\ Try("caller", host, FirstCmd(m), MaxTries, FALSE)
        \/ /\ ~loc["caller"].there
           /\ host' = FinishMrq(Fail(host, m, "cmd"), m)
           /\ Continue("caller", FALSE)
     /\ UNCHANGED <<irq, firing, wake, sem_ack, present, buf>>

\* The caller takes the completion; the request and its data are its own
\* again, and the next one starts with fields that are 0.
Return ==
  LET m == loc["caller"].mrq
  IN /\ pc["caller"] = "wait"
     /\ sem_ack > 0
     /\ sem_ack' = sem_ack - 1
     /\ host' = [host EXCEPT !.error[m] = {}, !.mapped = @ \ {m}, !.served = {}]
     /\ buf' = [buf EXCEPT ![m] = "none"]
     /\ Keep("caller", NoLocals)
     /\ Goto("caller", "idle")
     /\ UNCHANGED <<irq, firing, wake, present>>

-----------------------------------------------------------------------------
(* The interrupt handler, sdhci_irq *)

Bits(status) == {s[1] : s \in status}

\* Read and clear the status register; a card interrupt is handled at once.
TakeStatus(loops, woken) ==
  LET mask == Bits(host.status)
  IN /\ irq' = [pc |-> "cmd", mask |-> mask, loops |-> loops,
                wake |-> woken \/ "CARD" \in mask]
     /\ host' = [host EXCEPT !.status = {},
                             !.thread_isr = @ \/ "CARD" \in mask]

IrqEnter ==
  /\ Unlocked
  /\ host.status # {}
  /\ TakeStatus(MaxLoops, FALSE)
  /\ UNCHANGED <<pc, loc, firing, wake, sem_ack, present, buf>>

IrqCmd ==
  LET bits == irq.mask \cap CmdBits
  IN /\ irq.pc = "cmd"
     /\ host' = IF bits = {} THEN host ELSE CmdIrq(host, bits)
     /\ irq' = [irq EXCEPT !.pc = "data",
                           !.mask = @ \cup CmdIrqAdds(host, bits)]
     /\ UNCHANGED <<pc, loc, firing, wake, sem_ack, present, buf>>

IrqData ==
  LET bits == irq.mask \cap DataBits
  IN /\ irq.pc = "data"
     /\ host' = IF bits = {} THEN host ELSE DataIrq(host, bits)
     /\ irq' = [irq EXCEPT !.pc = "loop"]
     /\ UNCHANGED <<pc, loc, firing, wake, sem_ack, present, buf>>

IrqAgain ==
  /\ irq.pc = "loop"
  /\ host.status # {}
  /\ irq.loops > 1
  /\ TakeStatus(irq.loops - 1, irq.wake)
  /\ UNCHANGED <<pc, loc, firing, wake, sem_ack, present, buf>>

\* Mutant: the thread is not woken for the requests left to it.
IrqExitNoWake ==
  LET now == {i \in Done(host) : ~DeferDone(host, host.mrqs_done[i])}
  IN /\ irq.pc = "loop"
     /\ host.status = {} \/ irq.loops = 1
     /\ host' = [host EXCEPT !.mrqs_done =
                   [i \in Slots |-> IF i \in now THEN None ELSE @[i]]]
     /\ sem_ack' = sem_ack + Cardinality(now)
     /\ wake' = (wake \/ irq.wake \/ host.deferred_cmd # None)
     /\ irq' = IrqOff
     /\ UNCHANGED <<pc, loc, firing, present, buf>>

\* Complete the requests that need no more work and leave the others, and a
\* deferred command, to the thread.
IrqExit ==
  LET now == {i \in Done(host) : ~DeferDone(host, host.mrqs_done[i])}
  IN /\ irq.pc = "loop"
     /\ host.status = {} \/ irq.loops = 1
     /\ host' = [host EXCEPT !.mrqs_done =
                   [i \in Slots |-> IF i \in now THEN None ELSE @[i]]]
     /\ sem_ack' = sem_ack + Cardinality(now)
     /\ wake' = \/ wake \/ irq.wake
                \/ Done(host) # now \/ host.deferred_cmd # None
     /\ irq' = IrqOff
     /\ UNCHANGED <<pc, loc, firing, present, buf>>

-----------------------------------------------------------------------------
(* sdhci_request_done, run by the interrupt thread and by the worker *)

IrqThreadStart ==
  /\ pc["irq_thread"] = "idle"
  /\ wake
  /\ wake' = FALSE
  /\ Goto("irq_thread", "done")
  /\ UNCHANGED <<host, irq, loc, firing, sem_ack, present, buf>>

WorkerStart ==
  /\ pc["worker"] = "idle"
  /\ host.work
  /\ host' = [host EXCEPT !.work = FALSE]
  /\ Goto("worker", "done")
  /\ UNCHANGED <<irq, loc, firing, wake, sem_ack, present, buf>>

\* The loop over sdhci_request_done ends.
LeaveLoop(t) == Goto(t, IF t = "worker" THEN "idle" ELSE "deferred")

\* Complete the request m of slot i, or leave it while a command runs.
Finish(t, h, i, m) ==
  \/ /\ Blocked(h, m)
     /\ host' = h
     /\ LeaveLoop(t)
     /\ UNCHANGED sem_ack
  \/ /\ ~Blocked(h, m)
     /\ host' = Complete(h, i, m)
     /\ sem_ack' = sem_ack + 1
     /\ Goto(t, "done")

RequestDone(t) ==
  /\ pc[t] = "done"
  /\ Unlocked
  /\ \/ /\ Done(host) = {}
        /\ LeaveLoop(t)
        /\ UNCHANGED <<host, loc, sem_ack>>
     \/ /\ Done(host) # {}
        /\ LET i == FirstSlot(Done(host))
               m == host.mrqs_done[i]
           IN \/ /\ m \in host.mapped /\ Mapping = "sg"
                 /\ Keep(t, [loc[t] EXCEPT !.mrq = m, !.slot = i])
                 /\ Goto(t, "unmap")
                 /\ UNCHANGED <<host, sem_ack>>
              \/ /\ m \notin host.mapped \/ Mapping # "sg"
                 /\ Finish(t, [host EXCEPT !.mapped = @ \ {m}], i, m)
                 /\ UNCHANGED loc
  /\ UNCHANGED <<irq, firing, wake, present, buf>>

\* dma_unmap_sg copies the aligned buffer back and frees it, with the lock
\* dropped; the table keeps its SG_REA flag.
Unmap(t) ==
  LET m == loc[t].mrq
  IN /\ pc[t] = "unmap"
     /\ Goto(t, "relock")
     /\ buf' = [buf EXCEPT ![m] =
                  CASE @ = "held" -> "freed"
                    [] @ \in {"freed", "twice"} -> "twice"
                    [] OTHER -> @]
     /\ UNCHANGED <<host, irq, loc, firing, wake, sem_ack, present>>

Relock(t) ==
  LET m == loc[t].mrq
  IN /\ pc[t] = "relock"
     /\ Unlocked
     /\ Finish(t, [host EXCEPT !.mapped = @ \ {m}], loc[t].slot, m)
     /\ Keep(t, [loc[t] EXCEPT !.mrq = None, !.slot = 0])
     /\ UNCHANGED <<irq, firing, wake, present, buf>>

-----------------------------------------------------------------------------
(* The rest of sdhci_thread_irq *)

Deferred ==
  LET t == "irq_thread"
      isr == host.thread_isr
      h == [host EXCEPT !.thread_isr = FALSE]
  IN /\ pc[t] = "deferred"
     /\ Unlocked
     /\ \/ /\ host.deferred_cmd = None
           /\ host' = h
           /\ Continue(t, isr)
        \/ /\ host.deferred_cmd # None
           /\ Try(t, h, host.deferred_cmd, MaxTries, isr)
     /\ UNCHANGED <<irq, firing, wake, sem_ack, present, buf>>

\* sdhci_card_event reads the card detect line before it takes the lock.
CardEventPresent ==
  /\ pc["irq_thread"] = "event"
  /\ Keep("irq_thread", [loc["irq_thread"] EXCEPT !.there = present,
                                                !.isr = FALSE])
  /\ Goto("irq_thread", "removed")
  /\ UNCHANGED <<host, irq, firing, wake, sem_ack, present, buf>>

CardEventLocked ==
  /\ pc["irq_thread"] = "removed"
  /\ Unlocked
  /\ host' = CardEvent(host, loc["irq_thread"].there)
  /\ Goto("irq_thread", "idle")
  /\ Keep("irq_thread", NoLocals)
  /\ UNCHANGED <<irq, firing, wake, sem_ack, present, buf>>

-----------------------------------------------------------------------------
(* Timers.  A callback that has left the timer list is not stopped by        *)
(* del_timer.                                                                *)

TimerExpire(x) ==
  /\ "stall" \in Faults
  /\ x \in host.timers
  /\ host' = [host EXCEPT !.timers = @ \ {x}]
  /\ firing' = firing \cup {x}
  /\ UNCHANGED <<irq, pc, loc, wake, sem_ack, present, buf>>

TimerRun(x) ==
  /\ x \in firing
  /\ Unlocked
  /\ firing' = firing \ {x}
  /\ host' = IF x = "timer" THEN TimeoutTimer(host) ELSE TimeoutDataTimer(host)
  /\ UNCHANGED <<irq, pc, loc, wake, sem_ack, present, buf>>

-----------------------------------------------------------------------------
(* The controller and the card *)

HwUnchanged == UNCHANGED <<irq, pc, loc, firing, wake, sem_ack, buf>>

Raise(bits, c) == host.status \cup {<<b, c>> : b \in bits}

\* The inhibit bit of a line may outlive the interrupt that ends its use.
Hold(l) == IF "inhibit" \in Faults THEN {host.held, host.held \cup {l}}
           ELSE {host.held}

HwResponse ==
  LET c == host.cmdLine
  IN /\ c # None
     /\ \E held \in Hold("cmd") :
          host' = [host EXCEPT !.cmdLine = None, !.held = held,
                               !.status = Raise({"RESPONSE"}, c),
                               !.served = @ \cup {Part(c)}]
     /\ HwUnchanged /\ UNCHANGED present

\* No response, or a broken one; or the Auto CMD23 before the command failed.
HwCmdError ==
  LET c == host.cmdLine
  IN /\ c # None
     /\ \E bits \in {{"TIMEOUT"}, {"RESPONSE", "CRC"}} \cup
                    IF AutoCmd23 /\ Mrq(c) \in WithSbc /\ HasData(c)
                    THEN {{"AUTO_CMD_ERR"}} ELSE {} :
        \E held \in Hold("cmd") :
          host' = [host EXCEPT !.cmdLine = None, !.held = held,
                               !.status = Raise(bits, c)]
     /\ HwUnchanged /\ UNCHANGED present

\* The data are transferred, or the card is no longer busy.
HwDataEnd ==
  LET c == host.datLine
  IN /\ c # None
     /\ \E held \in Hold("dat") :
          host' = [host EXCEPT !.datLine = None, !.held = held,
                               !.status = Raise({"DATA_END"}, c),
                               !.served = @ \cup {"data"}]
     /\ HwUnchanged /\ UNCHANGED present

\* A data or busy timeout, broken data, or a failed Auto CMD12 after the data.
HwDataError ==
  LET c == host.datLine
  IN /\ c # None
     /\ \E bits \in {{"DATA_TIMEOUT"}} \cup
                    (IF HasData(c) THEN {{"DATA_CRC"}} ELSE {}) \cup
                    IF AutoCmd12 /\ HasData(c) /\ Mrq(c) \in WithStop \ WithSbc
                    THEN {{"AUTO_CMD_ERR"}} ELSE {} :
        \E held \in Hold("dat") :
          host' = [host EXCEPT !.datLine = None, !.held = held,
                               !.status = Raise(bits, c)]
     /\ HwUnchanged /\ UNCHANGED present

HwRelease(l) ==
  /\ l \in host.held
  /\ host' = [host EXCEPT !.held = @ \ {l}]
  /\ HwUnchanged /\ UNCHANGED present

\* The card is taken out or put in.
HwCard ==
  /\ "remove" \in Faults
  /\ present' = ~present
  /\ host' = [host EXCEPT !.status = Raise({"CARD"}, None)]
  /\ HwUnchanged

-----------------------------------------------------------------------------

Caller == (\E m \in Reqs : Submit(m)) \/ RequestPresent \/ Request \/ Return
Irq == IrqEnter \/ IrqCmd \/ IrqData \/ IrqAgain \/ IrqExit
Executor(t) == RequestDone(t) \/ Unmap(t) \/ Relock(t)
IrqThread == IrqThreadStart \/ Deferred \/ CardEventPresent \/ CardEventLocked
Hardware == HwResponse \/ HwCmdError \/ HwDataEnd \/ HwDataError
              \/ (\E l \in Lines : HwRelease(l))

Next ==
  \/ Caller
  \/ \E t \in Sleepers : RetryPoll(t) \/ Retry(t)
  \/ Irq
  \/ IrqThread
  \/ WorkerStart
  \/ \E t \in Executors : Executor(t)
  \/ \E x \in Timers : TimerExpire(x) \/ TimerRun(x)
  \/ Hardware
  \/ HwCard

Spec == Init /\ [][Next]_vars

(***************************************************************************)
(* Fairness, one condition for each agent.  A thread that is ready to run  *)
(* is scheduled in the end, and gets the lock in the end although          *)
(* interrupts come between (strong fairness).  The handler is entered      *)
(* while bits are set and runs to its end.  A pending timer expires.  The  *)
(* controller answers only if it never stalls; nothing is promised of the  *)
(* inhibit bits, of the card and of the caller's next request.             *)
(***************************************************************************)
CallerStep ==
  RequestPresent \/ Request \/ Return \/ RetryPoll("caller") \/ Retry("caller")
IrqThreadStep ==
  \/ IrqThread \/ Executor("irq_thread")
  \/ RetryPoll("irq_thread") \/ Retry("irq_thread")
WorkerStep == WorkerStart \/ Executor("worker")
TimerStep == \E x \in Timers : TimerRun(x)

ThreadFairness ==
  SF_vars(CallerStep) /\ SF_vars(IrqThreadStep) /\ SF_vars(WorkerStep)
TimerFairness ==
  WF_vars(\E x \in Timers : TimerExpire(x)) /\ SF_vars(TimerStep)
HardwareFairness ==
  "stall" \notin Faults =>
    WF_vars(HwResponse \/ HwCmdError) /\ WF_vars(HwDataEnd \/ HwDataError)

FairSpec ==
  Spec /\ ThreadFairness /\ WF_vars(Irq) /\ TimerFairness /\ HardwareFairness

-----------------------------------------------------------------------------
(* Safety *)

\* The request the upper layer waits for; None between two requests.
Current == loc["caller"].mrq
Completed == sem_ack > 0

\* The requests somebody still points to: the host, the slots of mrqs_done and
\* the threads that complete or send one.
Owner(c) == IF c = None THEN None ELSE Mrq(c)
Referenced ==
  ({Owner(host.cmd), Owner(host.data_cmd), Owner(host.deferred_cmd), host.data}
     \cup {host.mrqs_done[i] : i \in Slots}
     \cup {loc[t].mrq : t \in Executors}
     \cup {Owner(loc[t].cmd) : t \in Sleepers}) \ {None}

\* No WARN_ON of the request path fires: no command is sent over another, no
\* data are prepared over others, no deferred command is overwritten, no
\* request is finished twice, and mrqs_done has room.
NoWarning == host.warned = {}

\* The completion the caller waits for is signalled at most once, and after it
\* neither the host nor a thread points to the request, whose memory is the
\* caller's again: not the done slots, not a timer's victim, not a worker that
\* had dropped the lock.
CompletedOnce ==
  /\ sem_ack <= 1
  /\ Referenced \subseteq {Current}
  /\ Completed => Referenced = {}

\* A request that was submitted and not completed is somewhere it will be
\* picked up from: a slot or a deferred command that a thread is about to look
\* at (no wake-up is lost), or a command for which the timer runs.
NotForgotten ==
  pc["caller"] = "wait" /\ ~Completed =>
    LET soon == ~Unlocked \/ wake
    IN \/ \E t \in Executors : loc[t].mrq # None
       \/ /\ Done(host) # {}
          /\ soon \/ host.work \/ \E t \in Executors : pc[t] = "done"
       \/ /\ host.deferred_cmd # None
          /\ \/ soon
             \/ pc["irq_thread"] \in {"done", "deferred", "asleep", "retry"}
       \/ /\ HasRequests(host)
          /\ host.timers \cup firing # {} \/ host.status # {} \/ ~Unlocked

\* The controller has stopped with the request when the caller gets it back:
\* nothing runs on the lines (no DMA into memory the caller may have freed), no
\* timer is pending and no interrupt of the request is left to be taken for
\* one of the next request.
Quiescent ==
  Current = None \/ Completed =>
    /\ host.cmdLine = None /\ host.datLine = None
    /\ host.timers = {}
    /\ Bits(host.status) \subseteq {"CARD"}
    /\ ~host.pending_reset

\* An interrupt bit is never taken for the answer to another command than the
\* one it was raised for: not after a timeout, a reset or a late answer.
Attributed ==
  \A s \in host.status :
    /\ s[1] \in CmdBits => host.cmd \in {None, s[2]}
    /\ s[1] \in DataBits => host.data_cmd \in {None, s[2]}

\* A request reported as good was carried out: the controller answered its
\* command, moved its data or saw the end of busy, and answered the CMD23 and
\* the CMD12 the driver had to send itself.
Truthful ==
  LET m == Current
  IN Completed /\ m # None /\ host.error[m] = {} =>
       /\ "cmd" \in host.served
       /\ m \in WithData \cup WithBusy => "data" \in host.served
       /\ ManualCmd23(m) => "sbc" \in host.served
       /\ NeedsStop(host, m) => "stop" \in host.served

\* The aligned buffer of a read is freed once.
FreedOnce == \A m \in Reqs : buf[m] # "twice"

\* The aligned buffer of a read is freed when the caller gets the request back.
FreedAtReturn == Completed /\ Current # None => buf[Current] # "held"

\* The aligned buffer is freed after the transfer, not during it.
FreedAfterTransfer ==
  \A m \in Reqs : buf[m] = "freed" => host.datLine # <<m, "cmd">>

\* A read that is reported as good has been delivered: its aligned buffer was
\* copied to the memory of the caller before the caller goes on.
Delivered ==
  Completed /\ Current \in Realigned /\ host.error[Current] = {}
    => buf[Current] = "freed"

-----------------------------------------------------------------------------
(* Refinement *)

\* The parts of each request; those of the driver's own doing only.
Needs == [m \in Reqs |->
  {"cmd"} \cup (IF m \in WithData \cup WithBusy THEN {"data"} ELSE {})
          \cup (IF ManualCmd23(m) THEN {"sbc"} ELSE {})
          \cup (IF m \in WithStop \ WithSbc /\ ~AutoCmd12
                THEN {"stop"} ELSE {})]

Port == INSTANCE RequestPort WITH
  Work <- ErrorFields,
  request <- Current,
  served <- host.served,
  result <- IF ~Completed THEN "none"
            ELSE IF Current # None /\ host.error[Current] = {}
            THEN "good" ELSE "failed"

\* The driver keeps the promise of RequestPort: a completion is signalled once
\* for each request, its result does not change while the caller wakes up, and
\* no work is done for it any more.
PortSpec == Port!Spec

-----------------------------------------------------------------------------
(* Liveness *)

\* Every request comes back to its caller, whatever the controller, the card
\* and the timers do: no thread waits on sem_ack for ever.
EveryRequestReturns == pc["caller"] # "idle" ~> pc["caller"] = "idle"

=============================================================================
