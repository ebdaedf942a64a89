------------------------------ MODULE SdhciHost ------------------------------
(***************************************************************************)
(* What the functions of sdhci.c that run under host->lock do to the host. *)
(*                                                                         *)
(* A host is one record: the fields of struct sdhci_host that the request  *)
(* path uses, the fields of the requests that the driver writes, and the   *)
(* registers of the controller that the driver reads.  Every operator here *)
(* is one C function, from the record before the call to the record after  *)
(* it; SdhciRequest runs them as the steps of threads, interrupts and      *)
(* timers.                                                                 *)
(*                                                                         *)
(* Not in the record, because no path of this port reaches them: command   *)
(* queueing, external DMA, cap_cmd_during_tfr, SDHCI_DEVICE_DEAD (set only *)
(* by sdhci_remove_host), runtime suspend, and the quirks the platform     *)
(* does not set.                                                           *)
(***************************************************************************)
EXTENDS Naturals, FiniteSets

CONSTANTS
  Reqs,         (* the requests (struct mmc_request) of the upper layer     *)
  WithData,     (* those whose command moves data                           *)
  WithBusy,     (* those whose command answers R1b (busy on DAT0)           *)
  WithSbc,      (* data requests preceded by CMD23 (mrq->sbc)               *)
  WithStop,     (* data requests with a CMD12 to end them (data->stop)      *)
  None,         (* NULL                                                     *)
  AutoCmd12,    (* SDHCI_AUTO_CMD12 in host->flags                          *)
  AutoCmd23,    (* SDHCI_AUTO_CMD23 in host->flags                          *)
  Mapping       (* how data reaches memory: "sg" (dma_map_sg), "bounce"
                   (the bounce buffer) or "pio" (no DMA)                    *)

ASSUME RequestAssumption ==
  /\ None \notin Reqs
  /\ None \notin Reqs \X {"sbc", "cmd", "stop"}
  /\ WithData \subseteq Reqs
  /\ WithBusy \subseteq Reqs \ WithData
  /\ WithSbc \subseteq WithData
  /\ WithStop \subseteq WithData
  /\ AutoCmd12 \in BOOLEAN
  /\ AutoCmd23 \in BOOLEAN
  /\ Mapping \in {"sg", "bounce", "pio"}

-----------------------------------------------------------------------------
(* Commands.  A request has up to three: sbc, cmd and data->stop. *)

Parts == {"sbc", "cmd", "stop"}
Cmds == Reqs \X Parts
Mrq(c) == c[1]
Part(c) == c[2]

HasData(c) == Part(c) = "cmd" /\ Mrq(c) \in WithData

\* The port translates RESP_R1B into MMC_RSP_BUSY for req->cmd only, so a
\* stop command is never a busy command here.
Busy(c) == Part(c) = "cmd" /\ Mrq(c) \in WithBusy

DataLine(c) == HasData(c) \/ Busy(c)      \* sdhci_data_line_cmd

ManualCmd23(m) == m \in WithSbc /\ ~AutoCmd23
FirstCmd(m) == <<m, IF ManualCmd23(m) THEN "sbc" ELSE "cmd">>

\* The timer a request runs under: chosen by its main command, whichever of
\* its commands is in flight.
Timers == {"timer", "data_timer"}
TimerOf(m) == IF DataLine(<<m, "cmd">>) THEN "data_timer" ELSE "timer"

-----------------------------------------------------------------------------
(* The host *)

MaxMrqs == 2                                    \* SDHCI_MAX_MRQS
Slots == 0 .. MaxMrqs - 1
Lines == {"cmd", "dat"}
CmdBits == {"RESPONSE", "TIMEOUT", "CRC", "AUTO_CMD_ERR"}
DataBits == {"DATA_END", "DATA_TIMEOUT", "DATA_CRC"}
IntBits == CmdBits \cup DataBits \cup {"CARD"}
Warnings == {"send_command", "data_cmd", "initialize_data", "deferred",
             "done_twice", "done_full"}
ErrorFields == Parts \cup {"data"}
MaybeCmd == Cmds \cup {None}
MaybeReq == Reqs \cup {None}

Host == [
  cmd: MaybeCmd, data_cmd: MaybeCmd, deferred_cmd: MaybeCmd,
  data: MaybeReq,                 \* the request whose mmc_data is host->data
  data_early: BOOLEAN,
  mrqs_done: [Slots -> MaybeReq],
  pending_reset: BOOLEAN,
  thread_isr: BOOLEAN,            \* a card insert or remove to handle
  timers: SUBSET Timers,          \* pending timers
  work: BOOLEAN,                  \* complete_work is queued
  error: [Reqs -> SUBSET ErrorFields],  \* error fields that are not 0
  mapped: SUBSET Reqs,            \* host_cookie = COOKIE_MAPPED
  cmdLine: MaybeCmd,              \* command the controller waits an answer to
  datLine: MaybeCmd,              \* command that occupies the data line
  held: SUBSET Lines,             \* inhibit bits on with no command running
  status: SUBSET (IntBits \X MaybeCmd), \* SDHCI_INT_STATUS, each bit with
                                  \* the command it was raised for
  served: SUBSET ErrorFields,     \* parts of the current request the
                                  \* controller reported as done
  warned: SUBSET Warnings ]       \* WARN_ON sites that fired

InitHost == [
  cmd |-> None, data_cmd |-> None, deferred_cmd |-> None, data |-> None,
  data_early |-> FALSE, mrqs_done |-> [i \in Slots |-> None],
  pending_reset |-> FALSE, thread_isr |-> FALSE, timers |-> {}, work |-> FALSE,
  error |-> [m \in Reqs |-> {}], mapped |-> {}, cmdLine |-> None,
  datLine |-> None, held |-> {}, status |-> {}, served |-> {}, warned |-> {} ]

HasRequests(h) == h.cmd # None \/ h.data_cmd # None
Done(h) == {i \in Slots : h.mrqs_done[i] # None}
FirstSlot(S) == CHOOSE i \in S : \A j \in S : i <= j
Warn(h, bad, site) == IF bad THEN [h EXCEPT !.warned = @ \cup {site}] ELSE h
Fail(h, m, field) == [h EXCEPT !.error[m] = @ \cup {field}]

-----------------------------------------------------------------------------
(* Reset of the command or data circuit: it stops what runs on the line,   *)
(* releases the inhibit bit and drops the interrupts of that line.         *)

LineBits(l) == IF l = "cmd" THEN CmdBits ELSE DataBits

DoReset(h, lines) == [h EXCEPT
  !.cmdLine = IF "cmd" \in lines THEN None ELSE @,
  !.datLine = IF "dat" \in lines THEN None ELSE @,
  !.held = @ \ lines,
  !.status = {s \in @ : \A l \in lines : s[1] \notin LineBits(l)}]

-----------------------------------------------------------------------------
(* Finishing a request *)

NeedsReset(h, m) == h.error[m] \cap Parts # {}

SetMrqDone(h, m) ==
  LET free == Slots \ Done(h)
  IN IF \E i \in Slots : h.mrqs_done[i] = m
     THEN Warn(h, TRUE, "done_twice")
     ELSE IF free = {}
     THEN Warn(h, TRUE, "done_full")
     ELSE [h EXCEPT !.mrqs_done[FirstSlot(free)] = m]

Drop(c, m) == IF c # None /\ Mrq(c) = m THEN None ELSE c

\* Mutants: one field of the host is forgotten.
FinishMrqKeepsCmd(h, m) ==
  [SetMrqDone([h EXCEPT !.data_cmd = Drop(@, m), !.deferred_cmd = Drop(@, m),
                        !.data = IF @ = m THEN None ELSE @,
                        !.pending_reset = @ \/ NeedsReset(h, m)], m)
     EXCEPT !.timers = @ \ {TimerOf(m)}]
FinishMrqKeepsDeferred(h, m) ==
  [SetMrqDone([h EXCEPT !.cmd = Drop(@, m), !.data_cmd = Drop(@, m),
                        !.data = IF @ = m THEN None ELSE @,
                        !.pending_reset = @ \/ NeedsReset(h, m)], m)
     EXCEPT !.timers = @ \ {TimerOf(m)}]
FinishMrqKeepsTimer(h, m) ==
  SetMrqDone([h EXCEPT !.cmd = Drop(@, m), !.data_cmd = Drop(@, m),
                       !.deferred_cmd = Drop(@, m),
                       !.data = IF @ = m THEN None ELSE @,
                       !.pending_reset = @ \/ NeedsReset(h, m)], m)

\* Mutant: the worker is queued for every request, as it is for those that
\* a timer finishes.
FinishMrqQueuesWork(h, m) ==
  [SetMrqDone([h EXCEPT !.cmd = Drop(@, m), !.data_cmd = Drop(@, m),
                        !.deferred_cmd = Drop(@, m),
                        !.data = IF @ = m THEN None ELSE @,
                        !.pending_reset = @ \/ NeedsReset(h, m)], m)
     EXCEPT !.timers = @ \ {TimerOf(m)}, !.work = TRUE]

\* __sdhci_finish_mrq
FinishMrqNoWork(h, m) ==
  LET detached == [h EXCEPT
        !.cmd = Drop(@, m), !.data_cmd = Drop(@, m),
        !.deferred_cmd = Drop(@, m), !.data = IF @ = m THEN None ELSE @,
        !.pending_reset = @ \/ NeedsReset(h, m)]
  IN [SetMrqDone(detached, m) EXCEPT !.timers = @ \ {TimerOf(m)}]

FinishMrq(h, m) == [FinishMrqNoWork(h, m) EXCEPT !.work = TRUE]

-----------------------------------------------------------------------------
(* Sending a command *)

\* A stop command does not wait for the data line.
Inhibited(h, c) ==
  \/ h.cmdLine # None \/ "cmd" \in h.held
  \/ /\ DataLine(c) /\ Part(c) # "stop"
     /\ h.datLine # None \/ "dat" \in h.held

PrepareData(h, m) ==
  [Warn(h, h.data # None, "initialize_data") EXCEPT
     !.data = m, !.data_early = FALSE,
     !.mapped = IF Mapping = "pio" THEN @ ELSE @ \cup {m}]

\* sdhci_send_command up to the test of the inhibit bits
Begin(h, c) ==
  Warn([h EXCEPT !.error[Mrq(c)] = @ \ {Part(c)}], h.cmd # None, "send_command")

\* the rest of it
Issue(h, c) ==
  LET g == IF DataLine(c)
           THEN [Warn(h, h.data_cmd # None, "data_cmd") EXCEPT !.data_cmd = c]
           ELSE h
      d == IF HasData(c) THEN PrepareData(g, Mrq(c)) ELSE g
  IN [d EXCEPT !.cmd = c, !.timers = @ \cup {TimerOf(Mrq(c))}, !.cmdLine = c,
               !.datLine = IF DataLine(c) THEN c ELSE @]

SendCommand(h, c) ==
  IF Inhibited(h, c) THEN Begin(h, c) ELSE Issue(Begin(h, c), c)

\* A command that cannot be sent in interrupt context is left to the thread.
SendOrDefer(h, c) ==
  LET s == SendCommand(h, c)
  IN IF Inhibited(h, c)
     THEN [Warn(s, s.deferred_cmd # None, "deferred") EXCEPT !.deferred_cmd = c]
     ELSE s

-----------------------------------------------------------------------------
(* End of data and of a command *)

NeedsStop(h, m) ==
  m \in WithStop /\ (("data" \in h.error[m]) \/ (m \notin WithSbc /\ ~AutoCmd12))

\* __sdhci_finish_data; swTimeout is its sw_data_timeout.
FinishData(h, swTimeout) ==
  LET m == h.data
      stop == <<m, "stop">>
      lines == IF "data" \notin h.error[m] THEN {}
               ELSE IF h.cmd = None \/ h.cmd = h.data_cmd THEN Lines
               ELSE {"dat"}
      g == DoReset([h EXCEPT !.data = None, !.data_cmd = None], lines)
      k == [g EXCEPT !.cmd = None]
  IN IF ~NeedsStop(h, m) THEN FinishMrqNoWork(g, m)
     ELSE IF swTimeout /\ Inhibited(k, stop)
     THEN FinishMrqNoWork(Fail(Begin(k, stop), m, "stop"), m)
     ELSE SendOrDefer(k, stop)

FinishCommand(h) ==
  LET c == h.cmd
      m == Mrq(c)
      g == [h EXCEPT !.cmd = None]
      d == IF g.data # None /\ g.data_early THEN FinishData(g, FALSE) ELSE g
  IN IF Busy(c) /\ c = h.data_cmd THEN g       \* wait for the end of busy
     ELSE IF Part(c) = "sbc" THEN SendOrDefer(g, <<m, "cmd">>)
     ELSE IF HasData(c) THEN d
     ELSE FinishMrqNoWork(d, m)

-----------------------------------------------------------------------------
(* Interrupts *)

\* The two cases in which a command interrupt counts as a data error.
AutoCmd12Failed(h, bits) ==
  /\ "AUTO_CMD_ERR" \in bits /\ h.data_cmd # None
  /\ Mrq(h.data_cmd) \notin WithSbc /\ AutoCmd12
CrcOfDataCmd(h, bits) ==
  /\ h.cmd # None /\ HasData(h.cmd)
  /\ "CRC" \in bits /\ "TIMEOUT" \notin bits

CmdIrq(h, bits) ==
  LET m == Mrq(h.cmd)
      failed == Fail(h, m, Part(h.cmd))
  IN IF AutoCmd12Failed(h, bits) \/ h.cmd = None THEN h
     ELSE IF CrcOfDataCmd(h, bits) THEN [failed EXCEPT !.cmd = None]
     ELSE IF bits \cap {"TIMEOUT", "CRC"} # {} THEN FinishMrqNoWork(failed, m)
     ELSE IF "AUTO_CMD_ERR" \in bits /\ m \in WithSbc /\ AutoCmd23
     THEN FinishMrqNoWork(Fail(h, m, "sbc"), m)
     ELSE IF "RESPONSE" \in bits THEN FinishCommand(h)
     ELSE h

\* The data bits sdhci_cmd_irq adds to the interrupt mask.
CmdIrqAdds(h, bits) ==
  IF AutoCmd12Failed(h, bits) \/ CrcOfDataCmd(h, bits) THEN {"DATA_CRC"} ELSE {}

\* A data interrupt without host->data: the end of busy of an R1b command.
BusyIrq(h, bits) ==
  LET c == h.data_cmd
      g == [h EXCEPT !.data_cmd = None]
  IN IF c = None \/ ~Busy(c) THEN h
     ELSE IF "DATA_TIMEOUT" \in bits
     THEN FinishMrqNoWork(Fail(g, Mrq(c), Part(c)), Mrq(c))
     ELSE IF "DATA_END" \notin bits THEN h
     ELSE IF h.cmd = c THEN g              \* the response comes later
     ELSE FinishMrqNoWork(g, Mrq(c))

\* Mutant: the end of the data does not wait for the response.
DataIrqNotEarly(h, bits) ==
  IF h.data = None THEN BusyIrq(h, bits)
  ELSE IF bits \cap {"DATA_TIMEOUT", "DATA_CRC"} # {}
  THEN FinishData(Fail(h, h.data, "data"), FALSE)
  ELSE IF "DATA_END" \notin bits THEN h ELSE FinishData(h, FALSE)

DataIrq(h, bits) ==
  IF h.data = None THEN BusyIrq(h, bits)
  ELSE IF bits \cap {"DATA_TIMEOUT", "DATA_CRC"} # {}
  THEN FinishData(Fail(h, h.data, "data"), FALSE)
  ELSE IF "DATA_END" \notin bits THEN h
  ELSE IF h.cmd = h.data_cmd THEN [h EXCEPT !.data_early = TRUE]
  ELSE FinishData(h, FALSE)

\* Mutant: the mapped buffers are forgotten.
DeferDoneForReset(h, m) == h.pending_reset

\* sdhci_defer_done: a request the interrupt handler leaves to the thread
DeferDone(h, m) == h.pending_reset \/ m \in h.mapped

-----------------------------------------------------------------------------
(* Timers and card removal *)

TimeoutTimer(h) ==
  IF h.cmd # None /\ ~DataLine(h.cmd)
  THEN FinishMrq(Fail(h, Mrq(h.cmd), Part(h.cmd)), Mrq(h.cmd))
  ELSE h

\* Mutant: the timeout is not written into the command.
TimeoutDataTimerSilent(h) ==
  IF h.data # None THEN [FinishData(h, TRUE) EXCEPT !.work = TRUE]
  ELSE IF h.data_cmd # None THEN FinishMrq(h, Mrq(h.data_cmd))
  ELSE IF h.cmd # None /\ DataLine(h.cmd) THEN FinishMrq(h, Mrq(h.cmd)) ELSE h

TimeoutDataTimer(h) ==
  IF h.data # None
  THEN [FinishData(Fail(h, h.data, "data"), TRUE) EXCEPT !.work = TRUE]
  ELSE IF h.data_cmd # None
  THEN FinishMrq(Fail(h, Mrq(h.data_cmd), Part(h.data_cmd)), Mrq(h.data_cmd))
  ELSE IF h.cmd # None /\ DataLine(h.cmd)
  THEN FinishMrq(Fail(h, Mrq(h.cmd), Part(h.cmd)), Mrq(h.cmd))
  ELSE h

ErrorOut(h, c) ==
  IF c = None THEN h ELSE FinishMrq(Fail(h, Mrq(c), Part(c)), Mrq(c))

ErrorOutMrqs(h) ==
  LET g == ErrorOut(h, h.data_cmd) IN ErrorOut(g, g.cmd)

CardEvent(h, present) ==
  IF HasRequests(h) /\ ~present THEN ErrorOutMrqs(DoReset(h, Lines)) ELSE h

-----------------------------------------------------------------------------
(* Completion, from the slot i of mrqs_done on *)

Blocked(h, m) == NeedsReset(h, m) /\ HasRequests(h)

\* Mutant: the data circuit is not reset.
CompleteResetsCmdOnly(h, i, m) ==
  LET g == IF NeedsReset(h, m)
           THEN [DoReset(h, {"cmd"}) EXCEPT !.pending_reset = FALSE] ELSE h
  IN [g EXCEPT !.mrqs_done[i] = None]

\* Mutant: the slot is not cleared.
CompleteKeepsSlot(h, i, m) ==
  IF NeedsReset(h, m)
  THEN [DoReset(h, Lines) EXCEPT !.pending_reset = FALSE] ELSE h

\* The part of sdhci_request_done after the buffers are unmapped, when the
\* request can be completed.
Complete(h, i, m) ==
  LET g == IF NeedsReset(h, m)
           THEN [DoReset(h, Lines) EXCEPT !.pending_reset = FALSE] ELSE h
  IN [g EXCEPT !.mrqs_done[i] = None]

=============================================================================
