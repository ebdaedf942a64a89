----------------------------- MODULE SdhciProbe -----------------------------
(***************************************************************************)
(* How a host comes to life: the probe function of the platform driver,    *)
(* setup and registration of the host, and the card detection that the     *)
(* interrupt handler keeps up from the moment it is installed.             *)
(*                                                                         *)
(* One processor runs the prober, the interrupt handler, which preempts it *)
(* between any two accesses to memory or to a register that it shares, and *)
(* the interrupt thread.  The card comes and goes at any time.  Requests   *)
(* are those of SdhciRequest.                                              *)
(***************************************************************************)
EXTENDS Integers, FiniteSets

CONSTANTS
  Boards,       (* records: compatible, irq, width and dt, the names of the
                   device tree properties without a value                   *)
  Controllers,  (* records: version, can (capability bits), timeout_clk,
                   ocr, tuning_mode, max_block, level (how it detects cards)*)
  Scarce,       (* the allocations and registrations that may fail          *)
  MaxLoops,     (* turns of the handler's loop                              *)
  MaxEvents     (* bound on card changes and overcurrents                   *)

ASSUME ProbeAssumption ==
  /\ Boards \subseteq [compatible: BOOLEAN, irq: BOOLEAN, width: Nat,
                       dt: SUBSET STRING]
  /\ Controllers \subseteq
       [version: Nat, can: SUBSET STRING, timeout_clk: Nat, ocr: SUBSET STRING,
        tuning_mode: 0 .. 3, max_block: 0 .. 3, level: BOOLEAN]
  /\ MaxLoops \in Nat \ {0}
  /\ MaxEvents \in Nat

VARIABLES board, ctl, pc, ret, host, held, reg, ier, loc, irq, line, thread,
          present, known, events

vars == <<board, ctl, pc, ret, host, held, reg, ier, loc, irq, line, thread,
          present, known, events>>

Card == {"insert", "remove"}
Has(name) == name \in board.dt

-----------------------------------------------------------------------------
(* Hardware: registers and card detection *)

\* External.  A controller that detects levels sets the bit of a card state
\* for as long as it lasts, one that detects edges when the state changes.
Sensed(p) == {IF p THEN "insert" ELSE "remove"}
Level(r, p) ==
  IF ctl.level THEN [r EXCEPT !.status = @ \cup (Sensed(p) \cap r.enable)]
  ELSE r

CardMoves ==
  /\ events < MaxEvents
  /\ events' = events + 1
  /\ present' = ~present
  /\ reg' = Level([reg EXCEPT !.status = @ \cup (Sensed(~present)
                                                  \cap reg.enable)], ~present)
  /\ UNCHANGED <<board, ctl, pc, ret, host, held, ier, loc, irq, line, thread,
                 known>>

\* External: an interrupt that is not about the card, such as that the card
\* takes too much current.
Overcurrent ==
  /\ events < MaxEvents
  /\ "power" \in reg.enable
  /\ events' = events + 1
  /\ reg' = [reg EXCEPT !.status = @ \cup {"power"}]
  /\ UNCHANGED <<board, ctl, pc, ret, host, held, ier, loc, irq, line, thread,
                 present, known>>

Cleared == [enable |-> {}, signal |-> {}, status |-> {}]

\* Removable and with a card detection that works; no GPIO of this port has
\* one.
Detects(h) == "broken-cd" \notin h.quirks /\ "nonremovable" \notin h.caps

-----------------------------------------------------------------------------
(* Steps of the prober.  The interrupt handler preempts it. *)

Runs(at) == irq.pc = "idle" /\ pc = at

Others == <<irq, thread, present, known, events, board, ctl>>

Goto(step) == pc' = step /\ UNCHANGED ret
Fail(step, err) == pc' = step /\ ret' = err

\* An allocation or registration.
Outcomes(what) == IF what \in Scarce THEN BOOLEAN ELSE {TRUE}

\* of_match_device, platform_get_irq and sdhci_alloc_host
PltfmInit ==
  /\ Runs("init")
  /\ IF ~board.compatible THEN
       Fail("failed", "EINVAL") /\ UNCHANGED <<held, host>>
     ELSE IF ~board.irq THEN
       Fail("failed", "ENXIO") /\ UNCHANGED <<held, host>>
     ELSE \E ok \in Outcomes("host") :
       IF ok THEN /\ Goto("parse")
                  /\ held' = held \cup {"host"}
                  /\ host' = [host EXCEPT !.flags = {"330"}]
       ELSE Fail("failed", "ENOMEM") /\ UNCHANGED <<held, host>>
  /\ UNCHANGED <<Others, reg, ier, loc, line>>

\* The capabilities that device tree properties stand for.
DtCaps ==
  (IF board.width = 8 THEN {"8bit"} ELSE {})
    \cup (IF board.width \in {4, 8} THEN {"4bit"} ELSE {})
    \cup (IF board.dt \cap {"cap-sd-highspeed", "cap-mmc-highspeed"} # {}
            THEN {"highspeed"} ELSE {})
    \cup {c \in {"nonremovable", "ddr_3_3v", "ddr_1_8v", "hs200_1_8v"} : Has(c)}

DtQuirks == board.dt \cap {"auto-cmd12", "1-bit-only", "broken-cd", "no-1-8-v"}

\* sdhci_free_host ends in mmc_free_host, which frees nothing.
MmcOfParse ==
  /\ Runs("parse")
  /\ IF board.width \notin {1, 4, 8} THEN
       Fail("failed", "EINVAL") /\ UNCHANGED host
     ELSE
       /\ Goto("read_caps")
       /\ host' = [host EXCEPT
            !.caps = DtCaps,
            !.quirks = DtQuirks
                         \cup (IF board.width = 1 THEN {"1-bit-only"} ELSE {})]
  /\ UNCHANGED <<Others, held, reg, ier, loc, line>>

\* sdhci_read_caps resets the controller first.
ReadCaps ==
  /\ Runs("read_caps")
  /\ Goto("dma")
  /\ reg' = Cleared
  /\ host' = [host EXCEPT
       !.can = IF ctl.version >= 2 THEN ctl.can
               ELSE ctl.can \ {"sdr50", "sdr104", "ddr50"}]
  /\ UNCHANGED <<Others, held, ier, loc, line>>

\* The flags for DMA.  Without v4 mode SDMA cannot take 64 bit addresses.
ChooseDma ==
  /\ Runs("dma")
  /\ Goto("table")
  /\ LET big == host.can \cap {"64bit"}
         sdma == IF big = {} THEN host.can \cap {"sdma"} ELSE {}
         adma == IF ctl.version >= 1 THEN host.can \cap {"adma"} ELSE {}
     IN  host' = [host EXCEPT !.flags = @ \cup big \cup sdma \cup adma]
  /\ UNCHANGED <<Others, held, reg, ier, loc, line>>

\* Mutant: no table, but the flag stays.
AllocTableKeepsFlag ==
  /\ Runs("table")
  /\ Goto("clocks")
  /\ IF "adma" \in host.flags THEN \E ok \in Outcomes("table") :
       /\ held' = IF ok THEN held \cup {"table"} ELSE held
       /\ host' = [host EXCEPT !.adma_table = ok]
     ELSE UNCHANGED <<held, host>>
  /\ UNCHANGED <<Others, reg, ier, loc, line>>

\* The descriptor table.  Its pages are always aligned.
AllocTable ==
  /\ Runs("table")
  /\ Goto("clocks")
  /\ IF "adma" \in host.flags THEN \E ok \in Outcomes("table") :
       /\ held' = IF ok THEN held \cup {"table"} ELSE held
       /\ host' = [host EXCEPT !.flags = IF ok THEN @ ELSE @ \ {"adma"},
                               !.adma_table = ok]
     ELSE UNCHANGED <<held, host>>
  /\ UNCHANGED <<Others, reg, ier, loc, line>>

\* undma: dma_free_coherent of this port keeps the pages.
Undma(err) ==
  /\ Fail("failed", err)
  /\ host' = [host EXCEPT !.adma_table = FALSE]

\* Both boards know their base clock and neither its timeout clock.
Clocks ==
  /\ Runs("clocks")
  /\ IF ctl.timeout_clk = 0 THEN Undma("ENODEV")
     ELSE
       /\ Goto("caps")
       /\ host' = [host EXCEPT !.flags = @
            \cup (IF "auto-cmd12" \in host.quirks THEN {"auto_cmd12"} ELSE {})
            \cup (IF ctl.version >= 2
                       /\ ("adma" \in @ \/ "sdma" \notin @)
                    THEN {"auto_cmd23"} ELSE {})]
  /\ UNCHANGED <<Others, held, reg, ier, loc, line>>

Fast == {"sdr50", "sdr104", "ddr50"}

\* Capabilities of the controller.  The UHS modes are 0 in this port, and
\* MMC_CAP2_HS200, in caps2, is what SDR104 becomes.
AllCaps(h, modes) ==
  (h.caps \ (IF "no-1-8-v" \in h.quirks THEN {"ddr_1_8v"} ELSE {}))
    \cup (IF "1-bit-only" \in h.quirks THEN {} ELSE {"4bit"})
    \cup (IF "highspeed" \in h.can THEN {"highspeed"} ELSE {})
    \cup (IF "sdr104" \in modes THEN {"caps2_hs200"} ELSE {})

\* Mutant: the modes are promoted before the board has its say.
CapabilitiesEarly ==
  /\ Runs("caps")
  /\ LET caps == AllCaps(host, host.can \cap Fast)
         low == IF caps \cap {"ddr_1_8v", "caps2_hs200"} # {}
                  THEN {"180"} ELSE {}
     IN  IF ctl.ocr = {} THEN Undma("ENODEV")
         ELSE /\ Goto("limits")
              /\ host' = [host EXCEPT !.caps = caps, !.ocr = ctl.ocr,
                                      !.flags = @ \cup low]
  /\ UNCHANGED <<Others, held, reg, ier, loc, line>>

\* Capabilities, modes and voltages; nothing works without a voltage.
Capabilities ==
  /\ Runs("caps")
  /\ LET modes == IF "no-1-8-v" \in host.quirks THEN {} ELSE host.can \cap Fast
         caps == AllCaps(host, modes)
         low == IF caps \cap {"ddr_1_8v", "caps2_hs200"} # {}
                  THEN {"180"} ELSE {}
     IN  IF ctl.ocr = {} THEN Undma("ENODEV")
         ELSE /\ Goto("limits")
              /\ host' = [host EXCEPT !.caps = caps, !.ocr = ctl.ocr,
                                      !.flags = @ \cup low]
  /\ UNCHANGED <<Others, held, reg, ier, loc, line>>

\* Mutant: any value of the capability field is taken.
BlockSizeUnchecked(n) == 512 * 2 ^ n

\* The largest block, for a field of which three values are valid.
BlockSize(n) == CASE n = 1 -> 1024 [] n = 2 -> 2048 [] OTHER -> 512

\* Limits of a request in KiB.
Sized(h) ==
  [h EXCEPT !.max_req = 512,
            !.max_seg = IF "adma" \in h.flags THEN 64 ELSE 512,
            !.max_blk = BlockSize(ctl.max_block),
            !.max_segs = IF h.flags \cap {"adma", "sdma"} = {"sdma"} THEN 1 ELSE 128]

\* A buffer makes one segment of many.
Bounced(h) ==
  [h EXCEPT !.bounce = 64, !.max_req = 64, !.max_seg = 64, !.max_segs = 128]

Limits ==
  /\ Runs("limits")
  /\ Goto("queue")
  /\ LET h == Sized(host)
     IN  IF h.max_segs # 1
           THEN host' = h /\ UNCHANGED held
           ELSE \E ok \in Outcomes("bounce") :
             IF ok THEN host' = Bounced(h) /\ held' = held \cup {"bounce"}
             ELSE host' = h /\ UNCHANGED held
  /\ UNCHANGED <<Others, reg, ier, loc, line>>

-----------------------------------------------------------------------------
(* __sdhci_add_host *)

AllocQueue ==
  /\ Runs("queue")
  /\ \E ok \in Outcomes("queue") :
       IF ok THEN /\ Goto("sdhci_init")
                  /\ held' = held \cup {"queue"}
                  /\ UNCHANGED host
       ELSE Undma("ENOMEM") /\ UNCHANGED held
  /\ UNCHANGED <<Others, reg, ier, loc, line>>

\* Mutant: card detection does not wait until the host is added.
DefaultIrqsDetecting ==
  {"power", "cmd", "data"} \cup (IF Detects(host) THEN Card ELSE {})
    \cup (IF ctl.tuning_mode \in {2, 3} THEN {"retune"} ELSE {})

\* sdhci_set_default_irqs: "cmd" and "data" stand for the interrupts of
\* requests.
DefaultIrqs ==
  {"power", "cmd", "data"}
    \cup (IF ctl.tuning_mode \in {2, 3} THEN {"retune"} ELSE {})

SdhciInit ==
  /\ Runs("sdhci_init")
  /\ Goto("install")
  /\ ier' = DefaultIrqs
  /\ reg' = Level([Cleared EXCEPT !.enable = ier', !.signal = ier'], present)
  /\ UNCHANGED <<Others, held, host, loc, line>>

\* __sdhci_request_threaded_irq: the handler goes live before its wait queue.
Install ==
  /\ Runs("install")
  /\ \E got \in Outcomes("desc"), ok \in Outcomes("handler") :
       IF got /\ ok THEN
         /\ Goto("waitq")
         /\ held' = held \cup {"desc"}
         /\ line' = [line EXCEPT !.handler = TRUE]
       ELSE Fail("unwq", IF got THEN "ERROR" ELSE "ENOMEM")
              /\ UNCHANGED <<held, line>>
  /\ UNCHANGED <<Others, host, reg, ier, loc>>

InitWaitQueue ==
  /\ Runs("waitq")
  /\ Goto("thread")
  /\ line' = [line EXCEPT !.waitq = TRUE]
  /\ UNCHANGED <<Others, held, host, reg, ier, loc>>

\* Without its thread the descriptor is freed under the handler.
CreateThread ==
  /\ Runs("thread")
  /\ \E ok \in Outcomes("thread") :
       IF ok THEN /\ Goto("add")
                  /\ line' = [line EXCEPT !.thread = TRUE]
                  /\ UNCHANGED held
       ELSE /\ Fail("unwq", "ENOMEM")
            /\ held' = held \ {"desc"}
            /\ UNCHANGED line
  /\ UNCHANGED <<Others, host, reg, ier, loc>>

\* Mutant: the work queue is forgotten.
UnwqForgotten ==
  /\ Runs("unwq")
  /\ Fail("failed", ret)
  /\ host' = [host EXCEPT !.adma_table = FALSE]
  /\ UNCHANGED <<Others, held, reg, ier, loc, line>>

\* unwq, and sdhci_cleanup_host of sdhci_add_host
Unwq ==
  /\ Runs("unwq")
  /\ Fail("failed", ret)
  /\ held' = held \ {"queue"}
  /\ host' = [host EXCEPT !.adma_table = FALSE]
  /\ UNCHANGED <<Others, reg, ier, loc, line>>

\* mmc_add_host never fails, and has limits and voltages of its own: max_segs
\* is max_dma_segs.  Of caps and caps2 it passes on the first.
MmcAddHost ==
  /\ Runs("add")
  /\ Goto("detect")
  /\ host' = [host EXCEPT
       !.rmh_flags = host.caps \ {"caps2_hs200"},
       !.max_seg = 64,
       !.max_segs = 8,
       !.valid_ocr = {"30_31", "32_33"}
                       \cup (IF Has("no-1-8-v") THEN {} ELSE {"165_195"})]
  /\ UNCHANGED <<Others, held, reg, ier, loc, line>>

-----------------------------------------------------------------------------
(* sdhci_set_card_detection, without the lock *)

ReadPresent ==
  /\ Runs("detect")
  /\ IF Detects(host)
       THEN /\ Goto("arm")
            /\ loc' = [loc EXCEPT !.present = present] /\ known' = present
       ELSE Goto("ready") /\ UNCHANGED <<loc, known>>
  /\ UNCHANGED <<irq, thread, present, events, board, ctl, held, host, reg, ier,
                 line>>

Expect(p) == IF p THEN "remove" ELSE "insert"

\* host->ier and the first register.  The handler leaves host->ier alone as
\* long as that register enables no card interrupt.
Arm ==
  /\ Runs("arm")
  /\ Goto("load")
  /\ ier' = ier \cup {Expect(loc.present)}
  /\ reg' = Level([reg EXCEPT !.enable = ier'], present)
  /\ UNCHANGED <<Others, held, host, loc, line>>

\* host->ier is read for the second register, or kept from the first write.
Load ==
  /\ Runs("load")
  /\ Goto("signal")
  /\ loc' = [loc EXCEPT !.ier = ier]
  /\ UNCHANGED <<Others, held, host, reg, ier, line>>

\* By now the handler may have written host->ier and both registers.
Signal ==
  /\ Runs("signal")
  /\ Goto("ready")
  /\ reg' = [reg EXCEPT !.signal = loc.ier]
  /\ UNCHANGED <<Others, held, host, ier, loc, line>>

Prober ==
  \/ PltfmInit \/ MmcOfParse \/ ReadCaps \/ ChooseDma \/ AllocTable
  \/ Clocks \/ Capabilities \/ Limits \/ AllocQueue \/ SdhciInit
  \/ Install \/ InitWaitQueue \/ CreateThread \/ Unwq \/ MmcAddHost
  \/ ReadPresent \/ Arm \/ Load \/ Signal

-----------------------------------------------------------------------------
(* sdhci_irq, as far as no request is concerned *)

Software == <<board, ctl, pc, ret, host, held, loc, line, present, known,
              events>>

\* One turn of the loop: what is pending, and what is cleared at once.
Turn(status) ==
  IF status \cap Card # {} THEN "card" ELSE "again"

Pending == irq.pc = "idle" /\ line.handler /\ reg.status \cap reg.signal # {}

\* A descriptor that has been freed may still hold what it did.
IrqEnter ==
  /\ Pending
  /\ irq' = [pc |-> Turn(reg.status), intmask |-> reg.status,
             present |-> FALSE, loops |-> MaxLoops, wake |-> FALSE]
  /\ reg' = [reg EXCEPT !.status = @ \ {"power", "cmd", "data"}]
  /\ UNCHANGED <<Software, ier, thread>>

\* Or it is part of another allocation by now, and what runs is any code.
IrqLost ==
  /\ Pending /\ "desc" \notin held
  /\ irq' = [irq EXCEPT !.pc = "lost"]
  /\ UNCHANGED <<Software, reg, ier, thread>>

IrqCard ==
  /\ irq.pc = "card"
  /\ irq' = [irq EXCEPT !.pc = "arm", !.present = present]
  /\ UNCHANGED <<Software, reg, ier, thread>>

\* Mutant: the handler arms the other card interrupt and leaves the one that
\* it was called for.
IrqArmKeeps ==
  /\ irq.pc = "arm"
  /\ ier' = ier \cup {Expect(irq.present)}
  /\ reg' = Level([reg EXCEPT !.enable = ier'], present)
  /\ irq' = [irq EXCEPT !.pc = "signal"]
  /\ UNCHANGED <<Software, thread>>

IrqArm ==
  /\ irq.pc = "arm"
  /\ ier' = (ier \ Card) \cup {Expect(irq.present)}
  /\ reg' = Level([reg EXCEPT !.enable = ier'], present)
  /\ irq' = [irq EXCEPT !.pc = "signal"]
  /\ UNCHANGED <<Software, thread>>

IrqSignal ==
  /\ irq.pc = "signal"
  /\ reg' = Level([reg EXCEPT !.signal = ier,
                              !.status = @ \ (irq.intmask \cap Card)], present)
  /\ thread' = [thread EXCEPT !.isr = @ \cup (irq.intmask \cap Card)]
  /\ irq' = [irq EXCEPT !.pc = "again", !.wake = TRUE]
  /\ UNCHANGED <<Software, ier>>

\* Mutant: a later turn without a card event forgets the thread.
IrqAgainForgets ==
  /\ irq.pc = "again"
  /\ IF reg.status # {} /\ irq.loops > 1
       THEN /\ irq' = [irq EXCEPT !.pc = Turn(reg.status),
                                  !.intmask = reg.status, !.wake = FALSE,
                                  !.loops = @ - 1]
            /\ reg' = [reg EXCEPT !.status = @ \ {"power", "cmd", "data"}]
       ELSE /\ irq' = [irq EXCEPT !.pc = IF irq.wake THEN "wake" ELSE "idle"]
            /\ UNCHANGED reg
  /\ UNCHANGED <<Software, ier, thread>>

IrqAgain ==
  /\ irq.pc = "again"
  /\ IF reg.status # {} /\ irq.loops > 1
       THEN /\ irq' = [irq EXCEPT !.pc = Turn(reg.status),
                                  !.intmask = reg.status, !.loops = @ - 1]
            /\ reg' = [reg EXCEPT !.status = @ \ {"power", "cmd", "data"}]
       ELSE /\ irq' = [irq EXCEPT !.pc = IF irq.wake THEN "wake" ELSE "idle"]
            /\ UNCHANGED reg
  /\ UNCHANGED <<Software, ier, thread>>

\* __irq_hander: wake_up of the wait queue in the descriptor
IrqWake ==
  /\ irq.pc = "wake"
  /\ thread' = [thread EXCEPT !.woken = TRUE]
  /\ irq' = [irq EXCEPT !.pc = "idle"]
  /\ UNCHANGED <<Software, reg, ier>>

Handler ==
  \/ IrqEnter \/ IrqLost \/ IrqCard \/ IrqArm \/ IrqSignal \/ IrqAgain
  \/ IrqWake

-----------------------------------------------------------------------------
(* irq_thread and sdhci_thread_irq *)

\* thread_isr is taken under the lock, interrupts off.
TakeIsr ==
  /\ irq.pc = "idle" /\ line.thread
  /\ thread.pc = "waiting" /\ thread.woken
  /\ thread' = [woken |-> FALSE, isr |-> {},
                pc |-> IF thread.isr = {} THEN "waiting" ELSE "event"]
  /\ UNCHANGED <<Software, reg, ier, irq>>

\* sdhci_card_event asks whether there is a card.
CardEvent ==
  /\ irq.pc = "idle" /\ thread.pc = "event"
  /\ thread' = [thread EXCEPT !.pc = "waiting"]
  /\ known' = present
  /\ UNCHANGED <<board, ctl, pc, ret, host, held, loc, line, present, events,
                 reg, ier, irq>>

Thread == TakeIsr \/ CardEvent

\* The probe has returned and nothing waits to be done, or nothing is known of
\* what runs.
Rests ==
  /\ \/ irq.pc = "lost"
     \/ pc \in {"ready", "failed"} /\ irq.pc = "idle" /\ thread.pc = "waiting"
  /\ UNCHANGED vars

Next == Prober \/ Handler \/ Thread \/ CardMoves \/ Overcurrent \/ Rests

Init ==
  /\ board \in Boards /\ ctl \in Controllers
  /\ pc = "init" /\ ret = "0"
  /\ host = [flags |-> {}, caps |-> {}, quirks |-> {}, can |-> {},
             adma_table |-> FALSE, bounce |-> 0, max_req |-> 0, max_seg |-> 0,
             max_segs |-> 0, max_blk |-> 0, ocr |-> {}, valid_ocr |-> {},
             rmh_flags |-> {}]
  /\ held = {} /\ reg = Cleared /\ ier = {}
  /\ loc = [present |-> FALSE, ier |-> {}]
  /\ irq = [pc |-> "idle", intmask |-> {}, present |-> FALSE, loops |-> 0,
            wake |-> FALSE]
  /\ line = [handler |-> FALSE, waitq |-> FALSE, thread |-> FALSE]
  /\ thread = [pc |-> "waiting", isr |-> {}, woken |-> FALSE]
  /\ present \in BOOLEAN /\ known = FALSE /\ events = 0

Spec == Init /\ [][Next]_vars

\* The processor runs the handler, then the prober, then the thread; card
\* events are bounded, so that none keeps the next from running.
FairSpec ==
  Spec /\ WF_vars(Prober) /\ WF_vars(Handler) /\ WF_vars(Thread)

-----------------------------------------------------------------------------
(* Properties *)

Ints == Card \cup {"power", "cmd", "data", "retune"}
Steps == {"init", "parse", "read_caps", "dma", "table", "clocks", "caps",
          "limits", "queue", "sdhci_init", "install", "waitq", "thread", "add",
          "detect", "arm", "load", "signal", "unwq", "ready", "failed"}

\* Types of the state, of sdhci_host, the registers and the port.
TypeOK ==
  /\ board \in Boards /\ ctl \in Controllers /\ pc \in Steps
  /\ ret \in {"0", "EINVAL", "ENXIO", "ENOMEM", "ENODEV", "ERROR"}
  /\ host.flags \subseteq {"330", "180", "sdma", "adma", "64bit",
                           "auto_cmd12", "auto_cmd23"}
  /\ host.max_segs \in 0 .. 128 /\ host.max_req \in 0 .. 512
  /\ host.max_blk \in {0, 512, 1024, 2048}
  /\ held \subseteq {"host", "table", "bounce", "queue", "desc"}
  /\ reg.status \subseteq reg.enable \cup Card
  /\ reg.enable \subseteq Ints /\ reg.signal \subseteq Ints
  /\ ier \subseteq Ints
  /\ irq.pc \in {"idle", "card", "arm", "signal", "again", "wake", "lost"}
  /\ irq.intmask \subseteq Ints /\ irq.loops \in 0 .. MaxLoops
  /\ thread.pc \in {"waiting", "event"} /\ thread.isr \subseteq Card
  /\ <<present, known>> \in BOOLEAN \X BOOLEAN
  /\ loc \in [present: BOOLEAN, ier: SUBSET Ints]
  /\ events \in 0 .. MaxEvents

\* host->ier with the other card interrupt.
Crossed == (ier \ Card) \cup (Card \ ier)

\* __sdhci_add_host arms card detection without the lock while the handler is
\* already live and does the same: once the probe has returned, one card
\* interrupt is enabled where cards are detected and none elsewhere, and both
\* registers hold host->ier, unless the handler changed it between the read
\* and the write of SDHCI_SIGNAL_ENABLE, which then holds the other interrupt.
Armed ==
  pc = "ready" /\ irq.pc = "idle" =>
    /\ reg.enable = ier
    /\ Cardinality(ier \cap Card) = IF Detects(host) THEN 1 ELSE 0
    /\ reg.signal = ier \/ (Detects(host) /\ reg.signal = Crossed)

\* __sdhci_request_threaded_irq installs the handler before the wait queue it
\* wakes is initialised, and frees the descriptor that holds both when there
\* is no thread, but not the handler: no handler wakes a queue that is not
\* there, and none runs out of a freed descriptor but after that failure.
WakesWaiters ==
  /\ irq.pc = "wake" => line.waitq /\ "desc" \in held
  /\ irq.pc # "idle" /\ "desc" \notin held =>
       pc \in {"unwq", "failed"} /\ ret = "ENOMEM"

\* A step of the probe may fail after any number of others: a failed probe
\* leaves no work queue, no thread and no table that the host would use, and
\* tells its caller so.  The host, the bounce buffer, the handler and the
\* interrupt enables are not given back, and are not in this property.
Undone ==
  pc = "failed" => /\ ret # "0" /\ "queue" \notin held
                   /\ ~line.thread /\ ~host.adma_table

\* The flags decide which memory a request uses: a host that is added has the
\* table or the buffer that its flags promise, never 64 bit addresses with
\* SDMA, Auto-CMD23 only where it works, and a voltage.  No request is larger
\* than the buffer and no segment than a descriptor.  SDMA without a buffer has
\* one segment, but only until mmc_add_host, which makes it eight whatever
\* sdhci_allocate_bounce_buffer says of max_segs.
Usable ==
  /\ pc = "ready" =>
       /\ "adma" \in host.flags <=> host.adma_table
       /\ host.adma_table => "table" \in held /\ host.max_seg <= 64
       /\ host.bounce > 0 =>
            /\ "bounce" \in held /\ host.flags \cap {"adma", "sdma"} = {"sdma"}
            /\ host.max_req <= host.bounce /\ host.max_seg <= host.bounce
       /\ ~({"sdma", "64bit"} \subseteq host.flags)
       /\ "auto_cmd23" \in host.flags =>
            "adma" \in host.flags \/ "sdma" \notin host.flags
       /\ host.ocr # {}
  /\ pc = "add" /\ host.flags \cap {"adma", "sdma"} = {"sdma"} /\ host.bounce = 0
       => host.max_segs = 1

\* A board whose lines have no 1.8 V is not offered the signal voltage, the
\* supply voltage or the DDR mode of 1.8 V, by whichever of device tree and
\* controller they come.  HS200 at 1.8 V is offered only if the device tree
\* itself asks for it: mmc-hs200-1_8v outlives no-1-8-v, since sdhci_setup_host
\* clears this mode in caps2, where the port does not have it.
KeepsTo33 ==
  pc = "ready" /\ Has("no-1-8-v") =>
    /\ "180" \notin host.flags /\ "165_195" \notin host.valid_ocr
    /\ "ddr_1_8v" \notin host.rmh_flags
    /\ "hs200_1_8v" \in host.rmh_flags => Has("hs200_1_8v")

\* When cards stop coming and going, the driver ends up knowing whether there
\* is one, if its controller detects levels, and SDHCI_SIGNAL_ENABLE has not
\* kept the other card interrupt from the end of the probe on.
Noticed ==
  <>[](pc = "ready" /\ Detects(host) /\ ctl.level =>
         known = present \/ reg.signal # ier)

=============================================================================
