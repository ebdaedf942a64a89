# Verification of the SDHCI driver for RT-Thread

The program is Linux's SD host controller driver (`src/sdhci.c`) on a port layer
that gives it RT-Thread threads, interrupts, timers and memory (`src/port`), with
one platform driver (`src/platform/cvitek`). This directory holds its TLA+ model,
the TLC runs that check it and the TLAPS proofs about it.

- [The system](#the-system): inventory of components
- [The modules](#the-modules): what models what
- [Environment](#environment): what is assumed of hardware and upper layer
- [Runs](#runs), [Findings](#findings), [Observations](#observations), [Proofs](#proofs)
- [Plan](#plan) and [Not modelled](#not-modelled)

## The system

### Components

| component | state | operations | what makes it correct |
|---|---|---|---|
| request lifecycle (`sdhci.c` 178-232, 440-460, 1019-1147, 1339-1785, 2103-2132, 2891-3141, 3149-3553) | `host->cmd`, `data_cmd`, `data`, `deferred_cmd`, `data_early`, `mrqs_done[2]`, `pending_reset`, `thread_isr`, two timers, `complete_work`, error fields of the requests, `host_cookie` | `sdhci_request`, `sdhci_send_command(_retry)`, `sdhci_cmd_irq`, `sdhci_data_irq`, `sdhci_irq`, `sdhci_thread_irq`, `sdhci_request_done`, `sdhci_complete_work`, `sdhci_timeout_timer`, `sdhci_timeout_data_timer`, `sdhci_card_event` | each request completes exactly once, in the end, with a true result, and leaves the controller at rest |
| request port (`port/l-mmc.c`) | the scatterlist of the host, `sem_ack` of the upper layer | `_mmc_request`, `__map_sg`, `_sg_init`, host registration, device tree options, `mmc_send_tuning` | realigned buffers are freed once, after the transfer, and reads reach the caller |
| DMA and scatterlists (`port/l-dma.c`, `l-sg.c`) | `SG_REA` flags | `dma_map_sg`, `dma_unmap_sg`, iterators | as above |
| threads, work queue, timers, lock (`port/l-irq.c`, `l-workqueue.c`, `l-timer.c`, `l-spinlock.c`, `l-wait.c`) | `wake`, timer list | `irq_handler`, `irq_thread`, `mod_timer`, `del_timer`, `complete_work` | no wake-up is lost |
| interrupt enable and card detection (`sdhci.c` 131-161, 234-248, 296-337, 3407-3440, 4702) | `host->ier` | `sdhci_set_card_detection`, `sdhci_reinit`, the handler | the enable registers and `host->ier` agree, and card detection stays on |
| ADMA table, SDMA and PIO (`sdhci.c` 468-816, 1055-1147, 3334-3358, `sdhci-cv181x.c` 133-150) | descriptor table, `host->blocks`, `sg_miter` | `sdhci_adma_table_pre`, `sdhci_adma_table_post`, `sdhci_transfer_pio` | the descriptors cover each byte once and fit the table |
| clock, data timeout, transfer mode (`sdhci.c` 841-1017, 1351-1429, 1821-1965) | `host->clock`, `data_timeout`, `timeout_clk` | `sdhci_calc_clk`, `sdhci_calc_timeout`, `sdhci_set_transfer_mode` | the clock is never faster than asked for; the hardware timeout covers the wanted one |
| bus settings, power, voltage (`sdhci.c` 1994-2367, 2490-2582) | `host->pwr`, `timing`, `vdd` | `sdhci_set_ios`, `sdhci_set_power_noreg`, `sdhci_start_signal_voltage_switch` | order of clock, power and timing changes |
| tuning (`sdhci.c` 2608-2831, `sdhci-cv181x.c` 201-342) | `tuning_done`, tap | `sdhci_execute_tuning`, tap search of cv181x | ends; leaves a tap that was tested, and the host usable if it fails |
| host setup (`sdhci.c` 3883-3918, 4080-4717) | `host->flags`, capabilities | `sdhci_setup_host`, `__sdhci_add_host` | resources exist before something uses them |
| device tree, memory, example board | constants | look-ups | - |
| command queueing, power management (`sdhci.c`) | - | not reached or not compiled in this port | - |

### How they interact

The thread of the upper layer calls `mmcsd_send_request`, which serialises callers,
calls `_mmc_request` and sleeps on `sem_ack`. `_mmc_request` builds a scatterlist,
replaces the buffers of a read that are not aligned to a cache line, and calls
`sdhci_request`. From there the request is pushed on by interrupts.
`sdhci_irq` runs the whole handler under `host->lock`, completes what needs no more
work and wakes the interrupt thread for the rest (requests with mapped buffers or
a reset to do, deferred commands, card changes). Timers and card removal finish requests
through `complete_work`, which a worker runs. Thread and worker both loop over
`sdhci_request_done`. The end of a request is `sem_ack`.

Between requests the same caller's thread changes the bus (`_set_iocfg`) and tunes it
(`_execute_tuning`); tuning on cv181x sends requests of its own (`mmc_send_tuning`). The host is
set up once, by `sdhci_cvi_probe`, under an interrupt handler that is live before the setup is done.

### Hard behaviours

* Four agents finish requests: handler, interrupt thread, worker, timers.
* `host->lock` is dropped in the middle of three functions: around `usleep_range`
  in `sdhci_send_command_retry`, around `dma_unmap_sg` in `sdhci_request_done` (a
  change of this port), and before the lock is taken `get_cd` is read.
* Data end and command end come in either order, in one interrupt or in two.
* Answers that come after a software timeout, and the next request that may take
  them for its own.
* A timer callback that has left the timer list runs although `del_timer` was called.
* Wake-ups: the handler leaves with work undone, the thread clears its flag first.
* `host->ier` and both interrupt registers are written without the lock at the end of the probe, while the handler writes them:
  a value that was read may be stale when it is stored.
* The interrupt line is registered before all of what its handler uses is there, and stays when some of it is freed.
* Resets clear registers of which the driver remembers the contents, and on cv181x write the PHY.
* The wait for a tuning interrupt does not wait in this port.
* Boundaries: 4 bytes, 64 KiB, 512 KiB and 128 MB in the way of data; dividers and timeouts at the
  end of their ranges.
* Any step of the probe may fail after any number of others.

PROJECT.json lists each hazard at its line.

## The modules

```
RequestPort            what the driver promises its caller (abstract)
   ^ refined by
SdhciRequest           threads, handler, timers, controller: the actions
   | extends
SdhciHost              the functions under host->lock: operators on one record

SdhciTransfer          data of one request: scatterlist, descriptors, registers
   | extends
SdhciTimeout           timeout counts and timers

SdhciBus               set_ios, power, resets and tuning of an added host
   | extends
SdhciClock, TapSearch  dividers; the search for a sampling tap

SdhciProbe             probe, setup, registration, card detection

MCSdhciRequest, MCSdhciTransfer, MCSdhciBus, MCSdhciProbe   instances for TLC
SdhciRequest_proofs    extends SdhciRequest, TLAPS: types, no null request
SdhciOnce_proofs       extends SdhciRequest_proofs: the host has a request in one role
SdhciServed_proofs     extends SdhciOnce_proofs: the functions, and who served what
SdhciPort_proofs       extends SdhciServed_proofs: implements RequestPort, and the theorems
SdhciTransfer_proofs   extends SdhciTransfer: table, registers, counts, timeouts
SdhciClock_proofs      extends SdhciClock, TapSearch: clocks and taps, as operators
SdhciBus_proofs        extends SdhciBus, SdhciClock_proofs: the bus settings
SdhciProbe_proofs      extends SdhciProbe: the probe and card detection
```

The four state machines are the four phases of a host's life, and their interfaces are narrow: SdhciProbe ends
where a host is added; the other three begin there. SdhciRequest takes one action for what SdhciTransfer
spells out (`PrepareData` and the transfer), SdhciBus takes a request as a test that passes or fails.
They are not composed, because the upper layer holds the host during a request or a `set_ios`
and neither runs in the middle of the other; what a request leaves for `set_ios`, a reset of the command and data circuits,
is the action `RequestFails` of SdhciBus.

**SdhciHost** has an operator for each C function that runs under the lock, from
the host before the call to the host after it. The host is a record of the fields
of `struct sdhci_host` that the request path uses, the fields of requests that
the driver writes (`error`, `mapped` for `host_cookie`), what the driver reads of the
controller (`cmdLine`, `datLine`, `held` for the inhibit bits; `status`), and two fields for the
properties: `served`, the parts of the request that the controller reported as done,
and `warned`, the `WARN_ON`s that fired. A command is a pair of a request and its part
(`sbc`, `cmd`, `stop`). Which fields hold an error is kept; which error is not. The part of
`host->data` that a request has is known from its constants
(`WithData`, `WithBusy`, `WithSbc`, `WithStop`).

**SdhciRequest** runs them.

| action | code |
|---|---|
| `Submit`, `RequestPresent`, `Request`, `Return` | `_mmc_request` to `sdhci_request`, and the wake-up of the caller |
| `RetryPoll`, `Retry` | after the sleep of `sdhci_send_command_retry` |
| `IrqEnter`, `IrqCmd`, `IrqData`, `IrqAgain`, `IrqExit` | `sdhci_irq` |
| `IrqThreadStart`, `WorkerStart` | wake-ups of the two threads |
| `RequestDone`, `Unmap`, `Relock` | `sdhci_request_done`, cut where the lock is dropped |
| `Deferred`, `CardEventPresent`, `CardEventLocked` | rest of `sdhci_thread_irq` and `sdhci_card_event` |
| `TimerExpire`, `TimerRun` | a timer leaves the list; its callback runs |
| `Hw...` | controller and card (external) |

A section under the lock is one action, enabled while `irq.pc = "off"`. The
handler is not one action although it holds the lock for its whole run: the
controller raises bits between its passes and the caller's unlocked steps go on. Everything a
function does before the lock is dropped again is in its action: `Relock`, for
example, clears `host_cookie`, resets the controller if the request needs it and completes it.
The model lets a PIO transfer end, which the port's does not (Observations).

**RequestPort** is the promise: one request at a time, completed once, reported as
good only if the controller did all its parts, and nothing done for it between the
completion and the caller's return. `Port` in SdhciRequest maps it: `request` is the request
the caller waits for, `result` is read from `sem_ack` and the error fields.

**SdhciTransfer** follows one command from `_sg_init` to the end of its data. Memory is
addresses: `sgl` is the scatterlist with, for each segment, where the controller has it and where the caller has it;
`table` the ADMA2 descriptors; `slots` the heads that went through the align buffer; `moved` the pieces the
controller moved, `pos` how far it is. Its actions are the functions of `sdhci_send_command` in their
order: `Submit` (with `__map_sg`), `SetTimeout`, `PrepareData`, `BuildTable`, `SelectDma` (with
`sdhci_set_transfer_irqs` and `sdhci_set_block_info`), `SetMode`; then `DmaEnd`, `DataEnd`, `DataError`,
`PioBlock` for the handler, and `AdmaMoves`, `SdmaMoves` for the controller. Registers and host flags
outlive the command, so that what one leaves meets the next. **SdhciTimeout** has the arithmetic of timeouts, in
microseconds: the count for the controller, the software timeout, and when the software timer is due (`TimerOf`), which for a software timeout is at once, since
`nsecs_to_jiffies` of this port is a stub (`NsecsToJiffies`).

**SdhciBus** has the caller's position in `pc`: `Reinit`, `DisablePreset`, `ChangeClock`, `ChangePower`, `ChangeMode`, `Gate`,
`ChangeUhs` and `Reclock` are `sdhci_set_ios` in its order; `SendTuning`, `TuningIrq`, `GiveUpTuning`, `CheckTuning` the tuning of
the core; `TryTap` to `LastFails` that of cv181x. `host` is what the driver remembers, `reg` what is in the
registers: clock, power, width, mode, presets, tuning, both interrupt registers, and of cv181x the PHY, the
power switch and the pads. `CardMoves` and `RequestFails` happen between calls. **SdhciClock** is `sdhci_calc_clk`
with the clock the controller makes of the register (`Wire`), **TapSearch** one pass of the tap search next to a
definition of what it is for (`MedianOfWidest`).

**SdhciProbe** has the prober's position in `pc`, with an action for each step that can fail or that others
can see; `held` is what it allocated, `host` the flags, capabilities and limits, `ier` and `reg` the interrupt enables.
The handler (`IrqEnter` to `IrqWake`) preempts it between any two steps. It is cut at each register access, since here it
matters which of `SDHCI_INT_ENABLE` and `SDHCI_SIGNAL_ENABLE` is written. `TakeIsr` and `CardEvent` are the interrupt thread.
The prober's `sdhci_set_card_detection` runs without the lock and is cut at its reads as well: `ReadPresent`, `Arm` (`host->ier` and the first register,
one step because the handler leaves `host->ier` alone as long as no card interrupt is enabled), `Load`, which reads `host->ier` again into `loc.ier`, and
`Signal`, which stores that value, stale or not. `IrqLost` is the handler that goes through a descriptor which has been freed and belongs to somebody else
by now: nothing is known of what it does, and the model stops there. `IrqEnter` is the case that the memory still holds the descriptor.

Definitions whose comment starts with "Mutant" are not part of the model. Each is
the mapped definition that follows it with a plausible bug; with it in place of that definition
the property named in PROJECT.json fails, which shows that the property depends on the code.

## Environment

* One request is with the driver at a time (`mmcsd_send_request` holds the host).
  A request that returned may be submitted again, so that one request of each shape
  gives every sequence of shapes.
* The controller answers a command with a response or an error, and ends data or busy with
  success or an error, in any order. The bits stay until the handler reads them.
  A reset of the command or data circuit stops the line, releases its inhibit bit and
  drops its bits.
* `Faults` names what else may happen. `"stall"`: answers take longer than the timers,
  or never come. Without it timers do not expire: an answer always comes first.
  `"inhibit"`: an inhibit bit may stay on after the interrupt, until `HwRelease`, which is not
  fair. `"remove"`: the card comes and goes, with an interrupt each time. `"nomem"`: `rt_malloc_align` fails.
* `sem_ack` is released after the lock: nothing in the model sees the difference, because
  the thread that releases it has let go of the request.

* In SdhciTransfer the controller follows descriptors until all data are moved, stops SDMA at each
  512 KiB boundary, and need not tell of a boundary that the data end at. `rt_malloc_align` gives buffers anywhere,
  apart from one another; physical memory is contiguous where virtual memory is.
* In SdhciBus the internal clock may never become stable, each test of a tap passes or fails as it
  likes, and the interrupt of a tuning block comes at any time or never. The upper layer powers a card up, then on, and then sets
  clock, width or timing one at a time, in any order; it may power up or off whenever it wants.
* In SdhciProbe every allocation may fail (`Scarce`). A controller detects cards by level (the status bit of a card
  state returns for as long as the state lasts) or by edge. An overcurrent stands for every interrupt that is not about the card. Requests, which the upper layer may
  send as soon as `mmc_add_host` has told it of the host, are those of SdhciRequest and do not occur here; nor do their changes of `host->ier` (`sdhci_set_transfer_irqs`).

## Runs

| run | instance | checks | distinct states |
|---|---|---|---|
| in_time | five shapes of request, scatter-gather DMA, any error, failing allocations, no timeouts; AUTO_CMD23 as on cv181x | `CompletedOnce`, `NotForgotten`, `Attributed`, `Delivered`, `FreedOnce`, refinement `PortSpec` | 8 600 |
| all_faults | R1b and a read with CMD23 and CMD12 by the driver, bounce buffer, timeouts, removal, stuck inhibit bits | `TypeOK`, `NoWarning`, `CompletedOnce`, `Quiescent`, `Attributed`, `Truthful` | 6 800 000 |
| returns | plain, R1b, write; timeouts, stuck inhibit bits; `FairSpec` | `NotForgotten`, `EveryRequestReturns` | 259 000 |
| transfer | four boards, fourteen commands | `TypeOK`, `Placed`, `Complete`, `WellFormed`, `Agreed`, `Watched`, `EndedOnce`, `Counted`, `Ends` | 8 400 |
| bus | four boards, three widths, three timings | `TypeOK`, `NotFaster`, `Reported`, `InStep`, `Restored`, `Median`, `TapKept`, `Glitchless`, `Returns` | 99 000 |
| probe | seven boards, five controllers, any allocation failing | `TypeOK`, `Armed`, `WakesWaiters`, `Undone`, `Usable`, `KeepsTo33`, `Noticed` | 157 000 |
| double_unmap, leak_on_error, free_during_dma, stop_stalls, tap_outside_window, bounce_too_small | a small instance each | see Findings | - |

Requests:

* `CompletedOnce`: one completion for each request, after which nobody points to it.
* `NotForgotten`: a request that is out and not completed is in a place that somebody will look at. This is
  the safety form of "no lost wake-up".
* `Quiescent`: when the caller gets the request back no line is busy, no timer is pending, and no interrupt of it is
  left.
* `Attributed`: no interrupt bit is taken for another command's, whatever was timed out or reset before.
* `Truthful`: a good result means that the controller did each part of the request.
* `NoWarning`: no `WARN_ON` of the path fires.
* `Delivered`: a good read went through the copy out of its aligned buffer. `FreedOnce`: no aligned buffer is freed twice.
* `PortSpec`: the driver implements RequestPort.
* `EveryRequestReturns`: no caller sleeps for ever.

Data:

* `Placed`: every piece the controller moves is where the caller has that part of the data, through align
  buffer, realigned buffers, 128 MB splits and SDMA restarts. Excluded: the bounce buffer and `TooShort` (Observations).
* `Complete`, `WellFormed`: the table does not end before the data; each descriptor can be followed; table and slots fit.
* `Agreed`: DMA select, transfer mode, interrupts and block registers say the same.
* `Watched`: no command that uses the data line is given up before its time, as far as the driver can help it. The timeout interrupt is enabled and the count is as
  long as what the command asks for; only for a command that asks for more than the controller can count, or names no timeout for its busy line, it is the longest count, which
  may be shorter, or none on boards with `SDHCI_QUIRK2_DISABLE_HW_TIMEOUT`. A software timeout occurs only there, and is due at once. Everywhere else the software timer
  does not come before the time asked for either, for busy lines always and for data up to its ten seconds.
* `EndedOnce`: exactly one of CMD23 and CMD12, of driver and controller, ends a transfer of many blocks.
* `Counted`: while SDMA is on its way the driver's count of bytes is the controller's. `Ends`: no table and no boundary stops the controller for good.

Bus and tuning:

* `NotFaster`, `Reported`: the clock on the wire against the wanted one and `mmc->actual_clock`.
* `InStep`: power level, preset bit, clock, and the pads and switch of cv181x against what the driver remembers, over resets.
* `Glitchless`: the bus speed mode changes only while the card has no clock. `Returns`: each call returns.
* `Restored`: however tuning ends, interrupts are enabled again and the controller is out of tuning.
* `Median`: the tap chosen is the middle of the widest window. `TapKept`: no reset loses it, nor does `set_ios` on slots where it does not restore the PHY.

Probe:

* `Armed`: after the probe one card interrupt is enabled where cards are detected, and none elsewhere; both registers hold `host->ier`, or the stale value that the prober
  stored has crossed the handler's, and `SDHCI_SIGNAL_ENABLE` holds the other card interrupt (Observations). Nothing else may differ.
* `Noticed`: the driver ends up knowing whether there is a card, unless that stale value is still in the register.
* `WakesWaiters`: the handler wakes no wait queue that is not there yet, or not there any more; and it runs out of a freed descriptor only after its thread could not be created.
* `Undone`: a failed probe leaves no work queue, no thread and no pointer to a descriptor table, and returns an error. What it does leave behind is under Observations.
* `Usable`: a host that is added has the memory its flags promise, requests that fit its buffer and segments that fit a descriptor. SDMA without a buffer is limited to one
  segment up to `mmc_add_host` and eight from then on (Observations).
* `KeepsTo33`: a board without 1.8 V is offered neither the signal nor the supply voltage nor the DDR mode of 1.8 V, in the flags that the upper layer gets, and HS200 at 1.8 V only
  if its device tree asks for that too (Observations).

all_faults uses the bounce buffer because with scatter-gather DMA `FreedOnce` and
with it `CompletedOnce` fail once a timer runs (finding 1). in_time keeps to DMA and shows that
they hold while no timer expires, as the theorems do for every instance of that kind.

**Bounds.** Requests: `MaxLoops` is 2 passes of the handler (16 in the code) and `MaxTries` 1 sleep for an inhibit bit (10).
Two passes reach both ways out of the loop, no bits left and no passes left; each pass starts from
any state, so that a third only repeats. One sleep reaches all outcomes of a sleep: sent, card gone,
given up. No other counter needs a bound: `sem_ack` stays below 2, which `CompletedOnce` checks.
Transfer: addresses and lengths have their real size, so that each boundary is really crossed; the commands are chosen one for each
case (about 128 MB, about and up to 512 KiB, odd addresses and lengths, one segment to eight, shorter than a head), and since
registers outlive a command each pair of them occurs.
Bus: clocks, dividers and presets have their real size; `MaxPhCode` is 5 taps (128 in the code) and `TapThld` 2 (20), enough for no window, one,
two of equal and of different width, and too narrow ones, in all 32 patterns; `MaxRetry` is 1 repeated test (50), `MaxLoops` 2 rounds of tuning (40), the first and one more.
Probe: `MaxLoops` is 2 (16), `MaxEvents` 4 changes of the card or overcurrents, enough for one in each window between two register accesses of prober and handler and one more.

Deadlock is checked except in transfer and bounce_too_small, where a PIO transfer is the end (Observations): elsewhere the caller goes on, and a probe that is over rests.

**Fairness.** Requests: strong fairness for each thread: it waits for a lock that the interrupt
handler takes again and again, and a thread that is ready infinitely often gets it (RT-Thread schedules equal
priorities round robin, and interrupts are finite in number between two resets of a line). Weak for the handler,
which nothing interrupts, and for timers that are pending: they leave the list in the end. Their callbacks need the lock: strong.
The controller is fair only in instances without `"stall"`. Nothing is assumed of the card, of the inhibit bits, or of the next request.
Transfer: weak for the driver, and for a controller that has work to do; nothing for errors or the next command.
Bus: weak for the calling thread, whose waits are bounded; nothing for clock, card, tests or interrupts.
Probe: weak for prober, handler and thread. Card events are bounded, so that they cannot keep the prober from running.

## Findings

1. **A buffer is unmapped twice** (`FreedOnce`, `sdhci.c:3030`). `sdhci_request_done`
   drops the lock around `dma_unmap_sg`, a change of this port, while the request is
   still in its slot with `COOKIE_MAPPED`. Timer: a read times out, its CMD12 is sent, the worker is queued;
   the CMD12 is answered, the handler wakes the interrupt thread; both find the request.
2. **An aligned buffer is not freed** (`FreedAtReturn`, `sdhci.c:2981`) if a
   read fails before its data are mapped: CMD23 error, no card, inhibit bits that stay on.
3. **An aligned buffer is freed during the transfer** (`FreedAfterTransfer`,
   `sdhci.c:3030`): after an error of the command, the unmap comes before the reset.
4. **A CMD12 that is not answered hangs the caller** (`EveryRequestReturns`, `sdhci.c:3121`): it runs
   under the data timer, which acts only on data, a data command or a data line command.
5. **Tuning succeeds outside every window** (`TunedInWindow`, `sdhci-cv181x.c:337`): if no window is 20 taps wide
   `final_tap` stays -1, the PHY gets tap 0x7F, and one good test is enough for the function to return 0.
6. **The bounce buffer is too small for a legal request** (`NoWarning`, `sdhci.c:1119`): the limits that
   `sdhci_allocate_bounce_buffer` lowers to 64 KiB are replaced by `mmc_add_host`. The request is warned about as invalid and
   goes by PIO.

## Observations

Met while modelling. They are kept in the models, or left out where said; no run is spent on them.

* **PIO never ends.** `sg_miter_start` and `sg_miter_next` (`l-sg.c`) are stubs, `sg_miter.length` stays 0, and
  the loop over a block (`sdhci.c:482`) runs for ever with interrupts off (`PioBlock`). What SdhciRequest says about PIO holds for a
  transfer that ends.
* **Bounced data do not reach the caller**: `sg_copy_to_buffer`, `sg_copy_from_buffer` and `dma_map_single` are stubs too. Without a bounce
  buffer SDMA with more than one segment warns (`sg_cnt != 1`) and overruns the first.
* **A short write.** An unaligned write that is shorter than its head (`sdhci.c:716-756`) copies 3 bytes and gets a second descriptor with length -1. `Placed`
  and `WellFormed` exclude it (`TooShort`); reads are realigned, so that `sdhci_adma_table_post` never copies.
* **A gap in the programmable clock.** If divider 1025 is slow enough and 1024 is not, the search takes 1025, whose field does not fit: the card gets
  the undivided clock (theorem `GapIsUndivided`). `NotFaster` and `Reported` exclude it (`InGap`). With presets on, a card that is powered
  up runs at a preset clock until the end of the call.
* **The SD slot of cv181x loses its tap**: every `set_ios` with power on calls `sdhci_cv181x_sd_voltage_restore`, which puts the PHY back to DS/HS. `TapKept` is about
  slots where it does not, and about resets on both.
* `reset_after_tuning_pass` says "Clear BUF_RD_READY intr" but writes ones to all other bits of a write-1-to-clear register, and waits for bits 0 and 1 after setting 2 and 1.
* `max_lead_lag_size` may be 0 when `rate` is computed (`sdhci-cv181x.c:333`); only a debug message prints it.
* **SDMA without a buffer gets eight segments.** Where the bounce buffer cannot be allocated, `sdhci_allocate_bounce_buffer` says "Exiting with zero here makes sure we proceed
  with mmc->max_segs == 1" (`sdhci.c:4041`). `max_segs` is `max_dma_segs` of the port's host (`mmc.h:147`), and `mmc_add_host` sets that to 8 (`l-mmc.c:370`), as it replaces the
  limits of finding 6. `Usable` has the single segment only up to there.
* **A board without 1.8 V may offer HS200 at 1.8 V.** "Disable HS200/HS400 if the board does not have 1.8v connected to the IO lines" (`sdhci.c:4397`) clears
  `MMC_CAP2_HSX00_1_8V` in `caps2`, which is 0 in this port (`mmc.h:227`). The mode of `mmc-hs200-1_8v` is in `caps` (`l-mmc.c:447`), and `mmc_add_host` passes `caps` on (`l-mmc.c:357`). So a device tree
  with both properties gets both, which `KeepsTo33` allows for. `MMC_CAP2_HS200`, which SDR104 becomes, is never passed on.
* **A card change may go unnoticed after the probe.** `sdhci_set_card_detection` has no lock at `sdhci.c:150`. If the card moves after `SDHCI_INT_ENABLE` is written and another interrupt
  brings the handler in between the read of `host->ier` and the write of `SDHCI_SIGNAL_ENABLE`, the handler arms the opposite card interrupt in `host->ier` and both registers, and the
  prober then stores the older one. The next change of the card sets its status bit and raises no interrupt, until another interrupt or a request
  writes the register again. `Armed` says that this is the only way in which they differ, and `Noticed` that this alone can hide a card.
* Failure paths of the probe: `mmc_free_host` and `dma_free_coherent` are stubs (host and table stay allocated); the bounce buffer is not freed;
  `__sdhci_request_threaded_irq` frees its descriptor with the handler still installed if there is no thread, and the interrupt enables stay on, so that the next interrupt
  runs through freed memory (`IrqEnter` with what it held, `IrqLost` with anything). `Undone` says what is undone, `WakesWaiters` that this failure is the only way there.
* A controller that detects edges may miss a change between the read of the card state and the enabling of the opposite interrupt (`ReadPresent`, `Arm`); `Noticed` is about levels.
* With re-tuning modes 2 and 3 the handler never clears `SDHCI_INT_RETUNE`, and `mmc_retune_needed` is a stub: the interrupt would not cease. The controller of SdhciProbe does not raise it.
* `nsecs_to_jiffies` returns 0: a software data timeout is due at once, and the request is given up as soon as the timer runs. No board of the repository has the quirk that asks for one.
* A card that is exchanged without a power off is not power-cycled, as the power level is cached. The example names the eMMC without `cv-emmc`, so that its pads are not set up.
* The check "A deferred command might disappear" (`sdhci.c:1696`) is kept in the model
  (`Disappeared`) and never true. The thread that sleeps with the deferred command is the only one that
  takes it, and the card event runs in that same thread.


## Proofs

All theorems are about any set of requests, hosts, buffers, flags, faults and bounds, under the named assumptions of the modules, which say what
the code can be given:

| assumption | says | because |
|---|---|---|
| `RequestAssumption`, `EnvironmentAssumption` | which parts a request can have; kinds of faults; positive bounds | `mmc_wait_for_req` and the callers in `l-mmc.c`; the model's own bounds |
| `TransferAssumption` | numbers of bytes, blocks and ns; no board takes more than `MaxReqSize` | `mmc->max_req_size` of 512 KiB |
| `BufferAssumption` | the caller's buffer, the port's buffers and the align buffer do not overlap | different allocations (`rt_malloc_align`, `dma_alloc_coherent`) |
| `BoardAssumption`, `BusAssumption` | clocks are positive; a preset's divider has ten bits; the widths and timings include the first ones | width of the register fields; `FreqMin` is the upper layer's |
| `TapAssumption` | at least one tap, a positive threshold | `MAX_PH_CODE`, `TAP_THLD` |
| `ProbeAssumption` | kinds of boards and controllers; block size and tuning mode have two bits | the capability registers |

**SdhciRequest_proofs**: `TypeCorrect` (`Spec => []IInv`) and `TypeInvariant` (`Spec => []TypeOK`), for any mapping.
`TypeOK` is not inductive: `Retry` sends `loc[t].cmd`, and `Relock` and `Unmap` work on `loc[t].mrq`, which
are `None` elsewhere, and `Fail(h, None, ...)` is no host. `IInv` adds `Working`: a thread that sleeps
for a command has one, a thread that unmaps or completes has a request, a caller past `Submit` has one. So the theorem
also says that no step of the request path follows a null pointer. The argument: each operator of SdhciHost
maps a host to a host (one lemma for each function, along the call graph), each action keeps the locals of its thread in
order (lemmas for `Continue`, `Try`, `Finish`, used by all actions that call them), and `NextInv` puts the actions together.

**SdhciOnce_proofs**, **SdhciServed_proofs**, **SdhciPort_proofs**: the safety properties of the request path. SdhciOnce_proofs has what each step does to the
roles of a request, SdhciServed_proofs what each function of the driver does to what the controller has done for it, SdhciPort_proofs one lemma for each action, and the theorems:

| theorem | states | hypotheses |
|---|---|---|
| `CompletesOnce`, `NeverWarns` | `CompletedOnce`, `NoWarning` | `InTime` |
| `TruthfulAlways`, `QuiescentAlways`, `AttributedAlways` | `Truthful`, `Quiescent`, `Attributed` | `InTime` |
| `KeepsPromise` | `Spec => PortSpec`: the driver implements RequestPort | `InTime` |
| `NotForgottenAlways` | `NotForgotten` | `InTime`, `Prompt` |
| `DeliveredAlways`, `FreedOnceAlways` | `Delivered`, `FreedOnce` | scatter-gather DMA, answers in time |

`InTime` is `Mapping = "sg" => Faults \subseteq {"nomem"}`. With the bounce buffer or by PIO it assumes nothing: late answers, removal and stuck inhibit bits in every order.
With scatter-gather DMA answers come in time: no timeout, removal or stuck inhibit bit, but any error and any failing allocation. The hypothesis is needed: `sdhci_request_done` then drops the lock in its middle,
and where the worker has been queued meanwhile `CompletedOnce` and `FreedOnce` fail (finding 1).

None of the properties is inductive. All follow from the invariant `Core`, which has five parts:

* `IInv`, the types of above.
* `Once`: the host has the caller's request in one role at most (`OneRole`): it runs, or one command of it is deferred, or it is in one slot of
`mrqs_done`; the host is free of it before it is sent and after it is completed; the interrupt thread
sleeps only with the deferred command (`InHand`). `OneRole` has two more facts that a step needs: data run with no command but their own, and
CMD23 runs without a data command, so that its successor may be deferred.
Interrupts, timers and card removal touch a running request only and leave it in one role (`Moves`, one lemma for each function);
sending and finishing start from a parked one (`TryRoles`, `FinishRoles`); so each completion finds exactly one slot and leaves a free host.
* `Unmapping`: a thread that has dropped the lock in `sdhci_request_done` has the caller's request, still in the slot it found it in and still mapped. With `Once` nothing runs while it is away
(`HeldParked`). What must not happen is that a second thread gets to the same slot.
* `Quiet`, for scatter-gather DMA: the worker is idle and not queued, no timer callback is due, no command is deferred and no thread sleeps for one. It holds because every command finds its lines free: a command is sent from
inside the handler only when the one before has left the line, and no inhibit bit outlives its command. The lemmas on `Calm` say for each function that it defers nothing then and queues no work.
So the handler and the interrupt thread are the only ones that finish requests, and the handler finishes running ones only.
* `Ledger`: what the controller has to do with the request, which is in one of three states (`Books`). `Ready`: it waits to be sent, and the lines are
silent. `Runs`: every command on a line and every bit of the status register belongs to it (`Wired`), what the bits claim was done (`Genuine`), and without an error what it
needs is done or owed by what runs (`Honest`). `Finished`: it waits in `mrqs_done`, and either the lines are silent and all it needs was done, or an error makes
`sdhci_request_done` reset the controller first (`pending_reset`). `InCmd` and `InData` carry the bits the handler has read over to the calls that use them: in between nothing
takes the command away, as the handler has the lock. Each action is shown together with the step of RequestPort it maps to (`Promise`); most are stutters (`Hidden`).

`Prompt`, the other hypothesis of `NotForgottenAlways`: if answers may be late (`"stall"`), no request has a CMD12 or CMD23 of the driver's own.
Without it the theorem is false: such a command runs under the data timer, which ignores it (finding 4). The invariant `Tended` says who looks at the request next.
What runs has its timer, in the list or with its callback about to run (`TimerOf`). What waits in a slot has the worker queued, or a thread on its way to the slots, or the wake-up
of the interrupt thread (`DoneMinded`); a deferred command has the interrupt thread (`DeferredMinded`); both while nobody holds the lock, since the handler may leave a slot to the wake-up it
sends at its end. While the caller waits the host has the request.

`DeliveredAlways` and `FreedOnceAlways` need `Buffers`, on top of `Core`. `Lent`: the aligned buffer is there from `_mmc_request` until a thread is between unmapping and completing the request; that thread is alone. `Carried`: as long as
the request is not completed, no data of it have gone over the line unless it is mapped; so what is completed as good, which by `Truthful` had its data, was mapped, and the handler leaves a mapped
request to the thread (`HandedOver`).

Each of these invariants was checked with TLC before it was proved: `Once` and `Ledger` on the instance of all_faults, `Tended` on those of all_faults (without late answers) and returns (with all other faults),
`Unmapping`, `Quiet` and `Buffers` on that of in_time, without and with each of the two auto commands.

**SdhciTransfer_proofs**, in three parts.

* The registers: `Invariance` (`Spec => []Inv`), and from it `TransferAgreed`, `TransferCounted`, `TransferEndedOnce` and `TransferWatched`, the
properties `Agreed`, `Counted`, `EndedOnce` and `Watched` of the transfer run. None is inductive: a command writes its registers in stages, over what the
command before left there, and the properties speak only of the time when the controller moves data. `Inv` says what each stage leaves for the next.
`Early`: which command a stage can have, and that data have a first segment. `Agreeing`: what `SelectDma` leaves for `SetMode` (`Selected`), and
`SetMode` for the controller. `Counting`: before the controller runs nothing is moved and the SDMA address is that of the data; at a boundary the
controller is exactly at the first boundary behind what the driver has counted. Then `sdhci_data_irq`, which rounds its count up
to the boundary, lands where the controller stopped. One lemma for each action. `Watching`, proved on top of `Inv`, says what `SetTimeout` establishes about the count, the
timeout interrupt and the software timeout (`SetTimeoutWatches`) and that the later steps keep it; at `SetMode` the timer is set from it (`TimerLong`), and outlives what the command asks for.
* The table, without a state. `DescriptorsCover`: the one or two descriptors that
`sdhci_adma_write_desc` makes of 1 to 65536 bytes at any address cover them in order, and none crosses 128 MB. `Lays(R, u, from, to)` says that the descriptors `u` move the bytes
of a request from one position to another, each one allowed at its position by `R`; `LaysBoth` joins two such sequences. `MapSgSegments` gives the shape of every scatterlist (`Segmented`): segments that
follow one another for the caller and lie apart for the controller, at most eight of them. `SlotsApart`: each head has its own slot of the align buffer. With these
`TableLays`: the table of any scatterlist lays all of the data, and each descriptor is aligned, within 128 MB, and stands for the caller's bytes at its position (`Right`). The induction over the segments is one over a set of
naturals (`Induction`, from well-foundedness), since `Upto` is a recursive function and not a recursive operator. `TableReaches` is the part that holds
where a segment is shorter than its head: the table moves other bytes, but no fewer.
* The controller: `FollowingAlways` (`Spec => []Following`) says that the table is one of these and what has been moved is its first part (`Planned`, with witnesses for
descriptors and offsets), or for SDMA a stretch of one segment (`Stretched`). From it `TransferComplete`, `TransferWellFormed`, `TransferTyped`, and `TransferPlaced`,
which has a hypothesis: a board with SDMA and without bounce buffer is asked for no more than one segment. More overrun the first one (Observations). `Following`
was checked with TLC on the instance of transfer first, with the descriptors and offsets computed from the table.

**SdhciClock_proofs**: `ClockNotFaster`: for every board and every clock from the slowest one on, outside the gap and with presets off, neither the clock on the wire nor the
one reported is above the clock asked for. `ClockReported`: with presets too, and however slow the clock, the divider fits its field and the clock reported is the one on the wire. The search is "the least divider that is slow enough" (`LeastExists`, by well-foundedness), a
divider found is named by the register without loss (`EvenField`), and what remains is arithmetic. `GapIsUndivided`: inside the gap the card gets the undivided clock
while a slower one is reported; so the exclusion in `NotFaster` is exact. `TapSearchFinds`: the single pass over the taps finds the middle of the first widest window, for any number of taps, threshold and set of bad
taps; its loop invariant says what the pass knows of the windows that end before the current tap and of the one that is open.

**SdhciBus_proofs**: `NotFasterAlways`, `ReportedAlways`, `InStepAlways`, `RestoredAlways`, `MedianAlways`, `TapKeptAlways`, `TypeAlways`, and the action property `GlitchlessAlways`: all safety properties of the bus run. `Inv` says what
each stage of `set_ios` and of tuning has still to write. `Remembered`: presets and power agree with their registers but in a power-off, where Reset-all comes before the cached power is updated (`Pending`).
`Clocked`: the cached clock is the one asked for once its step is done, and the reported one is on the wire. `Limited`: between calls, or on a controller without the staged clock of version 3.00, the clock is not too fast. `Masked`: the interrupts
of tuning are enabled in the tuning of the core only. `Tapped`: the tap in the PHY is that of the last tuning, taken through eight bits without loss;
on the SD slot every `set_ios` with power ends what it speaks of (`tuned`), as the PHY is put back there, so that it covers resets on both slots and settings on the eMMC's.

**SdhciProbe_proofs**: `ArmedAlways`, `WakesAlways`, `UndoneAlways`, `UsableAlways`, `KeepsTo33Always`, `TypeAlways`: all safety properties of the probe run, for every board and controller. `Arming`: the
two registers hold `host->ier` but for the window between the two writes of handler or prober and for the prober's stale value, and a card interrupt is enabled only for a host that watches the card; so the
handler cannot see a card event before the wait queue is there. What the prober has read and `host->ier` are `Alike`: they may differ in which card interrupt they hold and in nothing else, since the handler
changes nothing else; so the stale store leaves `ier` or `Crossed`. `Live`: the handler's descriptor goes only in the failure that the caller is told of. `Resources`: which steps come after each allocation.
`Promised`: which flags a step can find. `Limited`: limits fit the memory. `Low`: how "no-1-8-v" holds through flags, capabilities and voltages.

Each safety property of a passing run is stated by a theorem, and the run's instance is one of those the theorem is about: in_time has no late answers, returns no CMD12 or CMD23
of the driver's own, all_faults the bounce buffer, transfer no SDMA board without bounce buffer that takes more than one segment.
Model-checked only, and out of the prover's reach: liveness under fairness (`EveryRequestReturns`, `Ends`, `Returns`, `Noticed`).

## Plan

What is left, in this order.

1. `PortTimer`: the timer list with ticks that wrap (`l-timer.c:49`), as a module of its own.
2. The voltage switch, if the port gains a way to ask for it.

## Not modelled

* Logging, register dumps, exact error codes, command arguments and responses; cache maintenance; drive strength and pull resistors of the pads; the debug output
  of the lead and lag windows.
* External DMA, command queueing, runtime
  suspend and `sdhci_remove_host` (never called in this port, so that `SDHCI_DEVICE_DEAD` is never set), `cap_cmd_during_tfr` (never set by
  the upper layer), present-state polling and quirks that cv181x does not set.
* `sdhci_start_signal_voltage_switch`, `sdhci_card_busy` and SDIO card interrupts: complete in `sdhci.c`, but `port/l-mmc.c` calls none of
  them, so that no state of the program depends on them.
* Timers by tick count: SdhciRequest has a timer expire whenever the faults allow it, whatever its deadline; which deadline is set is in SdhciTransfer.
* Requests during the end of the probe: `mmc_add_host` comes before `sdhci_set_card_detection`, whose `host->ier |= ...` (`sdhci.c:143`) is a read and a write without the lock. A first request's change of
  `host->ier` in between would be lost.
* Device-tree look-up and memory helpers (no state of their own), and the example board, whose pin set-up is constants.
