------------------------------ MODULE SdhciBus ------------------------------
(***************************************************************************)
(* Bus settings of a host: sdhci_set_ios with the clock, power and reset   *)
(* functions of the core and of the platform, and tuning.  One thread of   *)
(* the upper layer calls them, one call at a time and between requests; pc *)
(* is where it is.  The card comes and goes, the internal clock may never  *)
(* become stable, tests of a tap pass or fail, and a request that failed   *)
(* resets the command and data circuits.                                   *)
(*                                                                         *)
(* A step is a part of the call that ends where the controller or the card *)
(* could tell the difference.  The driver strength, the indicator bits and *)
(* the pull resistors of the pads are left out: nothing depends on them.   *)
(***************************************************************************)
EXTENDS SdhciClock, TapSearch

CONSTANTS
  Boards,       (* records: ops ("generic" for the functions of the core,
                   "sd" and "emmc" for those of cv181x), version, max_clk,
                   clk_mul, preset, preset_broken, removable, cap8,
                   sdr50_tuning                                             *)
  Clocks,       (* clocks the upper layer asks for                          *)
  Widths,       (* bus widths it asks for                                   *)
  Timings,      (* timings it asks for                                      *)
  Vdd,          (* the voltage it chose                                     *)
  FreqMin,      (* the clock it starts a card with, mmc->f_min              *)
  MaxRetry,     (* MAX_TUNING_CMD_RETRY_COUNT (50)                          *)
  MaxLoops      (* host->tuning_loop_count, MAX_TUNING_LOOP (40)            *)

\* Preset values are those of a register with ten bits of divider.
ASSUME BoardAssumption ==
  \A b \in Boards :
    /\ b.ops \in {"generic", "sd", "emmc"}
    /\ b.version \in Nat /\ b.max_clk \in Nat \ {0} /\ b.clk_mul \in Nat
    /\ \A t \in Timings : b.preset[t].div \in 0 .. 1023

\* The upper layer stops the clock only with the power.
ASSUME BusAssumption ==
  /\ Clocks \subseteq Nat \ {0} /\ FreqMin \in Nat \ {0}
  /\ 1 \in Widths /\ "LEGACY" \in Timings
  /\ Vdd \in {"165_195", "20_21", "29_30", "30_31", "32_33", "33_34"}
  /\ MaxRetry \in Nat /\ MaxLoops \in Nat \ {0}

VARIABLES board, host, reg, ios, pc, tune, present, tuned

vars == <<board, host, reg, ios, pc, tune, present, tuned>>

-----------------------------------------------------------------------------
(* Registers *)

ClockOff == [on |-> FALSE, prog |-> FALSE, div |-> 0]

\* Delay lines of the PHY: the setting for DS/HS, or a tap.
DsPhy == [tap_mode |-> FALSE, tap |-> 0]
TapPhy(tap) == [tap_mode |-> TRUE, tap |-> tap % MaxPhCode]

\* What Reset-all leaves of the registers of the controller.
ResetAll(r) == [r EXCEPT
  !.clk = ClockOff, !.power = "off", !.width = 1, !.hispd = FALSE,
  !.uhs = "SDR12", !.preset_en = FALSE, !.exec = FALSE, !.tuned_clk = FALSE]

\* Mutant: the tap found is forgotten by a reset.
CviPhyNoTap(r, final_tap) ==
  IF r.uhs = "SDR104" THEN TapPhy(0) ELSE DsPhy

\* sdhci_cv181x_sd_reset and sdhci_cv181x_emmc_reset: the PHY follows the bus
\* speed mode, with the tap of the last tuning.
CviPhy(r, final_tap) ==
  IF r.uhs = "SDR104" THEN TapPhy(final_tap) ELSE DsPhy

\* host->ops->reset.  cv181x masks all interrupts during the reset and then
\* enables those of host->ier.
Reset(b, h, r, all) ==
  LET after == IF all THEN ResetAll(r) ELSE r
  IN  IF b.ops = "generic" THEN after
      ELSE [after EXCEPT !.phy = CviPhy(after, h.final_tap),
                         !.enable = "ier", !.signal = "ier"]

\* Mutant: the driver thinks that presets are still on.
DoResetHostKeepsPreset(h, all) ==
  IF all THEN [h EXCEPT !.clock = 0] ELSE h

\* What sdhci_do_reset changes in the host.
DoResetHost(h, all) ==
  IF all THEN [h EXCEPT !.clock = 0, !.preset_enabled = FALSE] ELSE h

-----------------------------------------------------------------------------
(* set_ios *)

\* Mutant: the clock is calculated for the clock set before.
SetClockLate(b, h, r, clock, stable) ==
  LET c == CalcClk(b, h.preset_enabled, h.timing, h.clock)
  IN  IF clock = 0
        THEN [host |-> [h EXCEPT !.actual_clock = 0],
              reg |-> [r EXCEPT !.clk = ClockOff]]
        ELSE [host |-> [h EXCEPT !.actual_clock = c.actual],
              reg |-> [r EXCEPT !.clk = [on |-> stable, prog |-> c.prog,
                                         div |-> c.div]]]

\* sdhci_set_clock and sdhci_enable_clk: the card gets its clock only if the
\* internal clock is stable in time.
SetClock(b, h, r, clock, stable) ==
  LET c == CalcClk(b, h.preset_enabled, h.timing, clock)
  IN  IF clock = 0
        THEN [host |-> [h EXCEPT !.actual_clock = 0],
              reg |-> [r EXCEPT !.clk = ClockOff]]
        ELSE [host |-> [h EXCEPT !.actual_clock = c.actual],
              reg |-> [r EXCEPT !.clk = [on |-> stable, prog |-> c.prog,
                                         div |-> c.div]]]

PowerLevel(mode, vdd) ==
  IF mode = "off" THEN "off"
  ELSE CASE vdd \in {"165_195", "20_21"} -> "180"
         [] vdd \in {"29_30", "30_31"} -> "300"
         [] vdd \in {"32_33", "33_34"} -> "330"
         [] OTHER -> "off"

\* sdhci_set_power_noreg; mmc->supply.vmmc is always an error in this port.
SetPowerNoreg(h, r, mode, vdd) ==
  LET pwr == PowerLevel(mode, vdd)
  IN  IF h.pwr = pwr THEN [host |-> h, reg |-> r]
      ELSE [host |-> [h EXCEPT !.pwr = pwr], reg |-> [r EXCEPT !.power = pwr]]

\* sdhci_cv181x_sd_voltage_restore: the power switch of the slot, and the PHY
\* back to DS/HS.  The signal voltage is never switched in this port.
VoltageRestore(r, unplug) ==
  [r EXCEPT !.switch = IF unplug THEN "discharge" ELSE "on", !.phy = DsPhy]

\* sdhci_cv181x_sd_setup_pad and _setup_io: the pads of the slot.
SetupPad(r, unplug) == [r EXCEPT !.pads = IF unplug THEN "gpio" ELSE "sdio"]

\* sdhci_get_cd, for a board without a card detect gpio
GetCd(b) == ~b.removable \/ present

\* host->ops->set_power
SetPower(b, h, r, mode, vdd) ==
  IF b.ops # "sd" THEN SetPowerNoreg(h, r, mode, vdd)
  ELSE IF mode = "on" /\ GetCd(b)
    THEN LET p == SetPowerNoreg(h, r, mode, vdd)
         IN  [p EXCEPT !.reg = SetupPad(VoltageRestore(p.reg, FALSE), FALSE)]
  ELSE IF mode = "off"
    THEN SetPowerNoreg(h, VoltageRestore(SetupPad(r, TRUE), TRUE), mode, vdd)
  ELSE [host |-> h, reg |-> r]

\* sdhci_set_bus_width: without MMC_CAP_8_BIT_DATA the 8 bit mode is left as
\* it is, and such a board is not asked for it.
SetBusWidth(b, r, width) ==
  [r EXCEPT !.width =
     IF width # 8 /\ r.width = 8 /\ ~b.cap8 THEN 8 ELSE width]

HighSpeedTimings ==
  {"SD_HS", "MMC_HS", "MMC_HS400", "MMC_HS200", "MMC_DDR52", "UHS_SDR50",
   "UHS_SDR104", "UHS_DDR50", "UHS_SDR25"}
PresetTimings ==
  {"UHS_SDR12", "UHS_SDR25", "UHS_SDR50", "UHS_SDR104", "UHS_DDR50",
   "MMC_DDR52"}

\* sdhci_set_uhs_signaling and sdhci_cvi_general_set_uhs_signaling: cv181x
\* uses no DLL up to 100 MHz.
UhsMode(b, clock, timing) ==
  LET fast == timing \in {"MMC_HS200", "UHS_SDR104"}
  IN  IF b.ops # "generic" /\ fast /\ clock <= 100000000 THEN "SDR12"
      ELSE CASE fast -> "SDR104"
             [] timing = "UHS_SDR25" -> "SDR25"
             [] timing = "UHS_SDR50" -> "SDR50"
             [] timing \in {"UHS_DDR50", "MMC_DDR52"} -> "DDR50"
             [] timing = "MMC_HS400" /\ b.ops = "generic" -> "HS400"
             [] OTHER -> "SDR12"

-----------------------------------------------------------------------------
(* The caller *)

Idle == pc = "idle"

\* External: what the upper layer asks for next.
PoweredUp == [ios EXCEPT !.power = "up", !.width = 1]
PoweredOn == [ios EXCEPT !.power = "on", !.clock = FreqMin]
PoweredOff == [power |-> "off", clock |-> 0, width |-> 1, timing |-> "LEGACY"]
NextIos ==
  {PoweredUp, PoweredOff}
    \cup (IF ios.power = "up" THEN {PoweredOn} ELSE {})
    \cup (IF ios.power # "on" THEN {}
          ELSE {[ios EXCEPT !.clock = c] : c \in Clocks}
            \cup {[ios EXCEPT !.width = w] : w \in
                    {w \in Widths : w # 8 \/ board.cap8}}
            \cup {[ios EXCEPT !.timing = t] : t \in Timings})

SetIos ==
  /\ Idle
  /\ ios' \in NextIos
  /\ pc' = IF ios'.power = "off" THEN "reset" ELSE "preset"
  /\ UNCHANGED <<board, host, reg, tune, present, tuned>>

\* Power off: mask, sdhci_reinit, and the default interrupts.
Reinit ==
  /\ pc = "reset"
  /\ host' = DoResetHost(host, TRUE)
  /\ reg' = [Reset(board, host, reg, TRUE) EXCEPT
               !.enable = "ier", !.signal = "ier"]
  /\ tuned' = NoTap
  /\ pc' = "preset"
  /\ UNCHANGED <<board, ios, tune, present>>

DisablePreset ==
  /\ pc = "preset"
  /\ IF board.version >= Spec300 /\ ios.power = "up" /\ ~board.preset_broken
       THEN /\ host' = [host EXCEPT !.preset_enabled = FALSE]
            /\ reg' = [reg EXCEPT !.preset_en = FALSE]
       ELSE UNCHANGED <<host, reg>>
  /\ pc' = "clock"
  /\ UNCHANGED <<board, ios, tune, present, tuned>>

ChangeClock ==
  /\ pc = "clock"
  /\ IF ios.clock = 0 \/ ios.clock # host.clock
       THEN \E stable \in BOOLEAN :
              LET s == SetClock(board, host, reg, ios.clock, stable)
              IN  /\ host' = [s.host EXCEPT !.clock = ios.clock]
                  /\ reg' = s.reg
       ELSE UNCHANGED <<host, reg>>
  /\ pc' = "power"
  /\ UNCHANGED <<board, ios, tune, present, tuned>>

ChangePower ==
  /\ pc = "power"
  /\ LET p == SetPower(board, host, reg, ios.power, Vdd)
     IN  host' = p.host /\ reg' = p.reg
  /\ tuned' = IF board.ops = "sd" THEN NoTap ELSE tuned
  /\ pc' = "mode"
  /\ UNCHANGED <<board, ios, tune, present>>

\* Bus width and high speed bit; with presets the card clock is stopped for
\* the high speed bit and started again.
ChangeMode ==
  LET r == [SetBusWidth(board, reg, ios.width) EXCEPT
              !.hispd = ios.timing \in HighSpeedTimings]
  IN  /\ pc = "mode"
      /\ IF board.version >= Spec300 /\ host.preset_enabled
           THEN \E stable \in BOOLEAN :
                  LET s == SetClock(board, host, r, host.clock, stable)
                  IN  host' = s.host /\ reg' = s.reg
           ELSE reg' = r /\ UNCHANGED host
      /\ pc' = IF board.version >= Spec300 THEN "gate" ELSE "idle"
      /\ UNCHANGED <<board, ios, tune, present, tuned>>

\* Mutant: the card clock runs on.
GateKeepsClock ==
  /\ pc = "gate"
  /\ pc' = "uhs"
  /\ UNCHANGED <<board, host, reg, ios, tune, present, tuned>>

Gate ==
  /\ pc = "gate"
  /\ reg' = [reg EXCEPT !.clk.on = FALSE]
  /\ pc' = "uhs"
  /\ UNCHANGED <<board, host, ios, tune, present, tuned>>

ChangeUhs ==
  LET mode == UhsMode(board, host.clock, ios.timing)
      enable == ~board.preset_broken /\ ios.timing \in PresetTimings
  IN  /\ pc = "uhs"
      /\ host' = [host EXCEPT !.timing = ios.timing,
                              !.preset_enabled = @ \/ enable]
      /\ reg' = [reg EXCEPT !.uhs = mode, !.preset_en = @ \/ enable]
      /\ tuned' = IF mode = reg.uhs THEN tuned ELSE NoTap
      /\ pc' = "reclock"
      /\ UNCHANGED <<board, ios, tune, present>>

Reclock ==
  /\ pc = "reclock"
  /\ \E stable \in BOOLEAN :
       LET s == SetClock(board, host, reg, host.clock, stable)
       IN  host' = s.host /\ reg' = s.reg
  /\ pc' = "idle"
  /\ UNCHANGED <<board, ios, tune, present, tuned>>

-----------------------------------------------------------------------------
(* Tuning *)

NeedsTuning ==
  \/ host.timing \in {"MMC_HS200", "UHS_SDR104", "UHS_DDR50"}
  \/ host.timing = "UHS_SDR50" /\ board.sdr50_tuning

NewTune == [min |-> 0, retry |-> 0, bad |-> {}, loops |-> 0]

\* The tuning is over; its error goes to the upper layer.
Return == tune' = NewTune /\ pc' = "idle"

\* sdhci_execute_tuning: the platform's tuning or sdhci_start_tuning.  Other
\* timings return at once.
ExecuteTuning ==
  /\ Idle /\ ios.power = "on" /\ NeedsTuning
  /\ tune' = NewTune
  /\ tuned' = NoTap
  /\ IF board.ops = "generic"
       THEN /\ reg' = [reg EXCEPT !.exec = TRUE, !.enable = "tuning",
                                  !.signal = "tuning"]
            /\ pc' = "send"
       ELSE /\ reg' = [reg EXCEPT !.tuned_clk = FALSE]
            /\ pc' = "tap"
  /\ UNCHANGED <<board, host, ios, present>>

\* sdhci_cvi_cv181x_set_tap, with the card clock off around it.
SetTap(r, tap) == [r EXCEPT !.phy = TapPhy(tap), !.clk.on = TRUE]

TryTap ==
  /\ pc = "tap"
  /\ reg' = SetTap(reg, tune.min)
  /\ tune' = [tune EXCEPT !.retry = 0]
  /\ pc' = "test"
  /\ UNCHANGED <<board, host, ios, present, tuned>>

\* mmc_send_tuning: refused with a bus of one bit; else a request, which may
\* fail with or without a reset of the command and data circuits.
MayPass == reg.width # 1
AfterFailure(r) == {r, Reset(board, host, r, FALSE)}

\* Mutant: a good tap is tested again and again.
TestPassesAgain ==
  /\ pc = "test" /\ MayPass
  /\ IF tune.retry < MaxRetry
       THEN tune' = [tune EXCEPT !.retry = @ + 1] /\ UNCHANGED pc
       ELSE pc' = "tap" /\ UNCHANGED tune
  /\ UNCHANGED <<board, host, reg, ios, present, tuned>>

\* A good test is repeated MaxRetry times; the tap is good if all pass.
TestPasses ==
  /\ pc = "test" /\ MayPass
  /\ IF tune.retry < MaxRetry
       THEN tune' = [tune EXCEPT !.retry = @ + 1] /\ UNCHANGED pc
       ELSE /\ tune' = [tune EXCEPT !.min = @ + 1]
            /\ pc' = IF tune.min + 1 < MaxPhCode THEN "tap" ELSE "choose"
  /\ UNCHANGED <<board, host, reg, ios, present, tuned>>

TestFails ==
  /\ pc = "test"
  /\ reg' \in AfterFailure(reg)
  /\ tune' = [tune EXCEPT !.min = @ + 1, !.bad = @ \cup {tune.min}]
  /\ pc' = IF tune.min + 1 < MaxPhCode THEN "tap" ELSE "choose"
  /\ UNCHANGED <<board, host, ios, present, tuned>>

\* Mutant: the tap is kept with its sign.
ChooseTapSigned ==
  LET tap == FinalTap(tune.bad)
  IN  /\ pc = "choose"
      /\ reg' = SetTap(reg, tap)
      /\ host' = [host EXCEPT !.final_tap = tap]
      /\ pc' = "last"
      /\ UNCHANGED <<board, ios, tune, present, tuned>>

\* reset_after_tuning_pass drops the tuning block; then the middle of the
\* widest window is set.  cvi_host->final_tap has eight bits.
ChooseTap ==
  LET tap == FinalTap(tune.bad)
  IN  /\ pc = "choose"
      /\ reg' = SetTap(reg, tap)
      /\ host' = [host EXCEPT !.final_tap = tap % (2 * MaxPhCode)]
      /\ pc' = "last"
      /\ UNCHANGED <<board, ios, tune, present, tuned>>

LastPasses ==
  /\ pc = "last" /\ MayPass
  /\ tuned' = reg.phy.tap
  /\ Return
  /\ UNCHANGED <<board, host, reg, ios, present>>

LastFails ==
  /\ pc = "last"
  /\ reg' \in AfterFailure(reg)
  /\ Return
  /\ UNCHANGED <<board, host, ios, present, tuned>>

\* sdhci_send_tuning: sent or not, tuning_done is 0 when the wait begins,
\* and the wait of this port does not wait.
SendTuning ==
  /\ pc = "send"
  /\ host' = [host EXCEPT !.tuning_done = FALSE]
  /\ pc' = "check"
  /\ UNCHANGED <<board, reg, ios, tune, present, tuned>>

\* Buffer Read Ready, if it comes before tuning_done is read: the controller
\* goes on, or ends the tuning with or without a sampling point.
TuningIrq ==
  /\ pc = "check" /\ reg.signal = "tuning" /\ ~host.tuning_done
  /\ host' = [host EXCEPT !.tuning_done = TRUE]
  /\ reg' \in {reg} \cup
       {[reg EXCEPT !.exec = FALSE, !.tuned_clk = t] : t \in BOOLEAN}
  /\ UNCHANGED <<board, ios, pc, tune, present, tuned>>

\* sdhci_reset_tuning and sdhci_end_tuning
ResetTuning(r) == [r EXCEPT !.exec = FALSE, !.tuned_clk = FALSE]
EndTuning(r) == [r EXCEPT !.enable = "ier", !.signal = "ier"]

\* Mutant: the interrupts of tuning stay enabled if it gave up.
GiveUpTuningMasked ==
  /\ pc = "check" /\ ~host.tuning_done
  /\ reg' = ResetTuning(reg)
  /\ Return
  /\ UNCHANGED <<board, host, ios, present, tuned>>

\* No interrupt: sdhci_abort_tuning.  The error stays in host->tuning_err and
\* sdhci_execute_tuning returns 0, as it does from here on in any case.
GiveUpTuning ==
  /\ pc = "check" /\ ~host.tuning_done
  /\ reg' = EndTuning(Reset(board, host, ResetTuning(reg), FALSE))
  /\ Return
  /\ UNCHANGED <<board, host, ios, present, tuned>>

CheckTuning ==
  /\ pc = "check" /\ host.tuning_done
  /\ IF reg.exec /\ tune.loops + 1 < MaxLoops
       THEN /\ tune' = [tune EXCEPT !.loops = @ + 1]
            /\ pc' = "send"
            /\ UNCHANGED reg
       ELSE /\ reg' = EndTuning(IF ~reg.exec /\ reg.tuned_clk THEN reg
                                ELSE ResetTuning(reg))
            /\ Return
  /\ UNCHANGED <<board, host, ios, present, tuned>>

-----------------------------------------------------------------------------
(* Around the calls *)

\* A request failed: sdhci_request_done resets the two circuits.
RequestFails ==
  /\ Idle /\ ios.power = "on"
  /\ reg' = Reset(board, host, reg, FALSE)
  /\ UNCHANGED <<board, host, ios, pc, tune, present, tuned>>

\* External: the card comes or goes.  The calls read it once, so that it is
\* enough to let it change between them.
CardMoves ==
  /\ Idle /\ board.removable
  /\ present' = ~present
  /\ UNCHANGED <<board, host, reg, ios, pc, tune, tuned>>

Init ==
  /\ board \in Boards
  /\ host = [clock |-> 0, actual_clock |-> 0, pwr |-> "off",
             timing |-> "LEGACY", preset_enabled |-> FALSE, final_tap |-> 0,
             tuning_done |-> FALSE]
  /\ reg = [clk |-> ClockOff, power |-> "off", width |-> 1, hispd |-> FALSE,
            uhs |-> "SDR12", preset_en |-> FALSE, exec |-> FALSE,
            tuned_clk |-> FALSE, enable |-> "ier", signal |-> "ier",
            phy |-> DsPhy, switch |-> "on", pads |-> "boot"]
  /\ ios = PoweredOff
  /\ pc = "idle"
  /\ tune = NewTune
  /\ present \in IF board.removable THEN BOOLEAN ELSE {TRUE}
  /\ tuned = NoTap

Step ==
  \/ Reinit \/ DisablePreset \/ ChangeClock \/ ChangePower \/ ChangeMode
  \/ Gate \/ ChangeUhs \/ Reclock
  \/ TryTap \/ TestPasses \/ TestFails \/ ChooseTap \/ LastPasses \/ LastFails
  \/ SendTuning \/ GiveUpTuning \/ CheckTuning

Next ==
  \/ SetIos \/ ExecuteTuning \/ Step
  \/ TuningIrq \/ RequestFails \/ CardMoves

Spec == Init /\ [][Next]_vars

\* The calling thread runs on; the waits in its calls are bounded.
FairSpec == Spec /\ WF_vars(Step)

-----------------------------------------------------------------------------
(* Properties *)

Levels == {"off", "180", "300", "330"}
Modes == {"SDR12", "SDR25", "SDR50", "SDR104", "DDR50", "HS400"}
Steps == {"idle", "reset", "preset", "clock", "power", "mode", "gate", "uhs",
          "reclock", "tap", "test", "choose", "last", "send", "check"}
IntSets == {"ier", "tuning"}

Host == [clock: Nat, actual_clock: Nat, pwr: Levels, timing: Timings,
         preset_enabled: BOOLEAN, final_tap: 0 .. 2 * MaxPhCode - 1,
         tuning_done: BOOLEAN]
Clk == [on: BOOLEAN, prog: BOOLEAN, div: 0 .. 1023]
Phy == [tap_mode: BOOLEAN, tap: Taps]
Reg == [clk: Clk, power: Levels, width: Widths, hispd: BOOLEAN, uhs: Modes,
        preset_en: BOOLEAN, exec: BOOLEAN, tuned_clk: BOOLEAN,
        enable: IntSets, signal: IntSets, phy: Phy,
        switch: {"on", "discharge"}, pads: {"boot", "sdio", "gpio"}]
Ios == [power: {"off", "up", "on"}, clock: Clocks \cup {0, FreqMin},
        width: Widths, timing: Timings]
Tune == [min: 0 .. MaxPhCode, retry: 0 .. MaxRetry, bad: SUBSET Taps,
         loops: 0 .. MaxLoops - 1]

\* Types of the variables: registers stay within their fields and the loops
\* of tuning within their bounds.
TypeOK ==
  /\ board \in Boards
  /\ host \in Host
  /\ reg \in Reg
  /\ ios \in Ios
  /\ pc \in Steps
  /\ tune \in Tune
  /\ present \in BOOLEAN
  /\ tuned \in Taps \cup {NoTap}

\* Between calls and in tuning the card never has a faster clock than the
\* upper layer asked for, unless the controller takes its clock from a preset
\* value (sdhci_calc_clk, sdhci_set_ios), the clock asked for is below the
\* slowest one, or it falls in the gap at the end of the programmable clock's
\* dividers.
NotFaster ==
  (/\ reg.clk.on /\ ~reg.preset_en
   /\ pc \in {"idle", "tap", "test", "choose", "last", "send", "check"}
   /\ host.clock >= SlowestClk(board) /\ ~InGap(board, host.clock))
  => Wire(board, reg.clk) <= host.clock

\* mmc->actual_clock, which sdhci_calc_clk reports, is the clock on the wire,
\* whatever resets and calls came before.
Reported ==
  (reg.clk.on /\ ~InGap(board, host.clock))
     => host.actual_clock = Wire(board, reg.clk)

\* What the driver remembers of a register between calls is in the register,
\* although Reset-all clears the registers behind its back: the power level
\* (else set_power would skip a write), preset enable, the clock; and the
\* power, the switch and the pads of the slot of cv181x change together.
InStep ==
  Idle =>
    /\ reg.power = host.pwr
    /\ reg.preset_en = host.preset_enabled
    /\ reg.clk.on => host.clock # 0
    /\ board.ops = "sd" =>
         /\ (reg.power # "off") <=> (reg.pads = "sdio")
         /\ (reg.pads = "gpio") <=> (reg.switch = "discharge")

\* However tuning ends, the interrupts of the host are enabled again and the
\* controller is out of its tuning procedure (sdhci_execute_tuning).
Restored ==
  Idle => reg.enable = "ier" /\ reg.signal = "ier" /\ ~reg.exec

\* The tap set at the end of tuning is the middle of the widest window of good
\* taps, or none (cv181x), whatever the tests of the taps gave.
Median ==
  pc = "last" =>
    host.final_tap = MedianOfWidest(tune.bad) % (2 * MaxPhCode)

\* As long as the mode that was tuned is in use, the PHY has the tap found,
\* through every reset that follows a failed request and, where set_power does
\* not restore the PHY, every call of set_ios.  Where it does, on the SD slot,
\* the tap is lost with the call (tuned), and only resets are spoken of.
TapKept ==
  (Idle /\ tuned # NoTap /\ reg.uhs = "SDR104") => reg.phy = TapPhy(tuned)

\* The bus speed mode changes only while the card has no clock
\* (sdhci_set_ios), except by a reset, which stops the clock.
Glitchless ==
  [][reg'.uhs # reg.uhs
       => ~reg'.clk.on /\ (~reg.clk.on \/ pc = "reset")]_vars

\* A tuning that succeeds leaves a tap that is the middle of the widest window
\* of good taps (sdhci-cv181x.c:293).
TunedInWindow ==
  [][(tuned' # NoTap /\ tuned = NoTap)
       => tuned' = MedianOfWidest(tune.bad)]_vars

\* Every set_ios and every tuning returns, whether or not the clock gets
\* stable and the card answers.
Returns == pc # "idle" ~> Idle

=============================================================================
