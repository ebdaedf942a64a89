---------------------------- MODULE SdhciTimeout ----------------------------
(***************************************************************************)
(* How long a command may use the data line: the timeout the command asks  *)
(* for, the count that sdhci.c programs for it, the timeout that is left   *)
(* to the software timer, and the time that this timer is set to.          *)
(*                                                                         *)
(* Times are in microseconds, and clocks are whole kHz.  The unsigned ints *)
(* of C do not overflow for the commands used here.                        *)
(***************************************************************************)
EXTENDS Integers

MaxCount == 14                             \* 0xE, the longest timeout
CmdTransferTime == 10000                   \* MMC_CMD_TRANSFER_TIME

DivUp(a, b) == (a + b - 1) \div b

\* sdhci_target_timeout, with data in ns and clock cycles, else busy in ms
TargetTimeout(cmd, clock) ==
  IF cmd.kind # "data" THEN cmd.busy_timeout * 1000
  ELSE DivUp(cmd.timeout_ns, 1000)
         + (IF clock # 0 THEN DivUp(1000 * cmd.timeout_clks, clock \div 1000) ELSE 0)

\* What the controller waits for a count: 2^13 cycles of timeout_clk (kHz),
\* doubled for each step.
Period(timeout_clk, count) == ((8192 * 1000) \div timeout_clk) * 2 ^ count

\* Mutant: the reserved count is used as well.
CalcTimeoutReserved(b, cmd) ==
  LET target == TargetTimeout(cmd, b.clock)
      counts == {c \in 0 .. MaxCount + 1 : Period(b.timeout_clk, c) >= target}
  IN  IF (cmd.kind # "data" /\ cmd.busy_timeout = 0) \/ counts = {}
        THEN [count |-> MaxCount, too_big |-> TRUE]
        ELSE [count |-> CHOOSE c \in counts : \A d \in counts : c <= d,
              too_big |-> FALSE]

\* sdhci_calc_timeout: the least count that is long enough.  Without a timeout
\* the longest one is taken.
CalcTimeout(b, cmd) ==
  LET target == TargetTimeout(cmd, b.clock)
      counts == {c \in 0 .. MaxCount : Period(b.timeout_clk, c) >= target}
  IN  IF (cmd.kind # "data" /\ cmd.busy_timeout = 0) \/ counts = {}
        THEN [count |-> MaxCount, too_big |-> TRUE]
        ELSE [count |-> CHOOSE c \in counts : \A d \in counts : c <= d,
              too_big |-> FALSE]

\* sdhci_calc_sw_timeout.  mmc->ios is never written in this port, so that
\* the transfer is reckoned with a bus of one bit.
SwTimeout(b, cmd) ==
  LET target == TargetTimeout(cmd, b.clock)
      transfer == 2 * ((cmd.blksz * 8 * 1000) \div (b.clock \div 1000))
      total == IF cmd.kind = "data" THEN cmd.blocks * target + transfer
                                    ELSE target
  IN  IF total = 0 THEN 0 ELSE total + CmdTransferTime

\* A stub of the port.
NsecsToJiffies(n) == 0

Second == 1000000

\* sdhci_send_command: when the software timer is due, from now on, if the
\* software timeout is sw.  Ticks are finer than what is told apart here.
TimerOf(sw, cmd) ==
  IF sw # 0 THEN NsecsToJiffies(sw)
  ELSE IF cmd.kind = "busy" /\ cmd.busy_timeout > 9000
    THEN (DivUp(cmd.busy_timeout, 1000) + 1) * Second
  ELSE 10 * Second

=============================================================================
