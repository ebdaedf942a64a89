------------------------- MODULE SdhciTransfer_proofs -------------------------
(***************************************************************************)
(* Proofs about SdhciTransfer, for any hosts, requests and buffers that    *)
(* TransferAssumption allows.                                              *)
(***************************************************************************)
EXTENDS SdhciTransfer, WellFoundedInduction, FiniteSetTheorems,
        SequenceTheorems, TLAPS

HostType ==
  [req_use_dma: BOOLEAN, dma_irqs: BOOLEAN, pio_irqs: BOOLEAN,
   timeout_irq: BOOLEAN, data_timeout: Nat, timer: Nat, xfered: Nat,
   warn: BOOLEAN]
ModeType ==
  [multi: BOOLEAN, auto: {"none", "cmd12", "cmd23"}, read: BOOLEAN,
   dma: BOOLEAN]
RegType ==
  [select: {"adma", "sdma"}, sdma_addr: Nat, blksz: Nat, count: Nat,
   timeout: 0 .. MaxCount, mode: ModeType]
Pcs ==
  {"idle", "timeout", "prepare", "table", "select", "mode", "run", "boundary",
   "end", "pio", "looping"}

\* A request with data, and where SDMA begins.
DataCmd(c) == c \in Cmds /\ c.kind = "data"
Start == IF board.bounce = 0 THEN sgl[1].addr ELSE 0

Types ==
  /\ board \in Boards /\ cmd \in Cmds \cup {[kind |-> "other"]}
  /\ host \in HostType /\ reg \in RegType /\ pc \in Pcs

\* What a command has come to.
Placing == {"prepare", "table", "select"}
Early ==
  /\ pc \in Placing \cup {"run", "boundary", "end", "pio"} => DataCmd(cmd)
  /\ pc \in {"timeout", "mode"} => cmd \in Cmds
  /\ pc = "timeout" => cmd.kind # "other"
  /\ pc # "idle" /\ cmd.kind = "data" => sgl[1].addr \in Nat

\* What SelectDma leaves for SetMode, and SetMode for the controller.
Selected ==
  /\ host.dma_irqs = host.req_use_dma /\ host.pio_irqs = ~host.req_use_dma
  /\ (reg.select = "adma") <=> (host.req_use_dma /\ board.dma = "adma")
  /\ reg.blksz = cmd.blksz /\ reg.count = cmd.blocks
Agreeing ==
  /\ pc = "mode" /\ cmd.kind = "data" => Selected
  /\ Running => /\ Selected /\ host.req_use_dma /\ reg.mode.dma
                /\ reg.mode.auto = AutoCmd(board, cmd)
  /\ pc = "pio" => Selected /\ ~host.req_use_dma /\ ~reg.mode.dma

\* SDMA: the driver knows where the controller is.
Preparing == pc \in {"table", "select"} \/ (pc = "mode" /\ cmd.kind = "data")
Uses == host.req_use_dma => board.dma \in {"adma", "sdma"}
Counting ==
  /\ Preparing \/ pc \in {"timeout", "prepare"} => pos = 0
  /\ Preparing =>
       /\ Uses /\ host.xfered = 0
       /\ host.req_use_dma /\ board.dma = "sdma" => reg.sdma_addr = Start
  /\ pc = "run" /\ reg.select = "sdma" =>
       /\ pos \in 0 .. Total
       /\ host.xfered = pos /\ reg.sdma_addr = Start + pos
  /\ pc = "boundary" =>
       /\ pos \in 0 .. Total
       /\ pos < Total =>
            pos = host.xfered + BoundarySize
                    - ((Start + host.xfered) % BoundarySize)

Inv == Types /\ Early /\ Agreeing /\ Counting

-----------------------------------------------------------------------------
(* Numbers *)

LEMMA LeastExists ==
  ASSUME NEW S \in SUBSET Nat, S # {}
  PROVE  \E m \in S : \A y \in S : m <= y
<1> DEFINE below == {ss \in Nat \X Nat : ss[1] < ss[2]}
<1>1. IsWellFoundedOn(below, Nat)
  BY NatLessThanWellFounded DEF OpToRel
<1> HIDE DEF below
<1>2. PICK m \in S : \A y \in S : ~(<<y, m>> \in below)
  BY <1>1, WFMin
<1>3. \A y \in S : m <= y
  <2>1. SUFFICES ASSUME NEW y \in S, y < m PROVE FALSE
    OBVIOUS
  <2>2. <<y, m>> \in below
    BY <2>1 DEF below
  <2>3. QED
    BY <1>2, <2>2
<1>4. QED
  BY <1>3

\* The count that is programmed fits the register and is never reserved.
LEMMA CountInRange ==
  ASSUME NEW b, NEW c
  PROVE  /\ CalcTimeout(b, c).count \in 0 .. MaxCount
         /\ CalcTimeout(b, c).too_big \in BOOLEAN
<1> DEFINE counts == {n \in 0 .. MaxCount :
             Period(b.timeout_clk, n) >= TargetTimeout(c, b.clock)}
           none == (c.kind # "data" /\ c.busy_timeout = 0) \/ counts = {}
           least == CHOOSE n \in counts : \A m \in counts : n <= m
<1>1. CalcTimeout(b, c) =
        IF none THEN [count |-> MaxCount, too_big |-> TRUE]
                ELSE [count |-> least, too_big |-> FALSE]
  BY DEF CalcTimeout
<1>2. counts \in SUBSET (0 .. MaxCount) /\ counts \in SUBSET Nat
  BY DEF MaxCount
<1>3. none \/ counts # {}
  OBVIOUS
<1> HIDE DEF counts
<1>4. counts # {} => least \in counts
  BY <1>2, LeastExists
<1> HIDE DEF none, least
<1>5. CASE none
  <2>1. CalcTimeout(b, c) = [count |-> MaxCount, too_big |-> TRUE]
    BY <1>1, <1>5
  <2>2. QED
    BY <2>1 DEF MaxCount
<1>6. CASE ~none
  <2>1. CalcTimeout(b, c) = [count |-> least, too_big |-> FALSE]
    BY <1>1, <1>6
  <2>2. least \in 0 .. MaxCount
    BY <1>2, <1>3, <1>4, <1>6
  <2>3. QED
    BY <2>1, <2>2
<1>7. QED
  BY <1>5, <1>6

LEMMA LengthPositive ==
  ASSUME NEW c \in Cmds, c.kind = "data"
  PROVE  Length(c) \in Nat \ {0}
<1>1. c.blksz \in Nat \ {0} /\ c.blocks \in Nat \ {0}
  BY TransferAssumption
<1>2. \A m, n \in Nat \ {0} : m * n \in Nat \ {0}
  OBVIOUS
<1>3. QED
  BY <1>1, <1>2 DEF Length

LEMMA DivUpNat ==
  ASSUME NEW m \in Nat, NEW n \in Nat \ {0}
  PROVE  DivUp(m, n) \in Nat
<1>1. m + n - 1 \in Nat
  OBVIOUS
<1>2. QED
  BY <1>1 DEF DivUp

LEMMA TargetNat ==
  ASSUME NEW b \in Boards, NEW c \in Cmds, c.kind # "other"
  PROVE  TargetTimeout(c, b.clock) \in Nat
<1>1. b.clock \in Nat /\ b.clock >= 1000 /\ b.clock \div 1000 \in Nat \ {0}
  BY TransferAssumption
<1>2. CASE c.kind = "data"
  <2>1. c.timeout_ns \in Nat /\ 1000 * c.timeout_clks \in Nat
    BY <1>2, TransferAssumption
  <2>2. /\ DivUp(c.timeout_ns, 1000) \in Nat
        /\ DivUp(1000 * c.timeout_clks, b.clock \div 1000) \in Nat
    BY <1>1, <2>1, DivUpNat
  <2>3. QED
    BY <1>2, <2>2 DEF TargetTimeout
<1>3. CASE c.kind = "busy"
  BY <1>3, TransferAssumption DEF TargetTimeout
<1>4. QED
  BY <1>2, <1>3, TransferAssumption

LEMMA PeriodNat ==
  ASSUME NEW b \in Boards
  PROVE  Period(b.timeout_clk, MaxCount) \in Nat
<1>1. b.timeout_clk \in Nat \ {0}
  BY TransferAssumption
<1>2. (8192 * 1000) \div b.timeout_clk \in Nat
  BY <1>1
<1>3. 2 ^ MaxCount \in Nat
  BY DEF MaxCount
<1>4. \A m, n \in Nat : m * n \in Nat
  OBVIOUS
<1>5. QED
  BY <1>2, <1>3, <1>4 DEF Period

LEMMA SwTimeoutNat ==
  ASSUME NEW b \in Boards, NEW c \in Cmds, c.kind # "other"
  PROVE  SwTimeout(b, c) \in Nat
<1> DEFINE target == TargetTimeout(c, b.clock)
           transfer == 2 * ((c.blksz * 8 * 1000) \div (b.clock \div 1000))
           total == IF c.kind = "data" THEN c.blocks * target + transfer
                                       ELSE target
<1>1. target \in Nat
  BY TargetNat
<1>2. c.kind = "data" => c.blocks * target \in Nat
  <2>1. \A m, n \in Nat : m * n \in Nat
    OBVIOUS
  <2>2. c.kind = "data" => c.blocks \in Nat
    BY TransferAssumption
  <2> HIDE DEF target
  <2>3. QED
    BY <1>1, <2>1, <2>2
<1>3. c.kind = "data" => transfer \in Nat
  <2>1. b.clock \div 1000 \in Nat \ {0}
    BY TransferAssumption
  <2>2. c.kind = "data" => c.blksz * 8 * 1000 \in Nat
    BY TransferAssumption
  <2>3. \A m \in Nat, n \in Nat \ {0} : m \div n \in Nat
    OBVIOUS
  <2>4. QED
    BY <2>1, <2>2, <2>3
<1>4. SwTimeout(b, c) = IF total = 0 THEN 0 ELSE total + CmdTransferTime
  BY DEF SwTimeout
<1> HIDE DEF target, transfer
<1>5. total \in Nat
  BY <1>1, <1>2, <1>3
<1> HIDE DEF total
<1>6. QED
  BY <1>4, <1>5 DEF CmdTransferTime

\* The software timer gives a command without a software timeout what it asks
\* for: always if the line is busy, and up to ten seconds for data.
LEMMA TimerLong ==
  ASSUME NEW c \in Cmds, NEW clock
  PROVE  /\ c.kind = "busy" => TimerOf(0, c) >= TargetTimeout(c, clock)
         /\ TimerOf(0, c) >= 10 * Second
<1>1. CASE c.kind = "busy"
  <2>1. c.busy_timeout \in Nat
    BY <1>1, TransferAssumption
  <2>2. TargetTimeout(c, clock) = c.busy_timeout * 1000
    BY <1>1 DEF TargetTimeout
  <2>3. TimerOf(0, c) = IF c.busy_timeout > 9000
          THEN (DivUp(c.busy_timeout, 1000) + 1) * Second ELSE 10 * Second
    BY <1>1 DEF TimerOf
  <2>4. /\ DivUp(c.busy_timeout, 1000) \in Nat
        /\ DivUp(c.busy_timeout, 1000) * 1000 >= c.busy_timeout
    BY <2>1, SMT DEF DivUp
  <2>5. QED
    BY <2>1, <2>2, <2>3, <2>4 DEF Second
<1>2. CASE c.kind # "busy"
  BY <1>2 DEF TimerOf, Second
<1>3. QED
  BY <1>1, <1>2

LEMMA TimerNat ==
  ASSUME NEW sw \in Nat, NEW c \in Cmds
  PROVE  TimerOf(sw, c) \in Nat
<1>1. CASE c.kind = "busy"
  <2>1. c.busy_timeout \in Nat
    BY <1>1, TransferAssumption
  <2>2. DivUp(c.busy_timeout, 1000) \in Nat
    BY <2>1, DivUpNat
  <2>3. QED
    BY <2>2 DEF TimerOf, NsecsToJiffies, Second
<1>2. CASE c.kind # "busy"
  BY <1>2 DEF TimerOf, NsecsToJiffies, Second
<1>3. QED
  BY <1>1, <1>2

\* A request with data has a first segment, somewhere.
LEMMA FirstSegment ==
  ASSUME NEW c \in Cmds, c.kind = "data", NEW heap \in Heaps
  PROVE  MapSg(SgInit(c), c, heap)[1].addr \in Nat
<1> DEFINE n == DivUp(Length(c), SegSize)
<1>1. Length(c) \in Nat \ {0}
  BY LengthPositive
<1>2. 1 \in 1 .. n
  BY <1>1 DEF DivUp, SegSize
<1>3. c.addr \in Nat /\ heap \in Nat
  BY TransferAssumption
<1>4. DOMAIN SgInit(c) = 1 .. n /\ SgInit(c)[1].addr = c.addr
  BY <1>2, <1>3 DEF SgInit, SegSize
<1>5. MapSg(SgInit(c), c, heap)[1] =
        IF c.dir = "read" /\ Misaligned(SgInit(c)[1])
          THEN [SgInit(c)[1] EXCEPT !.addr = heap + (1 - 1) * (SegSize + CacheLine)]
          ELSE SgInit(c)[1]
  BY <1>2, <1>4 DEF MapSg
<1>6. SgInit(c)[1] = [addr |-> c.addr, home |-> c.addr,
                      len |-> LesserOf(SegSize, Length(c))]
  BY <1>1, <1>2, <1>3 DEF SgInit, SegSize
<1>7. QED
  BY <1>3, <1>5, <1>6 DEF SegSize, CacheLine

-----------------------------------------------------------------------------
(* The invariant *)

LEMMA InitInv ==
  ASSUME Init
  PROVE  Inv
<1> USE DEF Init
<1>1. Types
  BY DEF Types, HostType, RegType, ModeType, Pcs, MaxCount
<1>2. Early /\ Agreeing
  BY DEF Early, Placing, Agreeing, Running
<1>3. Counting
  BY DEF Counting, Preparing
<1>4. QED
  BY <1>1, <1>2, <1>3 DEF Inv

\* _mmc_request leaves a request with a first segment.
LEMMA SubmitInv ==
  ASSUME Inv, Submit
  PROVE  Inv'
<1>1. PICK c \in Cmds, heap \in Heaps :
        /\ cmd' = c
        /\ sgl' = IF c.kind = "data" THEN MapSg(SgInit(c), c, heap) ELSE <<>>
  BY DEF Submit
<1>2. /\ pc' = IF c.kind = "other" THEN "mode" ELSE "timeout"
      /\ host' = [host EXCEPT !.data_timeout = 0]
      /\ pos' = 0 /\ UNCHANGED <<board, reg>>
  BY <1>1 DEF Submit
<1>3. Types'
  BY <1>1, <1>2 DEF Inv, Types, HostType, Pcs
<1>4. Early'
  BY <1>1, <1>2, FirstSegment DEF Early, Placing, DataCmd
<1>5. Agreeing' /\ Counting'
  BY <1>1, <1>2 DEF Agreeing, Counting, Preparing, Running
<1>6. QED
  BY <1>3, <1>4, <1>5 DEF Inv

LEMMA SetTimeoutInv ==
  ASSUME Inv, SetTimeout
  PROVE  Inv'
<1> USE DEF Inv
<1>1. cmd \in Cmds /\ cmd.kind # "other" /\ board \in Boards
  BY DEF SetTimeout, Early, Types
<1>2. /\ CalcTimeout(board, cmd).count \in 0 .. MaxCount
      /\ CalcTimeout(board, cmd).too_big \in BOOLEAN
      /\ SwTimeout(board, cmd) \in Nat
  BY <1>1, CountInRange, SwTimeoutNat
<1>3. cmd.kind = "data" => pc' = "prepare"
  BY DEF SetTimeout
<1>4. cmd.kind # "data" => pc' = "mode"
  BY DEF SetTimeout
<1>5. Types'
  <2>1. host \in HostType /\ reg \in RegType
    BY DEF Types
  <2>2. host' \in HostType
    BY <1>2, <2>1 DEF SetTimeout, HostType
  <2>3. reg' \in RegType
    <3>1. reg' = [reg EXCEPT !.timeout = CalcTimeout(board, cmd).count]
      BY DEF SetTimeout
    <3>2. QED
      BY <1>2, <2>1, <3>1 DEF RegType
  <2>4. pc' \in Pcs /\ UNCHANGED <<board, cmd>>
    BY <1>3, <1>4 DEF SetTimeout, Pcs
  <2>5. QED
    BY <2>2, <2>3, <2>4 DEF Types
<1>6. /\ pc = "timeout"
      /\ UNCHANGED <<board, cmd, sgl, pos>>
  BY DEF SetTimeout
<1>7. Early'
  BY <1>1, <1>3, <1>4, <1>6 DEF Early, Placing, DataCmd
<1>8. Agreeing'
  BY <1>3, <1>4, <1>6 DEF Agreeing, Running
<1>9. pc' = "prepare" => pos = 0
  BY <1>3, <1>4, <1>6 DEF Counting
<1>10. Counting'
  BY <1>3, <1>4, <1>6, <1>9 DEF Counting, Preparing
<1>11. QED
  BY <1>5, <1>7, <1>8, <1>10

LEMMA PrepareDataInv ==
  ASSUME Inv, PrepareData
  PROVE  Inv'
<1> USE DEF Inv
<1> DEFINE mapped == UseDma(board, sgl) /\ BounceFits(board, cmd)
<1>1. /\ DataCmd(cmd) /\ sgl[1].addr \in Nat /\ board \in Boards
      /\ pos = 0 /\ pc = "prepare" /\ host \in HostType /\ reg \in RegType
  <2>1. pc = "prepare"
    BY DEF PrepareData
  <2>2. DataCmd(cmd) /\ sgl[1].addr \in Nat
    BY <2>1 DEF Early, Placing, DataCmd
  <2>3. QED
    BY <2>1, <2>2 DEF Types, Counting
<1>2. mapped \in BOOLEAN /\ (mapped => board.dma \in {"adma", "sdma"})
  BY <1>1, TransferAssumption DEF UseDma
<1>3. /\ host'.req_use_dma = mapped /\ host'.xfered = 0
      /\ host' \in HostType
  BY <1>1, <1>2 DEF PrepareData, HostType
<1>4. /\ reg' \in RegType
      /\ mapped /\ board.dma = "sdma" => reg'.sdma_addr = Start
  BY <1>1 DEF PrepareData, RegType, Start
<1>5. pc' \in {"table", "select"} /\ UNCHANGED <<board, cmd, sgl, pos>>
  BY DEF PrepareData
<1> HIDE DEF mapped
<1>6. Types'
  BY <1>3, <1>4, <1>5 DEF Types, Pcs
<1>7. Early' /\ Agreeing'
  BY <1>1, <1>5 DEF Early, Placing, DataCmd, Agreeing, Running
<1>8. Counting'
  BY <1>1, <1>2, <1>3, <1>4, <1>5 DEF Counting, Preparing, Uses, Start
<1>9. QED
  BY <1>6, <1>7, <1>8

LEMMA BuildTableInv ==
  ASSUME Inv, BuildTable
  PROVE  Inv'
<1>1. /\ pc = "table" /\ pc' = "select"
      /\ UNCHANGED <<board, cmd, sgl, host, reg, pos>>
  BY DEF BuildTable
<1>2. QED
  BY <1>1
  DEF Inv, Types, Pcs, Early, Placing, DataCmd, Agreeing, Running, Counting,
      Preparing, Uses, Start

LEMMA SelectDmaInv ==
  ASSUME Inv, SelectDma
  PROVE  Inv'
<1> USE DEF Inv
<1>1. /\ DataCmd(cmd) /\ board \in Boards /\ pc = "select" /\ pc' = "mode"
      /\ host \in HostType /\ reg \in RegType
      /\ UNCHANGED <<board, cmd, sgl, pos>>
  BY DEF SelectDma, Early, Placing, Types
<1>2. cmd.blksz \in Nat /\ cmd.blocks \in Nat
  BY <1>1, TransferAssumption DEF DataCmd
<1>3. /\ host' = [host EXCEPT !.dma_irqs = host.req_use_dma,
                              !.pio_irqs = ~host.req_use_dma]
      /\ host' \in HostType
  BY <1>1 DEF SelectDma, TransferIrqs, HostType
<1>4. /\ reg' = [reg EXCEPT
                   !.select = IF host.req_use_dma /\ board.dma = "adma"
                                THEN "adma" ELSE "sdma",
                   !.blksz = cmd.blksz, !.count = cmd.blocks]
      /\ reg' \in RegType
  BY <1>1, <1>2 DEF SelectDma, RegType
<1>5. Types' /\ Early'
  BY <1>1, <1>3, <1>4 DEF Types, Pcs, Early, Placing, DataCmd
<1>6. Agreeing'
  BY <1>1, <1>3, <1>4 DEF Agreeing, Selected, Running, HostType, RegType
<1>7. Counting'
  BY <1>1, <1>3, <1>4
  DEF Counting, Preparing, Uses, Start, HostType, RegType
<1>8. QED
  BY <1>5, <1>6, <1>7

LEMMA SetModeInv ==
  ASSUME Inv, SetMode
  PROVE  Inv'
<1> USE DEF Inv
<1>1. /\ cmd \in Cmds /\ pc = "mode" /\ board \in Boards
      /\ host \in HostType /\ reg \in RegType
      /\ UNCHANGED <<board, cmd, sgl, pos>>
  BY DEF SetMode, Early, Types
<1>0. /\ host' \in HostType /\ host'.req_use_dma = host.req_use_dma
      /\ host'.dma_irqs = host.dma_irqs /\ host'.pio_irqs = host.pio_irqs
      /\ host'.xfered = host.xfered
  <2>0. host.data_timeout \in Nat
    BY <1>1 DEF HostType
  <2>1. TimerOf(host.data_timeout, cmd) \in Nat
    BY <1>1, <2>0, TimerNat
  <2>2. host' = [host EXCEPT !.timer = TimerOf(host.data_timeout, cmd)]
    BY DEF SetMode
  <2>3. QED
    BY <1>1, <2>1, <2>2 DEF HostType
<1>2. AutoCmd(board, cmd) \in {"none", "cmd12", "cmd23"}
  BY DEF AutoCmd
<1>3. CASE cmd.kind # "data"
  <2>1. /\ pc' = "idle"
        /\ reg' = [reg EXCEPT !.mode = [reg.mode EXCEPT !.auto = "none"]]
    BY <1>3 DEF SetMode
  <2>2. reg' \in RegType
    BY <1>1, <2>1 DEF RegType, ModeType
  <2>3. QED
    BY <1>0, <1>1, <1>3, <2>1, <2>2
    DEF Types, Pcs, Early, Placing, Agreeing, Running, Counting, Preparing
<1>4. CASE cmd.kind = "data"
  <2>1. /\ pc' = IF host.req_use_dma THEN "run" ELSE "pio"
        /\ reg' = [reg EXCEPT !.mode =
                     Mode(cmd, host.req_use_dma, AutoCmd(board, cmd))]
    BY <1>4 DEF SetMode
  <2>2. host.req_use_dma \in BOOLEAN
    BY <1>1 DEF HostType
  <2>3. Mode(cmd, host.req_use_dma, AutoCmd(board, cmd)) \in ModeType
    BY <1>2, <2>2 DEF Mode, ModeType, Many
  <2>4. /\ reg' \in RegType /\ reg'.select = reg.select
        /\ reg'.blksz = reg.blksz /\ reg'.count = reg.count
        /\ reg'.sdma_addr = reg.sdma_addr
        /\ reg'.mode.dma = host.req_use_dma
        /\ reg'.mode.auto = AutoCmd(board, cmd)
    BY <1>1, <2>1, <2>3 DEF RegType, Mode
  <2>5. Types' /\ Early'
    BY <1>0, <1>1, <1>4, <2>1, <2>4 DEF Types, Pcs, Early, Placing, DataCmd
  <2>6. Agreeing'
    BY <1>0, <1>1, <1>4, <2>1, <2>2, <2>4 DEF Agreeing, Selected, Running, AutoCmd
  <2>7. Total \in Nat /\ sgl[1].addr \in Nat
    BY <1>1, <1>4, LengthPositive DEF Total, Early
  <2>8. Start \in Nat
    BY <2>7 DEF Start
  <2>9. Counting'
    <3>1. /\ pos = 0 /\ host.xfered = 0 /\ Uses /\ Selected
          /\ host.req_use_dma /\ board.dma = "sdma" => reg.sdma_addr = Start
      BY <1>1, <1>4 DEF Counting, Preparing, Agreeing
    <3>2. Start' = Start /\ Total' = Total
      BY <1>1 DEF Start, Total
    <3>3. pc' = "run" /\ reg'.select = "sdma" =>
            host.req_use_dma /\ board.dma = "sdma"
      BY <1>1, <2>1, <2>4, <3>1 DEF Selected, Uses
    <3>4. QED
      BY <1>0, <1>1, <2>1, <2>4, <2>7, <2>8, <3>1, <3>2, <3>3
      DEF Counting, Preparing
  <2>10. QED
    BY <2>5, <2>6, <2>9
<1>5. QED
  BY <1>3, <1>4

LEMMA AdmaMovesInv ==
  ASSUME Inv, AdmaMoves
  PROVE  Inv'
<1>1. /\ pc = "run" /\ pc' \in {"run", "end"} /\ reg.select = "adma"
      /\ UNCHANGED <<board, cmd, sgl, host, reg>>
  BY DEF AdmaMoves
<1>2. QED
  BY <1>1
  DEF Inv, Types, Pcs, Early, Placing, DataCmd, Agreeing, Selected, Running,
      Counting, Preparing

LEMMA Modulo ==
  ASSUME NEW a \in Nat
  PROVE  a % BoundarySize \in 0 .. BoundarySize - 1
<1>1. \A m \in Nat \ {0} : a % m \in 0 .. m - 1
  OBVIOUS
<1>2. BoundarySize \in Nat \ {0}
  BY SMT DEF BoundarySize
<1>3. QED
  BY <1>1, <1>2

LEMMA SdmaMovesInv ==
  ASSUME Inv, SdmaMoves
  PROVE  Inv'
<1> DEFINE n == BoundarySize - (reg.sdma_addr % BoundarySize)
<1>1. /\ pc = "run" /\ pc' \in {"boundary", "end"} /\ reg.select = "sdma"
      /\ UNCHANGED <<board, cmd, sgl, host, reg>>
      /\ pos < Total /\ pos' = pos + LesserOf(n, Total - pos)
  BY DEF SdmaMoves, Move
<1>2. /\ pos \in 0 .. Total /\ host.xfered = pos
      /\ reg.sdma_addr = Start + pos /\ reg.sdma_addr \in Nat
  BY <1>1 DEF Inv, Counting, Types, RegType
<1>3. Total \in Nat
  BY <1>1, LengthPositive DEF Total, Inv, Early, DataCmd
<1>4. n \in Nat /\ n > 0
  <2>1. BoundarySize \in Nat
    BY SMT DEF BoundarySize
  <2>2. QED
    BY <1>2, <2>1, Modulo
<1>5. Types' /\ Early' /\ Agreeing'
  BY <1>1
  DEF Inv, Types, Pcs, Early, Placing, DataCmd, Agreeing, Selected, Running
<1>6. Counting'
  <2>1. Total' = Total /\ Start' = Start
    BY <1>1 DEF Total, Start
  <2>2. n = BoundarySize - ((Start + host.xfered) % BoundarySize)
    BY <1>2
  <2> HIDE DEF n
  <2>3. pos' \in 0 .. Total /\ (pos' < Total => pos' = pos + n)
    BY <1>1, <1>2, <1>3, <1>4 DEF LesserOf
  <2>4. BoundarySize \in Nat
    BY SMT DEF BoundarySize
  <2>5. (Start + host.xfered) % BoundarySize \in Nat
    BY <1>2, Modulo
  <2>6. pos' < Total => pos' = host.xfered + BoundarySize
                          - ((Start + host.xfered) % BoundarySize)
    BY <1>2, <2>2, <2>3, <2>4, <2>5
  <2>7. QED
    BY <1>1, <2>1, <2>3, <2>6 DEF Counting, Preparing
<1>7. QED
  BY <1>5, <1>6 DEF Inv

LEMMA DmaEndInv ==
  ASSUME Inv, DmaEnd
  PROVE  Inv'
<1> DEFINE at == Start + host.xfered
           now == at - (at % BoundarySize) + BoundarySize
<1>1. /\ pc = "boundary" /\ host \in HostType /\ reg \in RegType
      /\ host' = [host EXCEPT !.xfered = now - Start]
      /\ reg' = [reg EXCEPT !.sdma_addr = now]
      /\ pc' = IF pos = Total THEN "end" ELSE "run"
      /\ UNCHANGED <<board, cmd, sgl, pos>>
  BY DEF DmaEnd, Start, Inv, Types
<1>2. sgl[1].addr \in Nat /\ Total \in Nat
  BY <1>1, LengthPositive DEF Total, Inv, Early, DataCmd
<1>3. Start \in Nat /\ host.xfered \in Nat
  BY <1>1, <1>2 DEF Start, HostType
<1>4. BoundarySize \in Nat
  BY SMT DEF BoundarySize
<1>5. at \in Nat /\ at % BoundarySize \in 0 .. BoundarySize - 1
  BY <1>3, Modulo
<1>6. /\ now \in Nat /\ now - Start \in Nat
      /\ now - Start = host.xfered + BoundarySize - (at % BoundarySize)
      /\ Start + (now - Start) = now
  <2> DEFINE r == at % BoundarySize
  <2>1. r \in 0 .. BoundarySize - 1
    BY <1>5
  <2>2. now = at - r + BoundarySize
    OBVIOUS
  <2> HIDE DEF r, now
  <2>3. r \in Nat /\ r < BoundarySize
    BY <1>4, <2>1
  <2>4. /\ now \in Nat /\ now - Start \in Nat
        /\ now - Start = host.xfered + BoundarySize - r
        /\ Start + (now - Start) = now
    BY <1>3, <1>4, <2>2, <2>3
  <2>5. QED
    BY <2>4 DEF r
<1> HIDE DEF now
<1>7. Types'
  BY <1>1, <1>6 DEF Inv, Types, HostType, RegType, Pcs
<1>8. Early'
  BY <1>1 DEF Inv, Early, Placing, DataCmd
<1>9. Agreeing'
  BY <1>1 DEF Inv, Agreeing, Selected, Running, HostType, RegType
<1>10. Counting'
  <2>1. Total' = Total /\ Start' = Start
    BY <1>1 DEF Total, Start
  <2>2. host'.xfered = now - Start /\ reg'.sdma_addr = now
    BY <1>1 DEF HostType, RegType
  <2>3. /\ pos \in 0 .. Total
        /\ pos < Total =>
             pos = host.xfered + BoundarySize - (at % BoundarySize)
    BY <1>1 DEF Inv, Counting
  <2>4. pc' = "run" => pos < Total
    BY <1>1, <1>2, <2>3
  <2>5. pc' = "run" => host'.xfered = pos /\ reg'.sdma_addr = Start + pos
    BY <1>6, <2>2, <2>3, <2>4
  <2>6. QED
    BY <1>1, <2>1, <2>3, <2>5 DEF Counting, Preparing
<1>11. QED
  BY <1>7, <1>8, <1>9, <1>10 DEF Inv

\* Steps that end a command, or stay in the loop of PIO.
LEMMA EndInv ==
  ASSUME Inv, DataEnd \/ DataError \/ PioBlock
  PROVE  Inv'
<1>1. pc' \in {"idle", "looping"} /\ UNCHANGED <<board, cmd, sgl, reg>>
  BY DEF DataEnd, DataError, PioBlock
<1>2. DataEnd => Total \in Nat
  BY LengthPositive DEF DataEnd, Total, Inv, Early, DataCmd
<1>3. host' \in HostType
  BY <1>2 DEF DataEnd, DataError, PioBlock, Inv, Types, HostType
<1>4. Types'
  BY <1>1, <1>3 DEF Inv, Types, Pcs
<1>5. Early'
  <2>1. CASE pc' = "idle"
    BY <1>1, <2>1 DEF Early, Placing
  <2>2. CASE PioBlock
    BY <2>2 DEF PioBlock, Inv, Early, Placing
  <2>3. QED
    BY <2>1, <2>2 DEF DataEnd, DataError
<1>6. Agreeing' /\ Counting'
  BY <1>1 DEF Agreeing, Counting, Preparing, Running
<1>7. QED
  BY <1>4, <1>5, <1>6 DEF Inv

THEOREM Invariance == Spec => []Inv
<1>1. Init => Inv
  BY InitInv
<1>2. Inv /\ [Next]_vars => Inv'
  <2> SUFFICES ASSUME Inv, [Next]_vars
               PROVE  Inv'
    OBVIOUS
  <2>1. CASE Submit
    BY <2>1, SubmitInv
  <2>2. CASE SetTimeout
    BY <2>2, SetTimeoutInv
  <2>3. CASE PrepareData
    BY <2>3, PrepareDataInv
  <2>4. CASE BuildTable
    BY <2>4, BuildTableInv
  <2>5. CASE SelectDma
    BY <2>5, SelectDmaInv
  <2>6. CASE SetMode
    BY <2>6, SetModeInv
  <2>7. CASE DmaEnd
    BY <2>7, DmaEndInv
  <2>8. CASE DataEnd \/ DataError \/ PioBlock
    BY <2>8, EndInv
  <2>9. CASE AdmaMoves
    BY <2>9, AdmaMovesInv
  <2>10. CASE SdmaMoves
    BY <2>10, SdmaMovesInv
  <2>11. CASE UNCHANGED vars
    BY <2>11
    DEF vars, Inv, Types, Early, Placing, DataCmd, Agreeing, Selected,
        Running, Counting, Preparing, Uses, Start, Total
  <2>12. QED
    BY <2>1, <2>2, <2>3, <2>4, <2>5, <2>6, <2>7, <2>8, <2>9, <2>10, <2>11
    DEF Next, Driver, Controller
<1>3. QED
  BY <1>1, <1>2, PTL DEF Spec

-----------------------------------------------------------------------------
(* What follows *)

\* Whatever the commands before left in the registers, DMA select, the
\* transfer mode, the enabled interrupts and the block registers agree
\* (sdhci_config_dma, sdhci_set_transfer_irqs, sdhci_set_transfer_mode).
THEOREM TransferAgreed == Spec => []Agreed
<1>1. Inv => Agreed
  <2> SUFFICES ASSUME Inv, Running \/ pc = "pio"
               PROVE  /\ reg.mode.dma = Running
                      /\ host.dma_irqs = Running /\ host.pio_irqs = ~Running
                      /\ (reg.select = "adma") <=>
                           (Running /\ board.dma = "adma")
                      /\ reg.blksz * reg.count = Total
    BY DEF Agreed
  <2>1. reg.mode.dma \in BOOLEAN /\ host \in HostType
    BY DEF Inv, Types, RegType, ModeType
  <2>2. Selected /\ host.req_use_dma = Running /\ reg.mode.dma = Running
    BY <2>1 DEF Inv, Agreeing, Running, HostType
  <2>3. reg.blksz * reg.count = Total
    BY <2>2 DEF Selected, Total, Length
  <2>4. QED
    BY <2>2, <2>3 DEF Selected
<1>2. QED
  BY <1>1, Invariance, PTL

\* In the course of an SDMA transfer the driver's count of bytes is the
\* controller's, at whatever address the data begin (sdhci_data_irq).
THEOREM TransferCounted == Spec => []Counted
<1>1. Inv => Counted
  BY DEF Inv, Counting, Counted
<1>2. QED
  BY <1>1, Invariance, PTL

\* A transfer of many blocks that a command is to end is ended in one way, for
\* every choice of automatic commands (sdhci_auto_cmd_select,
\* __sdhci_finish_data).
THEOREM TransferEndedOnce == Spec => []EndedOnce
<1>1. Inv => EndedOnce
  <2> DEFINE ways == {w \in {"cmd23", "auto23", "cmd12", "auto12"} :
        CASE w = "cmd23" -> cmd.sbc /\ ~Auto23(board, cmd)
          [] w = "auto23" -> reg.mode.auto = "cmd23"
          [] w = "cmd12" -> SendsStop(board, cmd, FALSE)
          [] OTHER -> reg.mode.auto = "cmd12"}
  <2> SUFFICES ASSUME Inv, Running, Many(cmd), cmd.sbc \/ cmd.stop, ~cmd.sdio
               PROVE  Cardinality(ways) = 1
    BY DEF EndedOnce
  <2>1. /\ cmd.sbc \in BOOLEAN /\ cmd.stop \in BOOLEAN
        /\ board.auto12 \in BOOLEAN /\ board.auto23 \in BOOLEAN
    BY TransferAssumption DEF Inv, Types, Early, Running, DataCmd
  <2>2. reg.mode.auto = AutoCmd(board, cmd)
    BY DEF Inv, Agreeing
  <2>3. reg.mode.auto = IF ~cmd.sbc /\ board.auto12 THEN "cmd12"
                        ELSE IF cmd.sbc /\ board.auto23 THEN "cmd23"
                        ELSE "none"
    BY <2>2 DEF AutoCmd, Auto12, Auto23
  <2>4. CASE cmd.sbc /\ board.auto23
    <3>1. ways = {"auto23"}
      BY <2>1, <2>3, <2>4 DEF Auto12, Auto23, SendsStop
    <3>2. QED
      BY <3>1, FS_Singleton
  <2>5. CASE cmd.sbc /\ ~board.auto23
    <3>1. ways = {"cmd23"}
      BY <2>1, <2>3, <2>5 DEF Auto12, Auto23, SendsStop
    <3>2. QED
      BY <3>1, FS_Singleton
  <2>6. CASE ~cmd.sbc /\ board.auto12
    <3>1. ways = {"auto12"}
      BY <2>1, <2>3, <2>6 DEF Auto12, Auto23, SendsStop
    <3>2. QED
      BY <3>1, FS_Singleton
  <2>7. CASE ~cmd.sbc /\ ~board.auto12
    <3>1. ways = {"cmd12"}
      BY <2>1, <2>3, <2>7 DEF Auto12, Auto23, SendsStop
    <3>2. QED
      BY <3>1, FS_Singleton
  <2>8. QED
    BY <2>1, <2>4, <2>5, <2>6, <2>7
<1>2. QED
  BY <1>1, Invariance, PTL

-----------------------------------------------------------------------------
(* The timeout *)

\* The count of a timeout that the controller can count is long enough, and
\* the longest one is programmed only for what is longer or not said.
LEMMA CountLongEnough ==
  ASSUME NEW c \in Cmds, board \in Boards, c.kind # "other"
  PROVE  /\ CalcTimeout(board, c).too_big =>
              TooLong(c) /\ CalcTimeout(board, c).count = MaxCount
         /\ ~CalcTimeout(board, c).too_big =>
              Period(board.timeout_clk, CalcTimeout(board, c).count)
                >= TargetTimeout(c, board.clock)
<1> DEFINE target == TargetTimeout(c, board.clock)
           counts == {n \in 0 .. MaxCount :
                        Period(board.timeout_clk, n) >= target}
           none == (c.kind # "data" /\ c.busy_timeout = 0) \/ counts = {}
           least == CHOOSE n \in counts : \A m \in counts : n <= m
<1>1. CalcTimeout(board, c) =
        IF none THEN [count |-> MaxCount, too_big |-> TRUE]
                ELSE [count |-> least, too_big |-> FALSE]
  BY DEF CalcTimeout
<1>2. counts \in SUBSET Nat
  BY DEF MaxCount
<1>3. c.kind \in {"data", "busy"}
  BY TransferAssumption
<1>4. \A n \in counts : Period(board.timeout_clk, n) >= target
  OBVIOUS
<1>5. counts = {} => target > Period(board.timeout_clk, MaxCount)
  <2>1. MaxCount \in 0 .. MaxCount
    BY DEF MaxCount
  <2>2. target \in Nat
    BY TargetNat
  <2>3. Period(board.timeout_clk, MaxCount) \in Nat
    BY PeriodNat
  <2> HIDE DEF target
  <2>4. QED
    BY <2>1, <2>2, <2>3
<1> HIDE DEF counts
<1>6. counts # {} => least \in counts
  BY <1>2, LeastExists
<1> HIDE DEF least
<1>7. CASE none
  <2>1. TooLong(c)
    BY <1>3, <1>5, <1>7 DEF TooLong
  <2> HIDE DEF none
  <2>2. CalcTimeout(board, c) = [count |-> MaxCount, too_big |-> TRUE]
    BY <1>1, <1>7
  <2>3. QED
    BY <2>1, <2>2
<1>8. CASE ~none
  <2>1. Period(board.timeout_clk, least) >= target
    BY <1>4, <1>6, <1>8
  <2> HIDE DEF none
  <2>2. CalcTimeout(board, c) = [count |-> least, too_big |-> FALSE]
    BY <1>1, <1>8
  <2>3. QED
    BY <2>1, <2>2
<1>9. QED
  BY <1>7, <1>8

\* What watches the data line; it stays as SetTimeout leaves it.
Watch ==
  /\ \/ /\ host.timeout_irq
        /\ Period(board.timeout_clk, reg.timeout)
             >= TargetTimeout(cmd, board.clock)
     \/ /\ TooLong(cmd) /\ reg.timeout = MaxCount
        /\ host.timeout_irq \/ board.no_hw_timeout
  /\ host.data_timeout # 0 => TooLong(cmd) /\ board.no_hw_timeout

\* Commands that use the data line, once they are sent.
Issued == Running \/ pc = "pio" \/ (Idle /\ cmd.kind = "busy")
Watching ==
  /\ pc = "timeout" => host.data_timeout = 0
  /\ pc \in Placing \cup {"mode"} /\ cmd.kind # "other" => Watch
  /\ Issued => Watch /\ host.timer = TimerOf(host.data_timeout, cmd)

LEMMA SetTimeoutWatches ==
  ASSUME Inv, Watching, SetTimeout
  PROVE  Watch'
<1> DEFINE t == CalcTimeout(board, cmd)
           software == t.too_big /\ board.no_hw_timeout
<1>1. /\ cmd \in Cmds /\ board \in Boards /\ host \in HostType
      /\ reg \in RegType /\ cmd.kind # "other" /\ host.data_timeout = 0
  BY DEF Inv, SetTimeout, Early, Types, Watching
<1>2. /\ host' = [host EXCEPT
           !.timeout_irq = ~software,
           !.data_timeout = IF software THEN SwTimeout(board, cmd) ELSE @]
      /\ reg' = [reg EXCEPT !.timeout = t.count]
      /\ UNCHANGED <<board, cmd>>
  BY DEF SetTimeout
<1>3. /\ t.too_big => TooLong(cmd) /\ t.count = MaxCount
      /\ ~t.too_big => Period(board.timeout_clk, t.count)
                          >= TargetTimeout(cmd, board.clock)
  BY <1>1, CountLongEnough
<1> HIDE DEF t
<1>4. /\ host'.timeout_irq = ~software
      /\ host'.data_timeout = IF software THEN SwTimeout(board, cmd) ELSE 0
      /\ reg'.timeout = t.count
  BY <1>1, <1>2 DEF HostType, RegType
<1>5. TooLong(cmd)' = TooLong(cmd)
  BY <1>2 DEF TooLong
<1>6. QED
  BY <1>2, <1>3, <1>4, <1>5 DEF Watch

\* Steps that leave the timeouts alone.
LEMMA WatchStays ==
  ASSUME Watch, UNCHANGED <<board, cmd>>,
         host'.timeout_irq = host.timeout_irq,
         host'.data_timeout = host.data_timeout, reg'.timeout = reg.timeout
  PROVE  Watch'
<1>1. TooLong(cmd)' = TooLong(cmd)
  BY DEF TooLong
<1>2. QED
  BY <1>1 DEF Watch

\* Every other step of a command leaves what watches it alone.
LEMMA StillWatched ==
  ASSUME Inv, Watching, [Next]_vars, ~Submit, ~SetTimeout
  PROVE  Watching'
<1>1. host \in HostType /\ reg \in RegType
  BY DEF Inv, Types
<1>2. CASE PrepareData \/ BuildTable \/ SelectDma
  <2>1. /\ pc \in Placing /\ cmd.kind = "data" /\ UNCHANGED <<board, cmd>>
        /\ pc' \in {"table", "select", "mode"}
    BY <1>2 DEF PrepareData, BuildTable, SelectDma, Placing, Inv, Early, DataCmd
  <2>2. /\ host'.timeout_irq = host.timeout_irq
        /\ host'.data_timeout = host.data_timeout
        /\ reg'.timeout = reg.timeout
    BY <1>1, <1>2 DEF PrepareData, BuildTable, SelectDma, TransferIrqs, HostType,
      RegType
  <2>3. Watch'
    BY <2>1, <2>2, WatchStays DEF Watching
  <2>4. QED
    BY <2>1, <2>3 DEF Watching, Issued, Running, Idle
<1>3. CASE SetMode
  <2>1. /\ pc = "mode" /\ UNCHANGED <<board, cmd>>
        /\ pc' \in {"idle", "run", "pio"}
        /\ cmd.kind = "other" => pc' = "idle"
    BY <1>3 DEF SetMode
  <2>2. /\ host'.timeout_irq = host.timeout_irq
        /\ host'.data_timeout = host.data_timeout
        /\ host'.timer = TimerOf(host.data_timeout, cmd)
        /\ reg'.timeout = reg.timeout
    BY <1>1, <1>3 DEF SetMode, HostType, RegType
  <2>3. cmd.kind # "other" => Watch'
    BY <2>1, <2>2, WatchStays DEF Watching
  <2>4. QED
    BY <2>1, <2>2, <2>3 DEF Watching, Placing, Issued, Running, Idle
<1>4. CASE DmaEnd \/ AdmaMoves \/ SdmaMoves
  <2>1. /\ pc \in {"run", "boundary"} /\ pc' \in {"run", "boundary", "end"}
        /\ UNCHANGED <<board, cmd>>
    BY <1>4 DEF DmaEnd, AdmaMoves, SdmaMoves
  <2>2. /\ host'.timeout_irq = host.timeout_irq
        /\ host'.data_timeout = host.data_timeout /\ host'.timer = host.timer
        /\ reg'.timeout = reg.timeout
    BY <1>1, <1>4 DEF DmaEnd, AdmaMoves, SdmaMoves, HostType, RegType
  <2>3. Watch /\ host.timer = TimerOf(host.data_timeout, cmd)
    BY <2>1 DEF Watching, Issued, Running
  <2>4. Watch'
    BY <2>1, <2>2, <2>3, WatchStays
  <2>5. QED
    BY <2>1, <2>2, <2>3, <2>4 DEF Watching, Placing
<1>5. CASE DataEnd \/ DataError \/ PioBlock
  <2>1. DataCmd(cmd) /\ pc' \in {"idle", "looping"} /\ UNCHANGED cmd
    BY <1>5 DEF DataEnd, DataError, PioBlock, Inv, Early
  <2>2. QED
    BY <2>1 DEF Watching, Placing, Issued, Running, Idle, DataCmd
<1>6. CASE UNCHANGED vars
  <2>1. UNCHANGED <<board, cmd, host, reg, pc>>
    BY <1>6 DEF vars
  <2>2. Watch => Watch'
    BY <2>1, WatchStays
  <2>3. QED
    BY <2>1, <2>2 DEF Watching, Issued, Running, Idle
<1>7. QED
  BY <1>2, <1>3, <1>4, <1>5, <1>6 DEF Next, Driver, Controller

\* No command that uses the data line is given up before the time it asks for,
\* for any clocks, quirks and requests: the controller's timeout is enabled and
\* long enough, or the longest one, or left to the software timer on boards that
\* say so; and elsewhere the software timer is no shorter, for data up to ten
\* seconds (__sdhci_set_timeout, sdhci_calc_timeout, sdhci_send_command).
THEOREM TransferWatched == Spec => []Watched
<1>1. Init => Watching
  BY DEF Init, Watching, Placing, Issued, Running, Idle
<1>2. Inv /\ Watching /\ [Next]_vars => Watching'
  <2> SUFFICES ASSUME Inv, Watching, [Next]_vars PROVE Watching'
    OBVIOUS
  <2>1. CASE Submit
    <3>1. pc' = "timeout" \/ (pc' = "mode" /\ cmd'.kind = "other")
      BY <2>1 DEF Submit
    <3>2. host'.data_timeout = 0
      BY <2>1 DEF Submit, Inv, Types, HostType
    <3>3. QED
      BY <3>1, <3>2 DEF Watching, Placing, Issued, Running, Idle
  <2>2. CASE SetTimeout
    <3>1. pc' \in {"prepare", "mode"}
      BY <2>2 DEF SetTimeout
    <3>2. QED
      BY <2>2, <3>1, SetTimeoutWatches DEF Watching, Issued, Running, Idle
  <2>3. CASE ~Submit /\ ~SetTimeout
    BY <2>3, StillWatched
  <2>4. QED
    BY <2>1, <2>2, <2>3
<1>3. Inv /\ Watching => Watched
  <2> SUFFICES ASSUME Inv, Watching, Issued PROVE Watched
    BY DEF Watched, Issued
  <2>1. Watch /\ host.timer = TimerOf(host.data_timeout, cmd)
    BY DEF Watching
  <2>2. cmd \in Cmds /\ cmd.kind # "other"
    BY DEF Inv, Early, DataCmd, Types, Issued, Running
  <2>3. CASE host.data_timeout # 0
    BY <2>1, <2>3 DEF Watch, Watched
  <2>4. CASE host.data_timeout = 0
    <3>1. /\ cmd.kind = "busy" => host.timer >= TargetTimeout(cmd, board.clock)
          /\ host.timer >= 10 * Second
      BY <2>1, <2>2, <2>4, TimerLong
    <3>2. TargetTimeout(cmd, board.clock) \in Nat /\ host.timer \in Nat
      BY <2>2, TargetNat DEF Inv, Types, HostType
    <3>3. TargetTimeout(cmd, board.clock) <= 10 * Second
            => host.timer >= TargetTimeout(cmd, board.clock)
      BY <3>1, <3>2 DEF Second
    <3>4. QED
      BY <2>1, <2>4, <3>1, <3>3 DEF Watch, Watched
  <2>5. QED
    BY <2>3, <2>4
<1>4. QED
  BY <1>1, <1>2, <1>3, Invariance, PTL DEF Spec

-----------------------------------------------------------------------------
(* The descriptors of cv181x *)

\* What a descriptor tells the controller to move.
Bytes(d) == IF d.len = 0 THEN 65536 ELSE d.len
Within(d) == d.addr \div Sz128M = (d.addr + Bytes(d) - 1) \div Sz128M

LEMMA DescBytes ==
  ASSUME NEW addr \in Nat, NEW len \in Nat, 0 < len, len <= 65536
  PROVE  /\ Len(Desc(addr, len)) = 1
         /\ Desc(addr, len)[1].addr = addr
         /\ Bytes(Desc(addr, len)[1]) = len
<1>1. Desc(addr, len) =
        <<[kind |-> "tran", addr |-> addr, len |-> len % 65536]>>
  BY DEF Desc
<1>2. /\ len = 65536 => len % 65536 = 0
      /\ len < 65536 => len % 65536 = len
  OBVIOUS
<1>3. QED
  BY <1>1, <1>2 DEF Bytes

\* Where a stretch of memory crosses a boundary of 128 MB: both parts are
\* shorter than 64 KiB, and the second begins at the boundary.
LEMMA Crossing ==
  ASSUME NEW addr \in Nat, NEW len \in Nat, 0 < len, len <= 65536,
         NEW n, n = Sz128M - (addr % Sz128M),
         addr \div Sz128M # (addr + len - 1) \div Sz128M
  PROVE  /\ n \in 1 .. len - 1
         /\ addr \div Sz128M = (addr + n - 1) \div Sz128M
         /\ (addr + n) \div Sz128M = (addr + n + (len - n) - 1) \div Sz128M
<1> DEFINE m == Sz128M
           q == addr \div m
           r == addr % m
<1>1. m \in Nat /\ m > 65536
  BY DEF Sz128M
<1> HIDE DEF m
<1>2. q \in Nat /\ r \in 0 .. m - 1 /\ addr = m * q + r
  BY <1>1
<1>3. \A i \in Nat, j \in 0 .. m - 1 : (m * i + j) \div m = i
  BY <1>1
<1>4. n = m - r /\ (addr + len - 1) \div m # q
  BY DEF m
<1> HIDE DEF q, r
<1>5. r + len - 1 >= m
  <2>1. SUFFICES ASSUME r + len - 1 < m PROVE FALSE
    BY <1>1, <1>2
  <2>2. r + len - 1 \in 0 .. m - 1
    BY <1>1, <1>2, <2>1
  <2>3. m * q \in Nat
    BY <1>1, <1>2
  <2>4. addr + len - 1 = m * q + (r + len - 1)
    BY <1>1, <1>2, <2>3
  <2>5. QED
    BY <1>2, <1>3, <1>4, <2>2, <2>4
<1>6. n \in 1 .. len - 1
  BY <1>1, <1>2, <1>4, <1>5
<1>7. m * q \in Nat /\ m * (q + 1) = m * q + m
  BY <1>1, <1>2
<1>8. /\ addr + n - 1 = m * q + (m - 1)
      /\ addr + n = m * (q + 1) + 0
      /\ addr + n + (len - n) - 1 = m * (q + 1) + (len - n - 1)
  BY <1>1, <1>2, <1>4, <1>6, <1>7
<1>9. /\ 0 \in 0 .. m - 1 /\ m - 1 \in 0 .. m - 1
      /\ len - n - 1 \in 0 .. m - 1 /\ q + 1 \in Nat
  BY <1>1, <1>2, <1>6
<1>10. /\ (addr + n - 1) \div m = q
       /\ (addr + n) \div m = q + 1
       /\ (addr + n + (len - n) - 1) \div m = q + 1
  BY <1>2, <1>3, <1>8, <1>9
<1>11. QED
  BY <1>6, <1>10 DEF q, m

\* Wherever a segment lies, cvi_adma_write_desc gives one or two descriptors,
\* none of which leaves its 128 MB, and which move the segment, all of it and
\* nothing else.
THEOREM DescriptorsCover ==
  ASSUME NEW b, b.split, NEW addr \in Nat, NEW len \in Nat, 0 < len, len <= 65536
  PROVE  LET t == WriteDesc(b, addr, len)
         IN  /\ t[1].addr = addr /\ Within(t[1])
             /\ \/ Len(t) = 1 /\ Bytes(t[1]) = len
                \/ /\ Len(t) = 2 /\ t[2].addr = addr + Bytes(t[1])
                   /\ Bytes(t[1]) + Bytes(t[2]) = len /\ Within(t[2])
<1> DEFINE t == WriteDesc(b, addr, len)
           n == Sz128M - (addr % Sz128M)
<1>1. CASE addr \div Sz128M = (addr + len - 1) \div Sz128M
  <2>1. t = Desc(addr, len)
    BY <1>1 DEF WriteDesc
  <2> HIDE DEF t
  <2>2. Len(t) = 1 /\ t[1].addr = addr /\ Bytes(t[1]) = len
    BY <2>1, DescBytes
  <2>3. Within(t[1])
    BY <1>1, <2>2 DEF Within
  <2>4. QED
    BY <2>2, <2>3 DEF t
<1>2. CASE addr \div Sz128M # (addr + len - 1) \div Sz128M
  <2>1. /\ n \in 1 .. len - 1
        /\ addr \div Sz128M = (addr + n - 1) \div Sz128M
        /\ (addr + n) \div Sz128M = (addr + n + (len - n) - 1) \div Sz128M
    BY <1>2, Crossing
  <2>2. t = Desc(addr, n) \o Desc(addr + n, len - n)
    BY <1>2 DEF WriteDesc
  <2> HIDE DEF t, n
  <2>3. /\ n \in Nat /\ 0 < n /\ n <= 65536
        /\ len - n \in Nat /\ 0 < len - n /\ len - n <= 65536
        /\ addr + n \in Nat /\ n + (len - n) = len
    BY <2>1
  <2>4. /\ Len(Desc(addr, n)) = 1 /\ Len(Desc(addr + n, len - n)) = 1
        /\ Desc(addr, n)[1].addr = addr
        /\ Bytes(Desc(addr, n)[1]) = n
        /\ Desc(addr + n, len - n)[1].addr = addr + n
        /\ Bytes(Desc(addr + n, len - n)[1]) = len - n
    BY <2>3, DescBytes
  <2>5. /\ Len(t) = 2 /\ t[1] = Desc(addr, n)[1]
        /\ t[2] = Desc(addr + n, len - n)[1]
    BY <2>2 DEF Desc
  <2>6. Within(t[1]) /\ Within(t[2])
    BY <2>1, <2>4, <2>5 DEF Within
  <2>7. QED
    BY <2>3, <2>4, <2>5, <2>6 DEF t
<1>3. QED
  BY <1>1, <1>2

-----------------------------------------------------------------------------
(* Sequences of descriptors *)

LenType == {n \in Nat : n < SegSize}
DescType == [kind: {"tran", "end", "tran_end"}, addr: Nat, len: LenType]

\* Descriptors that move, one after the other, the bytes of a request from one
\* position to another; R has those that may stand at a position.
Offsets(R, u, from, to, off) ==
  /\ off \in [1 .. Len(u) + 1 -> Nat]
  /\ off[1] = from /\ off[Len(u) + 1] = to
  /\ \A k \in 1 .. Len(u) :
       off[k + 1] = off[k] + Bytes(u[k]) /\ <<u[k], off[k]>> \in R
  /\ \A k \in 1 .. Len(u) + 1 : off[k] <= to
Lays(R, u, from, to) ==
  u \in Seq(DescType) /\ \E off : Offsets(R, u, from, to, off)

LEMMA SegSizeIs == SegSize \in Nat /\ 4 < SegSize
BY SMT DEF SegSize

LEMMA MaxReqSizeIs == MaxReqSize \in Nat
BY SMT DEF MaxReqSize

LEMMA BytesPositive ==
  ASSUME NEW d \in DescType
  PROVE  Bytes(d) \in Nat /\ 0 < Bytes(d) /\ Bytes(d) <= SegSize
BY DEF Bytes, DescType, LenType, SegSize

LEMMA LaysNothing ==
  ASSUME NEW R, NEW from \in Nat
  PROVE  Lays(R, <<>>, from, from)
<1> DEFINE off == [k \in 1 .. 0 + 1 |-> from]
<1>1. Offsets(R, <<>>, from, from, off)
  BY DEF Offsets
<1> QED
  BY <1>1 DEF Lays

LEMMA LaysOne ==
  ASSUME NEW R, NEW d \in DescType, NEW from \in Nat, <<d, from>> \in R
  PROVE  Lays(R, <<d>>, from, from + Bytes(d))
<1> DEFINE to == from + Bytes(d)
           u == <<d>>
           off == [k \in 1 .. 2 |-> IF k = 1 THEN from ELSE to]
<1>1. to \in Nat
  BY BytesPositive
<1>2. Len(u) = 1 /\ u[1] = d /\ u \in Seq(DescType)
  OBVIOUS
<1> HIDE DEF to, u
<1>3. off \in [1 .. Len(u) + 1 -> Nat] /\ off[1] = from /\ off[Len(u) + 1] = to
  BY <1>1, <1>2
<1>4. \A k \in 1 .. Len(u) :
        off[k + 1] = off[k] + Bytes(u[k]) /\ <<u[k], off[k]>> \in R
  BY <1>2, <1>3 DEF to
<1>5. to >= from
  BY BytesPositive DEF to
<1>6. \A k \in 1 .. Len(u) + 1 : off[k] <= to
  BY <1>1, <1>2, <1>5
<1> HIDE DEF off
<1>7. Offsets(R, u, from, to, off)
  BY <1>3, <1>4, <1>6 DEF Offsets
<1> QED
  BY <1>2, <1>7 DEF Lays, to, u

LEMMA LaysBoth ==
  ASSUME NEW R, NEW u, NEW v, NEW from, NEW mid, NEW to,
         Lays(R, u, from, mid), Lays(R, v, mid, to)
  PROVE  Lays(R, u \o v, from, to) /\ Len(u \o v) = Len(u) + Len(v)
<1>1. PICK f : Offsets(R, u, from, mid, f)
  BY DEF Lays
<1>2. PICK g : Offsets(R, v, mid, to, g)
  BY DEF Lays
<1> DEFINE m == Len(u)
           n == Len(v)
           w == u \o v
           off == [k \in 1 .. m + n + 1 |->
                     IF k <= m THEN f[k] ELSE g[k - m]]
<1>3. u \in Seq(DescType) /\ v \in Seq(DescType) /\ m \in Nat /\ n \in Nat
  BY DEF Lays
<1>4. /\ w \in Seq(DescType) /\ Len(w) = m + n
      /\ \A k \in 1 .. m + n : w[k] = IF k <= m THEN u[k] ELSE v[k - m]
  BY <1>3
<1>5. /\ f \in [1 .. m + 1 -> Nat] /\ g \in [1 .. n + 1 -> Nat]
      /\ f[1] = from /\ f[m + 1] = mid /\ g[1] = mid /\ g[n + 1] = to
      /\ \A k \in 1 .. m : f[k + 1] = f[k] + Bytes(u[k]) /\ <<u[k], f[k]>> \in R
      /\ \A k \in 1 .. n : g[k + 1] = g[k] + Bytes(v[k]) /\ <<v[k], g[k]>> \in R
      /\ \A k \in 1 .. m + 1 : f[k] <= mid
      /\ \A k \in 1 .. n + 1 : g[k] <= to
  BY <1>1, <1>2 DEF Offsets
<1> HIDE DEF m, n, w
<1>6. off \in [1 .. m + n + 1 -> Nat]
  BY <1>3, <1>5
<1>7. off[1] = from /\ off[m + n + 1] = to
  BY <1>3, <1>5
<1>8. ASSUME NEW k \in 1 .. m + n
      PROVE  off[k + 1] = off[k] + Bytes(w[k]) /\ <<w[k], off[k]>> \in R
  <2>1. CASE k < m
    <3>1. off[k + 1] = f[k + 1] /\ off[k] = f[k] /\ w[k] = u[k]
      BY <1>3, <1>4, <2>1
    <3>2. k \in 1 .. m
      BY <1>3, <2>1
    <3> HIDE DEF off
    <3> QED
      BY <1>5, <3>1, <3>2
  <2>2. CASE k = m
    <3>1. off[k + 1] = g[1] /\ off[k] = f[k] /\ w[k] = u[k]
      BY <1>3, <1>4, <2>2
    <3>2. k \in 1 .. m /\ f[k + 1] = g[1]
      BY <1>3, <1>5, <2>2
    <3> HIDE DEF off
    <3> QED
      BY <1>5, <3>1, <3>2
  <2>3. CASE k > m
    <3>1. k - m \in 1 .. n /\ k + 1 - m = k - m + 1
      BY <1>3, <2>3
    <3>2. off[k + 1] = g[k - m + 1] /\ off[k] = g[k - m] /\ w[k] = v[k - m]
      BY <1>3, <1>4, <2>3, <3>1
    <3> HIDE DEF off
    <3> QED
      BY <1>5, <3>1, <3>2
  <2> QED
    BY <1>3, <2>1, <2>2, <2>3
<1>9. ASSUME NEW k \in 1 .. m + n + 1
      PROVE  off[k] <= to
  <2>1. mid \in Nat /\ to \in Nat /\ mid <= to
    BY <1>3, <1>5
  <2>2. CASE k <= m
    <3>1. k \in 1 .. m + 1 /\ off[k] = f[k]
      BY <1>3, <2>2
    <3> HIDE DEF off
    <3>2. f[k] \in Nat /\ f[k] <= mid
      BY <1>5, <3>1
    <3> QED
      BY <2>1, <3>1, <3>2
  <2>3. CASE k > m
    <3>1. k - m \in 1 .. n + 1 /\ off[k] = g[k - m]
      BY <1>3, <2>3
    <3> HIDE DEF off
    <3> QED
      BY <1>5, <3>1
  <2> QED
    BY <1>3, <2>2, <2>3
<1> HIDE DEF off
<1>10. Offsets(R, w, from, to, off)
  BY <1>4, <1>6, <1>7, <1>8, <1>9 DEF Offsets
<1> QED
  BY <1>4, <1>10 DEF Lays, w, m, n

\* The descriptor of sdhci_adma_write_desc, for a length that may be negative.
TranDesc(addr, len) == [kind |-> "tran", addr |-> addr, len |-> len % 65536]

LEMMA TranDescIs ==
  ASSUME NEW addr \in Nat, NEW len \in Int
  PROVE  /\ Desc(addr, len) = <<TranDesc(addr, len)>>
         /\ TranDesc(addr, len) \in DescType
         /\ TranDesc(addr, len).kind = "tran" /\ TranDesc(addr, len).addr = addr
         /\ 0 < len /\ len <= SegSize => Bytes(TranDesc(addr, len)) = len
<1>1. len % 65536 \in LenType
  BY DEF LenType, SegSize
<1>2. TranDesc(addr, len) \in DescType
  BY <1>1 DEF TranDesc, DescType
<1>3. 0 < len /\ len < SegSize => len % 65536 = len
  BY DEF SegSize
<1>4. len = 65536 => len % 65536 = 0
  OBVIOUS
<1>5. 0 < len /\ len <= SegSize => Bytes(TranDesc(addr, len)) = len
  BY <1>3, <1>4 DEF Bytes, TranDesc, SegSize
<1> QED
  BY <1>2, <1>5 DEF Desc, TranDesc

\* R has the descriptors of every part of a stretch of memory that the
\* controller can follow.
Admits(R, b, addr, len, from) ==
  \A d \in DescType, x \in 0 .. len - 1 :
    /\ d.kind = "tran" /\ d.addr = addr + x /\ d.addr % AdmaAlign = 0
    /\ x + Bytes(d) <= len /\ (b.split => Within(d))
    => <<d, from + x>> \in R

\* cvi_adma_write_desc and sdhci_adma_write_desc move a stretch of memory that
\* begins at an aligned address, in one or two descriptors.
LEMMA WriteDescLays ==
  ASSUME NEW R, NEW b, b.split \in BOOLEAN, NEW addr \in Nat,
         addr % AdmaAlign = 0,
         NEW len \in Nat, 0 < len, len <= SegSize, NEW from \in Nat,
         Admits(R, b, addr, len, from)
  PROVE  /\ Lays(R, WriteDesc(b, addr, len), from, from + len)
         /\ Len(WriteDesc(b, addr, len)) <= 2
<1> DEFINE n == Sz128M - (addr % Sz128M)
           cross == b.split /\ addr \div Sz128M # (addr + len - 1) \div Sz128M
<1>1. CASE ~cross
  <2> DEFINE d == TranDesc(addr, len)
  <2>1. WriteDesc(b, addr, len) = <<d>>
    BY <1>1, TranDescIs DEF WriteDesc
  <2>2. /\ d \in DescType /\ d.kind = "tran" /\ d.addr = addr /\ Bytes(d) = len
    BY TranDescIs
  <2> HIDE DEF d
  <2>3. b.split => Within(d)
    BY <1>1, <2>2 DEF Within
  <2>4. <<d, from + 0>> \in R
    <3>1. 0 \in 0 .. len - 1 /\ d.addr = addr + 0 /\ 0 + Bytes(d) <= len
      BY <2>2
    <3> QED
      BY <2>2, <2>3, <3>1 DEF Admits
  <2>5. Lays(R, <<d>>, from, from + len)
    <3>1. <<d, from>> \in R
      <4>1. from + 0 = from
        OBVIOUS
      <4> QED
        BY <2>4, <4>1
    <3>2. Lays(R, <<d>>, from, from + Bytes(d))
      BY <2>2, <3>1, LaysOne
    <3> QED
      BY <2>2, <3>2
  <2> QED
    BY <2>1, <2>5
<1>2. CASE cross
  <2>1. /\ n \in 1 .. len - 1
        /\ addr \div Sz128M = (addr + n - 1) \div Sz128M
        /\ (addr + n) \div Sz128M = (addr + n + (len - n) - 1) \div Sz128M
    <3>1. len <= 65536
      BY SMT DEF SegSize
    <3> QED
      BY <1>2, <3>1, Crossing
  <2>2. (addr + n) % AdmaAlign = 0
    <3>1. addr + n = Sz128M * (addr \div Sz128M + 1)
      BY DEF Sz128M
    <3>2. addr \div Sz128M + 1 \in Nat
      BY DEF Sz128M
    <3>3. \A q \in Nat : (134217728 * q) % 4 = 0
      OBVIOUS
    <3> QED
      BY <3>1, <3>2, <3>3 DEF Sz128M, AdmaAlign
  <2> DEFINE d == TranDesc(addr, n)
             e == TranDesc(addr + n, len - n)
  <2>3. WriteDesc(b, addr, len) = Desc(addr, n) \o Desc(addr + n, len - n)
    <3>1. ~(~b.split \/ len = 0
              \/ addr \div Sz128M = (addr + len - 1) \div Sz128M)
      BY <1>2
    <3> QED
      BY <3>1 DEF WriteDesc
  <2> HIDE DEF n
  <2>4. /\ n \in Nat /\ n \in Int /\ 0 < n /\ n <= SegSize /\ addr + n \in Nat
        /\ len - n \in Int /\ 0 < len - n /\ len - n <= SegSize
        /\ from + n \in Nat /\ from + n + (len - n) = from + len
    BY <2>1, SegSizeIs
  <2>5. /\ Desc(addr, n) = <<d>> /\ d \in DescType /\ d.kind = "tran"
        /\ d.addr = addr /\ Bytes(d) = n
    BY <2>4, TranDescIs
  <2>6. /\ Desc(addr + n, len - n) = <<e>> /\ e \in DescType /\ e.kind = "tran"
        /\ e.addr = addr + n /\ Bytes(e) = len - n
    BY <2>4, TranDescIs
  <2> HIDE DEF d, e
  <2>7. Within(d) /\ Within(e)
    BY <2>1, <2>5, <2>6 DEF Within
  <2>8. <<d, from + 0>> \in R
    <3>1. 0 \in 0 .. len - 1 /\ d.addr = addr + 0 /\ 0 + Bytes(d) <= len
      BY <2>4, <2>5
    <3> QED
      BY <2>5, <2>7, <3>1 DEF Admits
  <2>9. <<e, from + n>> \in R
    <3>1. n \in 0 .. len - 1 /\ n + Bytes(e) <= len
      BY <2>1, <2>4, <2>6
    <3> QED
      BY <2>2, <2>6, <2>7, <3>1 DEF Admits
  <2>10. Lays(R, <<d>>, from, from + n)
    <3>1. <<d, from>> \in R
      <4>1. from + 0 = from
        OBVIOUS
      <4> QED
        BY <2>8, <4>1
    <3>2. Lays(R, <<d>>, from, from + Bytes(d))
      BY <2>5, <3>1, LaysOne
    <3> QED
      BY <2>5, <3>2
  <2>11. Lays(R, <<e>>, from + n, from + len)
    <3>1. Lays(R, <<e>>, from + n, from + n + Bytes(e))
      BY <2>4, <2>6, <2>9, LaysOne
    <3> QED
      BY <2>4, <2>6, <3>1
  <2>12. Lays(R, <<d>> \o <<e>>, from, from + len) /\ Len(<<d>> \o <<e>>) = 1 + 1
    <3>1. Len(<<d>>) = 1 /\ Len(<<e>>) = 1
      OBVIOUS
    <3> QED
      BY <2>10, <2>11, <3>1, LaysBoth
  <2>13. WriteDesc(b, addr, len) = <<d>> \o <<e>>
    BY <2>3, <2>5, <2>6
  <2> DEFINE both == <<d>> \o <<e>>
  <2>14. Lays(R, both, from, from + len) /\ Len(both) <= 2
    BY <2>12
  <2> HIDE DEF both
  <2> QED
    BY <2>13, <2>14 DEF both
<1> QED
  BY <1>1, <1>2

AnyDesc == {d \in DescType : d.kind = "tran"} \X Nat

\* Whatever descriptors are written, they move something.
LEMMA WriteDescMoves ==
  ASSUME NEW b, NEW addr \in Nat, NEW len \in Int, NEW from \in Nat
  PROVE  \E to \in Nat :
           /\ to >= from
           /\ Lays(AnyDesc, WriteDesc(b, addr, len), from, to)
<1> DEFINE n == Sz128M - (addr % Sz128M)
           R == AnyDesc
           d1 == TranDesc(addr, len)
           d == TranDesc(addr, n)
           e == TranDesc(addr + n, len - n)
<1>1. n \in Nat /\ len - n \in Int /\ addr + n \in Nat
  BY DEF Sz128M
<1>2. WriteDesc(b, addr, len) \in {Desc(addr, len),
                                   Desc(addr, n) \o Desc(addr + n, len - n)}
  BY DEF WriteDesc
<1> HIDE DEF n
<1>3. /\ Desc(addr, len) = <<d1>> /\ d1 \in DescType /\ d1.kind = "tran"
      /\ Desc(addr, n) = <<d>> /\ d \in DescType /\ d.kind = "tran"
      /\ Desc(addr + n, len - n) = <<e>> /\ e \in DescType /\ e.kind = "tran"
  BY <1>1, TranDescIs
<1> HIDE DEF d1, d, e
<1>4. ASSUME NEW x \in DescType, x.kind = "tran", NEW p \in Nat
      PROVE  Lays(R, <<x>>, p, p + Bytes(x)) /\ Bytes(x) \in Nat
  <2>1. <<x, p>> \in R
    BY <1>4 DEF AnyDesc
  <2>2. Bytes(x) \in Nat
    BY BytesPositive
  <2> HIDE DEF R
  <2> QED
    BY <2>1, <2>2, LaysOne
<1>5. CASE WriteDesc(b, addr, len) = <<d1>>
  <2>1. from + Bytes(d1) \in Nat /\ from + Bytes(d1) >= from
    BY <1>3, <1>4
  <2> QED
    BY <1>3, <1>4, <1>5, <2>1
<1>6. CASE WriteDesc(b, addr, len) = <<d>> \o <<e>>
  <2> DEFINE mid == from + Bytes(d)
             to == mid + Bytes(e)
  <2>1. mid \in Nat /\ to \in Nat /\ to >= from
    BY <1>3, <1>4
  <2>2. Lays(R, <<d>>, from, mid)
    BY <1>3, <1>4
  <2> HIDE DEF mid
  <2>3. Lays(R, <<e>>, mid, to)
    BY <1>3, <1>4, <2>1
  <2> HIDE DEF to, R
  <2>4. Lays(R, <<d>> \o <<e>>, from, to)
    BY <2>2, <2>3, LaysBoth
  <2> QED
    BY <1>6, <2>1, <2>4 DEF R
<1> QED
  BY <1>2, <1>3, <1>5, <1>6

LEMMA HeadLenIs ==
  ASSUME NEW s, s.addr \in Nat
  PROVE  /\ HeadLen(s) \in Nat /\ HeadLen(s) < 4
         /\ (s.addr + HeadLen(s)) % AdmaAlign = 0
<1> DEFINE a == s.addr
           h == (4 - (a % 4)) % 4
<1>1. HeadLen(s) = h
  BY DEF HeadLen, AdmaAlign
<1>2. a \in Nat
  OBVIOUS
<1> HIDE DEF a
<1>3. h \in Nat /\ h < 4 /\ (a + h) % 4 = 0
  BY <1>2
<1> QED
  BY <1>1, <1>3 DEF a, AdmaAlign

\* One turn of the loop of sdhci_adma_table_pre: the head of a segment by way
\* of its slot, the rest from where it is.
LEMMA DescsLay ==
  ASSUME NEW R, NEW b, b.split \in BOOLEAN, NEW s, s.addr \in Nat,
         s.len \in Nat, 0 < s.len, s.len <= SegSize, HeadLen(s) <= s.len,
         NEW slot \in Nat, slot % AdmaAlign = 0, NEW from \in Nat,
         Admits(R, b, slot, HeadLen(s), from),
         Admits(R, b, s.addr + HeadLen(s), s.len - HeadLen(s),
                from + HeadLen(s))
  PROVE  /\ Lays(R, Descs(b, s, slot), from, from + s.len)
         /\ Len(Descs(b, s, slot)) <= 4
<1> DEFINE h == HeadLen(s)
           u == IF h = 0 THEN <<>> ELSE WriteDesc(b, slot, h)
           v == IF s.len = h THEN <<>> ELSE WriteDesc(b, s.addr + h, s.len - h)
<1>1. /\ h \in Nat /\ h < 4 /\ (s.addr + h) % AdmaAlign = 0
      /\ from + h \in Nat /\ s.addr + h \in Nat
      /\ from + h + (s.len - h) = from + s.len
  BY HeadLenIs
<1>2. Lays(R, u, from, from + h) /\ Len(u) <= 2
  <2>1. CASE h = 0
    <3>1. u = <<>> /\ from + h = from /\ Len(u) = 0
      BY <2>1
    <3> QED
      BY <3>1, LaysNothing
  <2>2. CASE h # 0
    <3>1. 0 < h /\ h <= SegSize /\ u = WriteDesc(b, slot, h)
      BY <1>1, <2>2, SegSizeIs
    <3> QED
      BY <1>1, <3>1, WriteDescLays
  <2> QED
    BY <2>1, <2>2
<1>3. Lays(R, v, from + h, from + s.len) /\ Len(v) <= 2
  <2>1. CASE s.len = h
    <3>1. v = <<>> /\ from + h = from + s.len /\ Len(v) = 0
      BY <2>1
    <3> QED
      BY <1>1, <3>1, LaysNothing
  <2>2. CASE s.len # h
    <3> DEFINE rest == s.len - h
               at == s.addr + h
               mid == from + h
    <3>1. rest \in Nat /\ 0 < rest /\ rest <= SegSize
      BY <1>1, <2>2, SegSizeIs
    <3>2. at \in Nat /\ at % AdmaAlign = 0 /\ mid \in Nat
      BY <1>1
    <3>3. Admits(R, b, at, rest, mid)
      OBVIOUS
    <3>4. v = WriteDesc(b, at, rest) /\ mid + rest = from + s.len
      BY <1>1, <2>2
    <3> HIDE DEF rest, at, mid, h, v
    <3>5. Lays(R, WriteDesc(b, at, rest), mid, mid + rest)
          /\ Len(WriteDesc(b, at, rest)) <= 2
      BY <3>1, <3>2, <3>3, WriteDescLays
    <3> QED
      BY <3>4, <3>5 DEF mid
  <2> QED
    BY <2>1, <2>2
<1>4. Descs(b, s, slot) = u \o v
  BY DEF Descs
<1>5. Len(u) \in Nat /\ Len(v) \in Nat
  BY <1>2, <1>3 DEF Lays
<1> HIDE DEF u, v, h
<1>6. Lays(R, u \o v, from, from + s.len) /\ Len(u \o v) = Len(u) + Len(v)
  BY <1>2, <1>3, LaysBoth
<1> QED
  BY <1>2, <1>3, <1>4, <1>5, <1>6

Reaches(u, from, len) ==
  \E to \in Nat : to >= from + len /\ Lays(AnyDesc, u, from, to)

\* Even where a segment is shorter than its head, its descriptors move at
\* least as many bytes as it has.
LEMMA DescsReach ==
  ASSUME NEW b, b.split \in BOOLEAN, NEW s, s.addr \in Nat,
         s.len \in Nat, 0 < s.len, s.len <= SegSize,
         NEW slot \in Nat, slot % AdmaAlign = 0, NEW from \in Nat
  PROVE  Reaches(Descs(b, s, slot), from, s.len)
<1> USE DEF Reaches
<1> DEFINE h == HeadLen(s)
<1>1. h \in Nat /\ h < 4 /\ from + h \in Nat /\ s.addr + h \in Nat
  BY HeadLenIs
<1>2. \A addr \in Nat, len \in Int, p \in Nat : Admits(AnyDesc, b, addr, len, p)
  BY DEF Admits, AnyDesc
<1>3. CASE h <= s.len
  <2> DEFINE rest == s.len - h
             at == s.addr + h
             mid == from + h
  <2>1. rest \in Int /\ at \in Nat /\ mid \in Nat /\ from + s.len \in Nat
    BY <1>1
  <2>2. Admits(AnyDesc, b, slot, h, from) /\ Admits(AnyDesc, b, at, rest, mid)
    <3>1. h \in Int
      BY <1>1
    <3> HIDE DEF h, rest, at, mid
    <3> QED
      BY <1>2, <2>1, <3>1
  <2>3. Lays(AnyDesc, Descs(b, s, slot), from, from + s.len)
    BY <1>3, <2>2, DescsLay
  <2> QED
    BY <2>1, <2>3
<1>4. CASE ~(h <= s.len)
  <2> DEFINE u == WriteDesc(b, slot, h)
             v == WriteDesc(b, s.addr + h, s.len - h)
  <2>1. /\ h # 0 /\ s.len # h /\ 0 < h /\ h <= SegSize /\ s.len - h \in Int
        /\ from + h >= from + s.len
    BY <1>1, <1>4, SegSizeIs
  <2>2. Descs(b, s, slot) = u \o v
    BY <2>1 DEF Descs
  <2>3. Lays(AnyDesc, u, from, from + h)
    <3>0. h \in Int
      BY <1>1
    <3> HIDE DEF h
    <3>1. Admits(AnyDesc, b, slot, h, from)
      BY <1>2, <3>0
    <3> QED
      BY <1>1, <2>1, <3>1, WriteDescLays
  <2>4. PICK to \in Nat : to >= from + h /\ Lays(AnyDesc, v, from + h, to)
    <3> DEFINE rest == s.len - h
               at == s.addr + h
               mid == from + h
    <3>1. rest \in Int /\ at \in Nat /\ mid \in Nat
      BY <1>1, <2>1
    <3> HIDE DEF h, rest, at, mid
    <3>2. \E to \in Nat : to >= mid /\ Lays(AnyDesc, WriteDesc(b, at, rest), mid, to)
      BY <3>1, WriteDescMoves
    <3> QED
      BY <3>2 DEF rest, at, mid
  <2> HIDE DEF u, v
  <2>5. Lays(AnyDesc, u \o v, from, to)
    BY <2>3, <2>4, LaysBoth
  <2>6. to >= from + s.len
    BY <1>1, <2>1, <2>4
  <2> QED
    BY <2>2, <2>5, <2>6
<1> QED
  BY <1>3, <1>4

-----------------------------------------------------------------------------
(* Where the data are *)

\* The segments of a request, one after the other for the caller, apart from
\* one another and from the align buffer for the controller.
Begin(i) == (i - 1) * SegSize
Segment(s, c, i, n) ==
  /\ s.home = c.addr + Begin(i) /\ s.addr \in Nat
  /\ s.len \in Nat /\ 0 < s.len /\ s.len <= SegSize
  /\ i < n => s.len = SegSize
  /\ i = n => Begin(n) + s.len = Length(c)
  /\ s.addr + s.len <= SlotBase \/ SlotBase + MaxSegs * AdmaAlign <= s.addr
Before(s, t) == s.addr + s.len <= t.addr \/ t.addr + t.len <= s.addr
Segmented(list, c) ==
  /\ Len(list) \in Nat /\ 0 < Len(list)
  /\ DOMAIN list = 1 .. Len(list)
  /\ \A i \in 1 .. Len(list) : Segment(list[i], c, i, Len(list))
  /\ \A i, j \in 1 .. Len(list) : i < j => Before(list[i], list[j])

\* As many segments as the length needs.
LEMMA SegmentCount ==
  ASSUME NEW m \in Nat \ {0}
  PROVE  /\ DivUp(m, SegSize) \in Nat /\ 0 < DivUp(m, SegSize)
         /\ Begin(DivUp(m, SegSize)) < m
         /\ m <= Begin(DivUp(m, SegSize)) + SegSize
         /\ m <= MaxReqSize => DivUp(m, SegSize) <= 8
<1> DEFINE n == (m + 65536 - 1) \div 65536
<1>1. /\ n \in Nat /\ 0 < n /\ (n - 1) * 65536 < m
      /\ m <= (n - 1) * 65536 + 65536
      /\ m <= 524288 => n <= 8
  OBVIOUS
<1>2. DivUp(m, SegSize) = n
  BY DEF DivUp, SegSize
<1> HIDE DEF n
<1> QED
  BY <1>1, <1>2, SMT DEF Begin, SegSize, MaxReqSize

\* _sg_init and __map_sg.
LEMMA MapSgSegments ==
  ASSUME NEW c \in Cmds, c.kind = "data", NEW heap \in Heaps
  PROVE  /\ Segmented(MapSg(SgInit(c), c, heap), c)
         /\ Len(MapSg(SgInit(c), c, heap)) = DivUp(Length(c), SegSize)
<1> DEFINE n == DivUp(Length(c), SegSize)
           plain(i) == [addr |-> c.addr + Begin(i), home |-> c.addr + Begin(i),
                        len |-> LesserOf(SegSize, Length(c) - Begin(i))]
           list == MapSg(SgInit(c), c, heap)
           spot(i) == heap + (i - 1) * (SegSize + CacheLine)
<1>1. Length(c) \in Nat \ {0} /\ c.addr \in Nat /\ heap \in Nat
  BY LengthPositive, TransferAssumption
<1>2. /\ n \in Nat /\ 0 < n /\ Begin(n) < Length(c)
      /\ Length(c) <= Begin(n) + SegSize
  BY <1>1, SegmentCount
<1>3. SgInit(c) = [i \in 1 .. n |-> plain(i)]
  BY DEF SgInit, Begin
<1>4. list = [i \in 1 .. n |->
                IF c.dir = "read" /\ Misaligned(plain(i))
                  THEN [plain(i) EXCEPT !.addr = spot(i)] ELSE plain(i)]
  BY <1>3 DEF MapSg
<1> HIDE DEF n
<1>5. DOMAIN list = 1 .. n /\ Len(list) = n
  BY <1>2, <1>4
<1>6. ASSUME NEW i \in 1 .. n
      PROVE  /\ list[i].home = c.addr + Begin(i)
             /\ list[i].len = LesserOf(SegSize, Length(c) - Begin(i))
             /\ \/ list[i].addr = c.addr + Begin(i)
                \/ c.dir = "read" /\ list[i].addr = spot(i)
  BY <1>4, <1>6
<1> HIDE DEF list
<1> DEFINE size == n * (SegSize + CacheLine)
           slotend == SlotBase + MaxSegs * AdmaAlign
<1>7. /\ c.addr + Length(c) <= SlotBase \/ slotend <= c.addr
      /\ heap + size <= SlotBase \/ slotend <= heap
      /\ c.dir = "read" =>
           c.addr + Length(c) <= heap \/ heap + size <= c.addr
  BY BufferAssumption DEF n
<1> HIDE DEF slotend
<1>8. slotend \in Int /\ SlotBase \in Int
  BY DEF slotend, SlotBase, MaxSegs, AdmaAlign
<1>9. ASSUME NEW i \in 1 .. n
      PROVE  /\ Begin(i) \in Nat /\ (i - 1) * (SegSize + CacheLine) \in Nat
             /\ i < n => Begin(i) + SegSize <= Begin(n)
             /\ (i - 1) * (SegSize + CacheLine) + SegSize <= size
  <2>1. /\ (i - 1) * 65536 \in Nat /\ (i - 1) * (65536 + 64) \in Nat
        /\ i < n => (i - 1) * 65536 + 65536 <= (n - 1) * 65536
        /\ (i - 1) * (65536 + 64) + 65536 <= n * (65536 + 64)
    BY <1>2
  <2> QED
    BY <2>1, SMT DEF Begin, SegSize, CacheLine
<1>10. ASSUME NEW i \in 1 .. n, NEW j \in 1 .. n, i < j
       PROVE  /\ Begin(i) + SegSize <= Begin(j)
              /\ (i - 1) * (SegSize + CacheLine) + SegSize
                   <= (j - 1) * (SegSize + CacheLine)
  <2>1. /\ (i - 1) * 65536 + 65536 <= (j - 1) * 65536
        /\ (i - 1) * (65536 + 64) + 65536 <= (j - 1) * (65536 + 64)
    BY <1>2, <1>10
  <2> QED
    BY <2>1, SMT DEF Begin, SegSize, CacheLine
<1>11. size \in Int
  <2>1. n \in Nat
    BY <1>2
  <2> QED
    BY <2>1, SMT DEF SegSize, CacheLine
<1> HIDE DEF size
<1>12. ASSUME NEW i \in 1 .. n
       PROVE  /\ list[i].len \in Nat /\ 0 < list[i].len
              /\ list[i].len <= SegSize
              /\ Begin(i) + list[i].len <= Length(c)
              /\ i < n => list[i].len = SegSize
              /\ i = n => Begin(n) + list[i].len = Length(c)
  <2>1. list[i].len = LesserOf(SegSize, Length(c) - Begin(i))
    BY <1>6
  <2>2. SegSize \in Nat /\ 0 < SegSize /\ Begin(n) \in Nat
    BY <1>2, <1>9, SegSizeIs
  <2>3. Begin(i) \in Nat /\ (i < n => Begin(i) + SegSize <= Begin(n))
    BY <1>9
  <2> QED
    BY <1>1, <1>2, <2>1, <2>2, <2>3 DEF LesserOf
<1>13. ASSUME NEW i \in 1 .. n
       PROVE  Segment(list[i], c, i, n)
  <2>1. list[i].addr \in Nat
    BY <1>1, <1>6, <1>9
  <2>2. list[i].addr + list[i].len <= SlotBase \/ slotend <= list[i].addr
    <3>1. CASE list[i].addr = c.addr + Begin(i)
      BY <1>1, <1>7, <1>8, <1>9, <1>12, <3>1
    <3>2. CASE list[i].addr = spot(i)
      <4> DEFINE o == (i - 1) * (SegSize + CacheLine)
      <4>1. o \in Nat /\ o + SegSize <= size /\ list[i].addr = heap + o
        BY <1>9, <3>2
      <4>2. size \in Int
        BY <1>11
      <4> HIDE DEF o
      <4> QED
        BY <1>1, <1>7, <1>8, <1>12, <4>1, <4>2, SegSizeIs
    <3> QED
      BY <1>6, <3>1, <3>2
  <2> QED
    BY <1>6, <1>12, <2>1, <2>2 DEF Segment, slotend
<1>14. ASSUME NEW i \in 1 .. n, NEW j \in 1 .. n, i < j
       PROVE  Before(list[i], list[j])
  <2> DEFINE o(k) == (k - 1) * (SegSize + CacheLine)
  <2>1. /\ o(i) \in Nat /\ o(j) \in Nat /\ o(i) + SegSize <= o(j)
        /\ o(i) + SegSize <= size /\ o(j) + SegSize <= size
        /\ Begin(i) \in Nat /\ Begin(j) \in Nat /\ Begin(i) + SegSize <= Begin(j)
    BY <1>9, <1>10, <1>14
  <2>2. /\ \/ list[i].addr = c.addr + Begin(i)
           \/ c.dir = "read" /\ list[i].addr = heap + o(i)
        /\ \/ list[j].addr = c.addr + Begin(j)
           \/ c.dir = "read" /\ list[j].addr = heap + o(j)
    BY <1>6
  <2>3. size \in Int
    BY <1>11
  <2>4. /\ list[i].len \in Nat /\ list[i].len <= SegSize
        /\ list[j].len \in Nat /\ list[j].len <= SegSize
        /\ Begin(i) + list[i].len <= Length(c)
        /\ Begin(j) + list[j].len <= Length(c)
    BY <1>12
  <2> HIDE DEF o
  <2>5. CASE list[i].addr = c.addr + Begin(i) /\ list[j].addr = c.addr + Begin(j)
    BY <1>1, <2>1, <2>4, <2>5, SegSizeIs DEF Before
  <2>6. CASE list[i].addr = heap + o(i) /\ list[j].addr = heap + o(j)
    BY <1>1, <2>1, <2>4, <2>6, SegSizeIs DEF Before
  <2>7. CASE /\ c.dir = "read" /\ list[i].addr = c.addr + Begin(i)
             /\ list[j].addr = heap + o(j)
    BY <1>1, <1>7, <2>1, <2>3, <2>4, <2>7, SegSizeIs DEF Before
  <2>8. CASE /\ c.dir = "read" /\ list[i].addr = heap + o(i)
             /\ list[j].addr = c.addr + Begin(j)
    BY <1>1, <1>7, <2>1, <2>3, <2>4, <2>8, SegSizeIs DEF Before
  <2> QED
    BY <2>2, <2>5, <2>6, <2>7, <2>8
<1> QED
  BY <1>2, <1>5, <1>13, <1>14 DEF Segmented, list, n
\* HomeOf, for any list and slots.
UnslotIn(sl, addr) ==
  IF addr \in Slots /\ (addr - SlotBase) \div AdmaAlign < Len(sl)
    THEN sl[(addr - SlotBase) \div AdmaAlign + 1]
           + ((addr - SlotBase) % AdmaAlign)
    ELSE addr
HomeIn(list, sl, addr) ==
  LET at == UnslotIn(sl, addr)
      within == {i \in DOMAIN list : InSegment(list[i], at)}
  IN  {list[i].home + (at - list[i].addr) : i \in within}

LEMMA HomeOfIs ==
  ASSUME NEW addr
  PROVE  HomeOf(addr) = HomeIn(sgl, slots, addr)
BY DEF HomeOf, Unslot, HomeIn, UnslotIn

\* An address within a segment stands for one byte of the caller.
LEMMA HomeInSegment ==
  ASSUME NEW list, NEW c, Segmented(list, c), c.addr \in Nat,
         NEW i \in 1 .. Len(list), NEW sl, NEW addr, NEW x \in Nat,
         x < list[i].len, UnslotIn(sl, addr) = list[i].addr + x
  PROVE  HomeIn(list, sl, addr) = {c.addr + (Begin(i) + x)}
<1> DEFINE at == UnslotIn(sl, addr)
           within == {k \in DOMAIN list : InSegment(list[k], at)}
<1>1. \A k \in 1 .. Len(list) : Segment(list[k], c, k, Len(list))
  BY DEF Segmented
<1>2. \A k \in 1 .. Len(list) :
        list[k].addr \in Nat /\ list[k].len \in Nat /\ list[k].home = c.addr + Begin(k)
  BY <1>1 DEF Segment
<1>3. Len(list) \in Nat /\ DOMAIN list = 1 .. Len(list)
  BY DEF Segmented
<1>4. InSegment(list[i], at)
  BY <1>2 DEF InSegment
<1>5. ASSUME NEW k \in 1 .. Len(list), InSegment(list[k], at)
      PROVE  k = i
  <2>1. k < i => Before(list[k], list[i])
    BY DEF Segmented
  <2>2. i < k => Before(list[i], list[k])
    BY DEF Segmented
  <2>3. ~Before(list[k], list[i]) /\ ~Before(list[i], list[k])
    BY <1>2, <1>4, <1>5 DEF InSegment, Before
  <2> QED
    BY <1>3, <2>1, <2>2, <2>3
<1>6. within = {i}
  BY <1>3, <1>4, <1>5
<1>7. HomeIn(list, sl, addr) = {list[k].home + (at - list[k].addr) : k \in within}
  BY DEF HomeIn
<1>8. HomeIn(list, sl, addr) = {list[i].home + (at - list[i].addr)}
  BY <1>6, <1>7
<1>9. at - list[i].addr = x /\ list[i].home = c.addr + Begin(i)
  BY <1>2
<1>10. Begin(i) \in Int
  BY <1>3, SegSizeIs DEF Begin
<1>11. (c.addr + Begin(i)) + x = c.addr + (Begin(i) + x)
  BY <1>10
<1> QED
  BY <1>8, <1>9, <1>11

-----------------------------------------------------------------------------
(* The slots of the align buffer *)

Heads(list) == {i \in DOMAIN list : HeadLen(list[i]) # 0}
Used(list, i) == Cardinality({j \in Heads(list) : j < i})
SlotsOf(list) ==
  [k \in 1 .. Cardinality(Heads(list)) |->
     list[CHOOSE i \in Heads(list) : Used(list, i) = k - 1].addr]

\* Each head has a slot of its own.
LEMMA SlotsApart ==
  ASSUME NEW list, NEW n \in Nat, DOMAIN list = 1 .. n
  PROVE  /\ Cardinality(Heads(list)) \in Nat /\ Cardinality(Heads(list)) <= n
         /\ \A i \in 1 .. n : Used(list, i) \in Nat /\ Used(list, i) <= n
         /\ \A i \in Heads(list) :
              /\ Used(list, i) < Cardinality(Heads(list))
              /\ SlotsOf(list)[Used(list, i) + 1] = list[i].addr
<1> DEFINE H == Heads(list)
           below(i) == {j \in H : j < i}
<1>1. H \subseteq 1 .. n
  BY DEF Heads
<1>2. IsFiniteSet(1 .. n) /\ Cardinality(1 .. n) = n
  BY FS_Interval
<1>3. IsFiniteSet(H) /\ Cardinality(H) <= n /\ Cardinality(H) \in Nat
  BY <1>1, <1>2, FS_Subset, FS_CardinalityType
<1> HIDE DEF H
<1>4. ASSUME NEW i \in 1 .. n
      PROVE  /\ IsFiniteSet(below(i)) /\ Cardinality(below(i)) <= Cardinality(H)
             /\ Cardinality(below(i)) \in Nat
  <2>1. below(i) \subseteq H
    OBVIOUS
  <2> QED
    BY <1>3, <2>1, FS_Subset, FS_CardinalityType
<1>5. ASSUME NEW i \in H
      PROVE  Cardinality(below(i)) < Cardinality(H)
  <2>1. below(i) \subseteq H /\ i \notin below(i) /\ i \in 1 .. n
    BY <1>1
  <2>2. below(i) # H
    BY <2>1
  <2>3. Cardinality(below(i)) # Cardinality(H)
    BY <1>3, <2>1, <2>2, FS_Subset
  <2> QED
    BY <1>3, <1>4, <2>1, <2>3
<1>6. ASSUME NEW i \in H, NEW j \in H, i < j
      PROVE  Cardinality(below(i)) # Cardinality(below(j))
  <2>1. i \in 1 .. n /\ j \in 1 .. n
    BY <1>1
  <2>2. below(i) \subseteq below(j)
    <3> SUFFICES ASSUME NEW k \in below(i) PROVE k \in below(j)
      OBVIOUS
    <3>1. k \in H /\ k \in 1 .. n /\ k < i
      BY <1>1
    <3>2. k < j
      BY <1>6, <2>1, <3>1
    <3> QED
      BY <3>1, <3>2
  <2>3. i \in below(j) /\ i \notin below(i)
    BY <1>6, <2>1
  <2>4. below(i) # below(j)
    BY <2>3
  <2> QED
    BY <1>4, <2>1, <2>2, <2>4, FS_Subset
<1>7. ASSUME NEW i \in H, NEW j \in H, Cardinality(below(i)) = Cardinality(below(j))
      PROVE  i = j
  <2>1. i \in Int /\ j \in Int
    BY <1>1
  <2>2. ~(i < j) /\ ~(j < i)
    BY <1>6, <1>7
  <2> QED
    BY <2>1, <2>2
<1>8. \A i : Used(list, i) = Cardinality(below(i))
  BY DEF Used, H
<1> HIDE DEF below
<1>9. ASSUME NEW i \in H
      PROVE  SlotsOf(list)[Used(list, i) + 1] = list[i].addr
  <2> DEFINE k == Used(list, i) + 1
  <2>1. i \in 1 .. n /\ k - 1 = Used(list, i) /\ k \in 1 .. Cardinality(H)
    BY <1>1, <1>3, <1>4, <1>5, <1>8
  <2> HIDE DEF k
  <2>2. \A j \in H : Used(list, j) = k - 1 => j = i
    BY <1>7, <1>8, <2>1
  <2>3. (CHOOSE j \in H : Used(list, j) = k - 1) = i
    BY <2>1, <2>2
  <2>4. SlotsOf(list)[k] = list[CHOOSE j \in H : Used(list, j) = k - 1].addr
    BY <2>1 DEF SlotsOf, H
  <2> QED
    BY <2>3, <2>4 DEF k
<1>10. \A i \in 1 .. n : Used(list, i) \in Nat /\ Used(list, i) <= n
  BY <1>3, <1>4, <1>8
<1> QED
  BY <1>3, <1>5, <1>8, <1>9, <1>10 DEF H

LEMMA SlotsLen ==
  ASSUME NEW list, NEW n \in Nat, DOMAIN list = 1 .. n
  PROVE  Len(SlotsOf(list)) = Cardinality(Heads(list))
<1>1. Cardinality(Heads(list)) \in Nat
  BY SlotsApart
<1> QED
  BY <1>1 DEF SlotsOf

LEMMA SlotAddrIs ==
  ASSUME NEW u \in Nat
  PROVE  SlotAddr(u) \in Nat /\ SlotAddr(u) % AdmaAlign = 0
<1>1. 1073741824 + u * 4 \in Nat /\ (1073741824 + u * 4) % 4 = 0
  OBVIOUS
<1> QED
  BY <1>1, SMT DEF SlotAddr, SlotBase, AdmaAlign

LEMMA SlotBaseNat == SlotBase \in Nat
BY SMT DEF SlotBase

\* The slot of a segment stands for its head ...
LEMMA SlotStands ==
  ASSUME NEW list, NEW c, Segmented(list, c), Len(list) <= 8,
         NEW i \in 1 .. Len(list), NEW y \in Nat, y < HeadLen(list[i])
  PROVE  UnslotIn(SlotsOf(list), SlotAddr(Used(list, i)) + y) = list[i].addr + y
<1> DEFINE u == Used(list, i)
           addr == SlotAddr(u) + y
           sl == SlotsOf(list)
<1>1. Len(list) \in Nat /\ DOMAIN list = 1 .. Len(list)
  BY DEF Segmented
<1>2. list[i].addr \in Nat
  BY DEF Segmented, Segment
<1>3. HeadLen(list[i]) \in Nat /\ HeadLen(list[i]) < 4
  BY <1>2, HeadLenIs
<1>4. i \in Heads(list) /\ y < 4
  BY <1>1, <1>3 DEF Heads
<1>5. /\ u \in Nat /\ u <= Len(list) /\ u < Len(sl)
      /\ sl[u + 1] = list[i].addr
  BY <1>1, <1>4, SlotsApart, SlotsLen
<1> HIDE DEF u, sl
<1>6. u <= 8
  BY <1>1, <1>5
<1>7. addr = SlotBase + (u * 4 + y)
  BY <1>5, SlotBaseNat DEF SlotAddr, AdmaAlign
<1>8. /\ addr \in Slots /\ addr - SlotBase = u * 4 + y
  BY <1>4, <1>5, <1>6, <1>7, SlotBaseNat DEF Slots, MaxSegs, AdmaAlign
<1>9. (u * 4 + y) \div 4 = u /\ (u * 4 + y) % 4 = y
  BY <1>4, <1>5
<1>10. (addr - SlotBase) \div AdmaAlign = u /\ (addr - SlotBase) % AdmaAlign = y
  BY <1>8, <1>9 DEF AdmaAlign
<1> HIDE DEF addr
<1>11. UnslotIn(sl, addr) = sl[u + 1] + y
  BY <1>5, <1>8, <1>10 DEF UnslotIn
<1> QED
  BY <1>5, <1>11 DEF addr, u, sl

\* ... and what lies in a segment for itself.
LEMMA SegmentStands ==
  ASSUME NEW list, NEW c, Segmented(list, c), NEW i \in 1 .. Len(list),
         NEW y \in Nat, y < list[i].len, NEW sl
  PROVE  UnslotIn(sl, list[i].addr + y) = list[i].addr + y
<1>1. /\ list[i].addr \in Nat /\ list[i].len \in Nat
      /\ \/ list[i].addr + list[i].len <= SlotBase
         \/ SlotBase + MaxSegs * AdmaAlign <= list[i].addr
  BY DEF Segmented, Segment
<1>2. list[i].addr + y \notin Slots
  BY <1>1, SlotBaseNat DEF Slots, MaxSegs, AdmaAlign
<1> QED
  BY <1>2 DEF UnslotIn

\* The descriptors that may stand at a position: the controller can follow
\* them, and their first and last bytes are those of the caller.
Stands(list, sl, c, addr, at) == HomeIn(list, sl, addr) = {c.addr + at}
Right(b, list, sl, c, d, at) ==
  /\ d.kind = "tran" /\ d.addr % AdmaAlign = 0 /\ (b.split => Within(d))
  /\ Stands(list, sl, c, d.addr, at)
  /\ Stands(list, sl, c, d.addr + Bytes(d) - 1, at + Bytes(d) - 1)
Rights(b, list, sl, c) ==
  {p \in DescType \X Nat : Right(b, list, sl, c, p[1], p[2])}

\* The len bytes at addr stand for those of segment s from its byte z on.
StandsFor(sl, addr, len, s, z) ==
  \A y \in 0 .. len - 1 : UnslotIn(sl, addr + y) = s.addr + (z + y)

\* A stretch of memory that stands for a part of a segment.
LEMMA StretchAdmits ==
  ASSUME NEW b, NEW list, NEW c, Segmented(list, c), c.addr \in Nat,
         NEW i \in 1 .. Len(list), NEW sl,
         NEW addr \in Nat, NEW len \in Nat, NEW z \in Nat, z + len <= list[i].len,
         StandsFor(sl, addr, len, list[i], z)
  PROVE  Admits(Rights(b, list, sl, c), b, addr, len, Begin(i) + z)
<1> SUFFICES ASSUME NEW d \in DescType, NEW x \in 0 .. len - 1,
                    d.kind = "tran", d.addr = addr + x, d.addr % AdmaAlign = 0,
                    x + Bytes(d) <= len, b.split => Within(d)
             PROVE  <<d, Begin(i) + z + x>> \in Rights(b, list, sl, c)
  BY DEF Admits
<1> DEFINE at == Begin(i) + z + x
           n == Bytes(d)
<1>1. n \in Nat /\ 0 < n
  BY BytesPositive
<1>2. Len(list) \in Nat
  BY DEF Segmented
<1>3. Begin(i) \in Nat
  <2>1. \A m \in Nat, k \in Nat : m * k \in Nat
    OBVIOUS
  <2>2. i - 1 \in Nat
    BY <1>2
  <2> QED
    BY <2>1, <2>2, SegSizeIs DEF Begin
<1>4. list[i].len \in Nat
  BY DEF Segmented, Segment
<1>5. x + n <= len /\ x \in Nat
  OBVIOUS
<1> HIDE DEF n
<1>6. ASSUME NEW y \in 0 .. len - 1
      PROVE  HomeIn(list, sl, addr + y) = {c.addr + (Begin(i) + (z + y))}
  <2> DEFINE p == addr + y
             q == z + y
  <2>1. q \in Nat /\ q < list[i].len
    <3> DEFINE all == list[i].len
    <3>1. all \in Nat /\ z + len <= all
      BY <1>4
    <3> HIDE DEF all
    <3>2. q \in Nat /\ q < all
      BY <3>1
    <3> QED
      BY <3>2 DEF all
  <2>2. UnslotIn(sl, p) = list[i].addr + q
    BY DEF StandsFor
  <2> HIDE DEF p, q
  <2>3. HomeIn(list, sl, p) = {c.addr + (Begin(i) + q)}
    BY <2>1, <2>2, HomeInSegment
  <2> QED
    BY <2>3 DEF p, q
<1>7. Stands(list, sl, c, d.addr, at)
  <2>1. Begin(i) + (z + x) = at
    BY <1>3
  <2> QED
    BY <1>6, <2>1 DEF Stands
<1>8. Stands(list, sl, c, d.addr + n - 1, at + n - 1)
  <2> DEFINE y == x + n - 1
  <2>1. y \in 0 .. len - 1
    BY <1>1, <1>5
  <2>2. Begin(i) + (z + y) = at + n - 1 /\ addr + y = d.addr + n - 1
    <3> DEFINE begin == Begin(i)
    <3>1. d.addr = addr + x /\ begin \in Int /\ n \in Int
      BY <1>1, <1>3
    <3> HIDE DEF begin
    <3>2. begin + (z + y) = begin + z + x + n - 1 /\ addr + y = addr + x + n - 1
      BY <1>5, <3>1
    <3> QED
      BY <3>1, <3>2 DEF begin
  <2> HIDE DEF y
  <2> QED
    BY <1>6, <2>1, <2>2 DEF Stands
<1>9. at \in Nat
  BY <1>3
<1>10. Right(b, list, sl, c, d, at)
  BY <1>7, <1>8 DEF Right, n
<1> HIDE DEF at
<1>11. <<d, at>> \in Rights(b, list, sl, c)
  BY <1>9, <1>10 DEF Rights
<1> QED
  BY <1>11 DEF at

-----------------------------------------------------------------------------
(* The table *)

NoneShort(list) == \A i \in DOMAIN list : ~(list[i].len < HeadLen(list[i]))
Part(b, list, i) == Descs(b, list[i], SlotAddr(Used(list, i)))
Longer(t, b, list, i) == t \o Part(b, list, i)
Upto(b, list) ==
  CHOOSE upto : upto = [i \in 0 .. Len(list) |->
    IF i = 0 THEN <<>> ELSE Longer(upto[i - 1], b, list, i)]

LEMMA BuildTableIs ==
  ASSUME BuildTable
  PROVE  /\ table' = Close(board, Upto(board, sgl)[Len(sgl)])
         /\ slots' = SlotsOf(sgl)
BY DEF BuildTable, Upto, Longer, Part, Used, Heads, SlotsOf

\* One turn of the loop lays the descriptors of one segment.
LEMMA PartLays ==
  ASSUME NEW b, b.split \in BOOLEAN, NEW list, NEW c, Segmented(list, c),
         c.addr \in Nat, Len(list) <= 8, NoneShort(list),
         NEW i \in 1 .. Len(list)
  PROVE  /\ Lays(Rights(b, list, SlotsOf(list), c), Part(b, list, i),
                 Begin(i), Begin(i) + list[i].len)
         /\ Len(Part(b, list, i)) <= 4
<1> DEFINE s == list[i]
           slot == SlotAddr(Used(list, i))
           h == HeadLen(s)
           rest == s.len - h
           at == s.addr + h
           sl == SlotsOf(list)
           R == Rights(b, list, sl, c)
           from == Begin(i)
<1>1. Len(list) \in Nat /\ DOMAIN list = 1 .. Len(list)
  BY DEF Segmented
<1>2. s.addr \in Nat /\ s.len \in Nat /\ 0 < s.len /\ s.len <= SegSize
  BY DEF Segmented, Segment
<1>3. /\ h \in Nat /\ h <= s.len /\ at \in Nat /\ rest \in Nat
      /\ h + rest = s.len
  <2>1. h \in Nat
    BY <1>2, HeadLenIs
  <2>2. ~(s.len < h)
    BY <1>1 DEF NoneShort
  <2> DEFINE a == s.addr
             n == s.len
  <2>3. a \in Nat /\ n \in Nat /\ ~(n < h)
    BY <1>2, <2>2
  <2> HIDE DEF a, n, h
  <2>4. h <= n /\ a + h \in Nat /\ n - h \in Nat /\ h + (n - h) = n
    BY <2>1, <2>3
  <2> QED
    BY <2>1, <2>4 DEF a, n
<1>4. slot \in Nat /\ slot % AdmaAlign = 0
  BY <1>1, SlotsApart, SlotAddrIs
<1>5. from \in Nat
  <2>1. \A m \in Nat, k \in Nat : m * k \in Nat
    OBVIOUS
  <2>2. i - 1 \in Nat
    BY <1>1
  <2> QED
    BY <2>1, <2>2, SegSizeIs DEF Begin
<1>6. StandsFor(sl, slot, h, s, 0)
  <2> SUFFICES ASSUME NEW y \in 0 .. h - 1
               PROVE  UnslotIn(sl, slot + y) = s.addr + (0 + y)
    BY DEF StandsFor
  <2>1. y \in Nat /\ y < HeadLen(list[i]) /\ 0 + y = y
    BY <1>3
  <2> QED
    BY <2>1, SlotStands
<1>7. StandsFor(sl, at, rest, s, h)
  <2> SUFFICES ASSUME NEW y \in 0 .. rest - 1
               PROVE  UnslotIn(sl, at + y) = s.addr + (h + y)
    BY DEF StandsFor
  <2> DEFINE z == h + y
  <2>1. z \in Nat /\ z < list[i].len /\ at + y = s.addr + z
    <3> DEFINE a == s.addr
               n == s.len
    <3>1. a \in Nat /\ n \in Nat /\ h \in Nat /\ h <= n /\ at = a + h
          /\ rest = n - h
      BY <1>2, <1>3
    <3> HIDE DEF a, n, h, at, rest
    <3>2. z \in Nat /\ z < n /\ at + y = a + z
      BY <3>1
    <3> QED
      BY <3>2 DEF a, n
  <2> HIDE DEF z
  <2>2. UnslotIn(sl, list[i].addr + z) = list[i].addr + z
    BY <2>1, SegmentStands
  <2> QED
    BY <2>1, <2>2 DEF z
<1> HIDE DEF h, rest, at, sl, slot
<1>8. Admits(R, b, slot, h, from + 0)
  <2>1. 0 \in Nat /\ 0 + h <= list[i].len
    BY <1>3
  <2> QED
    BY <1>3, <1>4, <1>6, <2>1, StretchAdmits
<1>9. Admits(R, b, slot, h, from)
  BY <1>5, <1>8
<1>10. Admits(R, b, at, rest, from + h)
  <2>1. h + rest <= list[i].len
    BY <1>3
  <2> QED
    BY <1>3, <1>7, <2>1, StretchAdmits
<1>11. /\ Admits(R, b, slot, HeadLen(s), from)
       /\ Admits(R, b, s.addr + HeadLen(s), s.len - HeadLen(s),
                 from + HeadLen(s))
       /\ HeadLen(s) <= s.len
  BY <1>3, <1>9, <1>10 DEF h, at, rest
<1> HIDE DEF R, from, s
<1>12. /\ Lays(R, Descs(b, s, slot), from, from + s.len)
       /\ Len(Descs(b, s, slot)) <= 4
  BY <1>2, <1>4, <1>5, <1>11, DescsLay
<1> QED
  BY <1>12 DEF Part, R, from, s, slot, sl

\* Induction over the numbers, as a statement about a set of them.
LEMMA Induction ==
  ASSUME NEW S, 0 \in S, \A n \in Nat : n \in S => n + 1 \in S
  PROVE  Nat \subseteq S
<1> DEFINE T == Nat \ S
<1>1. SUFFICES ASSUME T # {} PROVE FALSE
  OBVIOUS
<1>2. PICK m \in T : \A y \in T : m <= y
  BY <1>1, LeastExists
<1>3. m \in Nat /\ m # 0 /\ m - 1 \in Nat
  BY <1>2
<1>4. m - 1 \in S
  BY <1>2, <1>3
<1>5. (m - 1) + 1 \in S
  BY <1>3, <1>4
<1> QED
  BY <1>2, <1>3, <1>5

\* There is a function as BuildTable defines it.
LEMMA UptoIs ==
  ASSUME NEW b, NEW list, Len(list) \in Nat
  PROVE  /\ Upto(b, list)[0] = <<>>
         /\ \A i \in 1 .. Len(list) :
              Upto(b, list)[i] = Upto(b, list)[i - 1] \o Part(b, list, i)
<1> DEFINE Is(g, n) == g = [i \in 0 .. n |->
             IF i = 0 THEN <<>> ELSE Longer(g[i - 1], b, list, i)]
           S == {n \in Nat : \E g : Is(g, n)}
<1>1. 0 \in S
  <2> DEFINE g == [i \in 0 .. 0 |-> <<>>]
  <2>1. Is(g, 0)
    OBVIOUS
  <2> QED
    BY <2>1
<1>2. ASSUME NEW n \in Nat, n \in S
      PROVE  n + 1 \in S
  <2>1. PICK g : Is(g, n)
    BY <1>2
  <2> DEFINE h == [i \in 0 .. n + 1 |-> IF i \in 0 .. n THEN g[i]
                                        ELSE Longer(g[n], b, list, n + 1)]
  <2>2. ASSUME NEW i \in 0 .. n + 1
        PROVE  h[i] = IF i = 0 THEN <<>> ELSE Longer(h[i - 1], b, list, i)
    <3>1. CASE i = 0
      BY <2>1, <3>1
    <3>2. CASE i \in 1 .. n
      <4>1. h[i] = g[i] /\ h[i - 1] = g[i - 1]
        BY <3>2
      <4>2. g[i] = Longer(g[i - 1], b, list, i)
        BY <2>1, <3>2
      <4> QED
        BY <3>2, <4>1, <4>2
    <3>3. CASE i = n + 1
      <4>1. h[i] = Longer(g[n], b, list, i) /\ h[n] = g[n] /\ i - 1 = n
        BY <3>3
      <4> QED
        BY <3>3, <4>1
    <3> QED
      BY <3>1, <3>2, <3>3
  <2>3. Is(h, n + 1)
    BY <2>2
  <2> HIDE DEF h, Is
  <2> QED
    BY <2>3
<1> HIDE DEF S
<1>3. Len(list) \in S
  BY <1>1, <1>2, Induction
<1>4. \E g : Is(g, Len(list))
  BY <1>3 DEF S
<1>5. Is(Upto(b, list), Len(list))
  BY <1>4 DEF Upto
<1>6. /\ Upto(b, list)[0] = <<>>
      /\ \A i \in 1 .. Len(list) :
           Upto(b, list)[i] = Longer(Upto(b, list)[i - 1], b, list, i)
  <2> DEFINE g == Upto(b, list)
             n == Len(list)
  <2>1. n \in Nat /\ Is(g, n)
    BY <1>5
  <2> HIDE DEF g, n
  <2>2. /\ g[0] = <<>>
        /\ \A i \in 1 .. n : g[i] = Longer(g[i - 1], b, list, i)
    BY <2>1
  <2> QED
    BY <2>2 DEF g, n
<1> QED
  BY <1>6 DEF Longer

LEMMA BeginIs ==
  ASSUME NEW i \in Nat
  PROVE  Begin(i + 1) \in Nat /\ (i > 0 => Begin(i + 1) = Begin(i) + SegSize)
         /\ Begin(1) = 0
<1>1. /\ (i + 1 - 1) * 65536 \in Nat
      /\ i > 0 => (i + 1 - 1) * 65536 = (i - 1) * 65536 + 65536
      /\ (1 - 1) * 65536 = 0
  OBVIOUS
<1> QED
  BY <1>1, SMT DEF Begin, SegSize

\* sdhci_adma_table_pre: the table moves all of the data, each byte from or to
\* its place.
LEMMA TableLays ==
  ASSUME NEW b, b.split \in BOOLEAN, NEW list, NEW c, Segmented(list, c),
         c.addr \in Nat, Len(list) <= 8, NoneShort(list)
  PROVE  /\ Lays(Rights(b, list, SlotsOf(list), c), Upto(b, list)[Len(list)],
                 0, Length(c))
         /\ Len(Upto(b, list)[Len(list)]) <= 4 * Len(list)
<1> DEFINE R == Rights(b, list, SlotsOf(list), c)
           n == Len(list)
           u(i) == Upto(b, list)[i]
           Good(i, to) == Lays(R, u(i), 0, to) /\ Len(u(i)) <= 4 * i
           S == {i \in Nat : i < n => Good(i, Begin(i + 1))}
<1>1. n \in Nat /\ 0 < n /\ DOMAIN list = 1 .. n
  BY DEF Segmented
<1>2. \A i \in 1 .. n : Segment(list[i], c, i, n)
  BY DEF Segmented
<1>3. u(0) = <<>> /\ \A i \in 1 .. n : u(i) = u(i - 1) \o Part(b, list, i)
  BY <1>1, UptoIs
<1>4. \A i \in 1 .. n : /\ Lays(R, Part(b, list, i), Begin(i), Begin(i) + list[i].len)
                        /\ Len(Part(b, list, i)) <= 4
  BY PartLays
<1> HIDE DEF R, u, n
<1>5. 0 \in S
  <2>1. Begin(0 + 1) = 0
    BY BeginIs
  <2>2. Lays(R, <<>>, 0, 0) /\ Len(<<>>) = 0
    BY LaysNothing
  <2> QED
    BY <1>3, <2>1, <2>2
<1>6. ASSUME NEW i \in 1 .. n, Good(i - 1, Begin(i))
      PROVE  Good(i, Begin(i) + list[i].len)
  <2>1. Lays(R, u(i - 1), 0, Begin(i)) /\ Len(u(i - 1)) <= 4 * (i - 1)
    BY <1>6
  <2>2. /\ Lays(R, Part(b, list, i), Begin(i), Begin(i) + list[i].len)
        /\ Len(Part(b, list, i)) <= 4
    BY <1>4
  <2>3. u(i) = u(i - 1) \o Part(b, list, i)
    BY <1>3
  <2>4. Lays(R, u(i), 0, Begin(i) + list[i].len)
        /\ Len(u(i)) = Len(u(i - 1)) + Len(Part(b, list, i))
    BY <2>1, <2>2, <2>3, LaysBoth
  <2>5. Len(u(i - 1)) \in Nat /\ Len(Part(b, list, i)) \in Nat /\ i \in Nat
    BY <1>1, <2>1, <2>2 DEF Lays
  <2> QED
    BY <2>1, <2>2, <2>4, <2>5
<1>7. ASSUME NEW i \in Nat, i \in S
      PROVE  i + 1 \in S
  <2>1. SUFFICES ASSUME i + 1 < n
                 PROVE  Good(i + 1, Begin((i + 1) + 1))
    OBVIOUS
  <2> DEFINE j == i + 1
  <2>2. j \in 1 .. n /\ j - 1 = i /\ j < n /\ j \in Nat /\ j > 0
    BY <1>1, <2>1
  <2>3. Good(i, Begin(i + 1))
    BY <1>1, <1>7, <2>1
  <2> HIDE DEF Good
  <2>4. Good(j - 1, Begin(j))
    BY <2>2, <2>3
  <2> HIDE DEF j
  <2>5. Good(j, Begin(j) + list[j].len)
    BY <1>6, <2>2, <2>4
  <2>6. list[j].len = SegSize
    BY <1>2, <2>2 DEF Segment
  <2>7. Begin(j + 1) = Begin(j) + SegSize
    BY <2>2, BeginIs
  <2> QED
    BY <2>5, <2>6, <2>7 DEF j
<1> HIDE DEF S, Good
<1>8. n - 1 \in S
  BY <1>1, <1>5, <1>7, Induction
<1>9. Good(n - 1, Begin(n))
  <2>1. n - 1 < n /\ (n - 1) + 1 = n
    BY <1>1
  <2> QED
    BY <1>8, <2>1 DEF S
<1>10. n \in 1 .. n
  BY <1>1
<1>11. Good(n, Begin(n) + list[n].len)
  BY <1>6, <1>9, <1>10
<1>12. Begin(n) + list[n].len = Length(c)
  BY <1>2, <1>10 DEF Segment
<1> QED
  BY <1>11, <1>12 DEF Good, R, u, n

\* With a segment that is shorter than its head the table moves other bytes,
\* but no fewer.
LEMMA TableReaches ==
  ASSUME NEW b, b.split \in BOOLEAN, NEW list, NEW c, Segmented(list, c)
  PROVE  \E to \in Nat :
           to >= Length(c) /\ Lays(AnyDesc, Upto(b, list)[Len(list)], 0, to)
<1> DEFINE n == Len(list)
           u(i) == Upto(b, list)[i]
           Good(i, m) == \E to \in Nat : to >= m /\ Lays(AnyDesc, u(i), 0, to)
           S == {i \in Nat : i < n => Good(i, Begin(i + 1))}
<1>1. n \in Nat /\ 0 < n /\ DOMAIN list = 1 .. n
  BY DEF Segmented
<1>2. \A i \in 1 .. n : Segment(list[i], c, i, n)
  BY DEF Segmented
<1>3. u(0) = <<>> /\ \A i \in 1 .. n : u(i) = u(i - 1) \o Part(b, list, i)
  BY <1>1, UptoIs
<1>4. ASSUME NEW i \in 1 .. n, NEW from \in Nat
      PROVE  Reaches(Part(b, list, i), from, list[i].len)
  <2> DEFINE s == list[i]
             slot == SlotAddr(Used(list, i))
  <2>1. s.addr \in Nat /\ s.len \in Nat /\ 0 < s.len /\ s.len <= SegSize
    BY <1>2 DEF Segment
  <2>2. slot \in Nat /\ slot % AdmaAlign = 0
    BY <1>1, SlotsApart, SlotAddrIs
  <2> HIDE DEF s, slot
  <2>3. Reaches(Descs(b, s, slot), from, s.len)
    BY <2>1, <2>2, DescsReach
  <2> QED
    BY <2>3 DEF Part, s, slot
<1> HIDE DEF u, n
<1>5. 0 \in S
  <2>1. Begin(0 + 1) = 0 /\ 0 \in Nat
    BY BeginIs
  <2>2. Lays(AnyDesc, <<>>, 0, 0)
    BY LaysNothing
  <2> QED
    BY <1>3, <2>1, <2>2
<1>6. ASSUME NEW i \in 1 .. n, Good(i - 1, Begin(i)), Begin(i) \in Nat
      PROVE  Good(i, Begin(i) + list[i].len)
  <2>1. PICK mid \in Nat : mid >= Begin(i) /\ Lays(AnyDesc, u(i - 1), 0, mid)
    BY <1>6
  <2>2. PICK to \in Nat : /\ to >= mid + list[i].len
                          /\ Lays(AnyDesc, Part(b, list, i), mid, to)
    BY <1>4 DEF Reaches
  <2>3. Lays(AnyDesc, u(i), 0, to)
    <3>1. u(i) = u(i - 1) \o Part(b, list, i)
      BY <1>3
    <3>2. Lays(AnyDesc, u(i - 1) \o Part(b, list, i), 0, to)
      BY <2>1, <2>2, LaysBoth
    <3> QED
      BY <3>1, <3>2
  <2>4. list[i].len \in Nat
    BY <1>2 DEF Segment
  <2>5. to >= Begin(i) + list[i].len
    BY <1>6, <2>1, <2>2, <2>4
  <2> QED
    BY <2>3, <2>5
<1>7. ASSUME NEW i \in Nat, i \in S
      PROVE  i + 1 \in S
  <2>1. SUFFICES ASSUME i + 1 < n
                 PROVE  Good(i + 1, Begin((i + 1) + 1))
    OBVIOUS
  <2> DEFINE j == i + 1
  <2>2. j \in 1 .. n /\ j - 1 = i /\ j < n /\ j \in Nat /\ j > 0
    BY <1>1, <2>1
  <2>3. Good(i, Begin(i + 1))
    BY <1>1, <1>7, <2>1
  <2> HIDE DEF Good
  <2>4. Good(j - 1, Begin(j)) /\ Begin(j) \in Nat
    BY <2>2, <2>3, BeginIs
  <2> HIDE DEF j
  <2>5. Good(j, Begin(j) + list[j].len)
    BY <1>6, <2>2, <2>4
  <2>6. list[j].len = SegSize
    BY <1>2, <2>2 DEF Segment
  <2>7. Begin(j + 1) = Begin(j) + SegSize
    BY <2>2, BeginIs
  <2> QED
    BY <2>5, <2>6, <2>7 DEF j
<1> HIDE DEF S, Good
<1>8. n - 1 \in S
  BY <1>1, <1>5, <1>7, Induction
<1>9. Good(n - 1, Begin(n)) /\ Begin(n) \in Nat
  <2>1. n - 1 < n /\ (n - 1) + 1 = n /\ n - 1 \in Nat
    BY <1>1
  <2> QED
    BY <1>8, <2>1, BeginIs DEF S
<1>10. n \in 1 .. n
  BY <1>1
<1>11. Good(n, Begin(n) + list[n].len)
  BY <1>6, <1>9, <1>10
<1>12. Begin(n) + list[n].len = Length(c)
  BY <1>2, <1>10 DEF Segment
<1> QED
  BY <1>11, <1>12 DEF Good, u, n

\* What the end of the table adds to its descriptors.
Closed(t, u) ==
  /\ Len(t) \in Nat /\ Len(u) <= Len(t) /\ Len(t) <= Len(u) + 1
  /\ DOMAIN t = 1 .. Len(t)
  /\ \A k \in 1 .. Len(u) :
       t[k].addr = u[k].addr /\ t[k].len = u[k].len /\ t[k].kind # "end"
  /\ \A k \in 1 .. Len(t) : t[k].kind = "tran" <=> k < Len(t)
  /\ Len(u) < Len(t) => t[Len(t)].kind = "end"

LEMMA CloseIs ==
  ASSUME NEW b, b.end_in_last \in BOOLEAN, NEW u \in Seq(DescType),
         \A k \in 1 .. Len(u) : u[k].kind = "tran"
  PROVE  Closed(Close(b, u), u)
<1> DEFINE t == Close(b, u)
           n == Len(u)
           last == [u EXCEPT ![n].kind = "tran_end"]
<1>1. n \in Nat /\ DOMAIN u = 1 .. n /\ \A k \in 1 .. n : u[k] \in DescType
  OBVIOUS
<1>2. CASE ~b.end_in_last
  <2>1. t = u \o EndDesc
    BY <1>2 DEF Close
  <2>2. Len(EndDesc) = 1 /\ EndDesc[1].kind = "end" /\ EndDesc \in Seq(DescType)
    BY DEF EndDesc, DescType, LenType, SegSize
  <2>3. /\ Len(t) = n + 1 /\ DOMAIN t = 1 .. n + 1
        /\ \A k \in 1 .. n : t[k] = u[k]
        /\ t[n + 1] = EndDesc[1]
    <3> DEFINE e == EndDesc
    <3>1. e \in Seq(DescType) /\ Len(e) = 1
      BY <2>2
    <3> HIDE DEF e
    <3> DEFINE w == u \o e
    <3>2. /\ w \in Seq(DescType) /\ Len(w) = n + Len(e)
          /\ \A k \in 1 .. n + Len(e) :
               w[k] = IF k <= n THEN u[k] ELSE e[k - n]
      BY <3>1, ConcatProperties
    <3>3. w = t
      BY <2>1 DEF e
    <3> HIDE DEF w, t, n
    <3>4. DOMAIN w = 1 .. Len(w)
      BY <3>2
    <3>5. Len(w) = n + 1 /\ DOMAIN w = 1 .. n + 1
      BY <3>1, <3>2, <3>4
    <3>6. \A k \in 1 .. n : w[k] = u[k]
      BY <1>1, <3>1, <3>2
    <3> DEFINE m == n + 1
    <3>7. m - n = 1 /\ m \in 1 .. n + Len(e) /\ ~(m <= n)
      BY <1>1, <3>1
    <3> HIDE DEF m
    <3>8. w[m] = e[m - n]
      BY <3>2, <3>7
    <3>9. w[n + 1] = e[1]
      BY <3>7, <3>8 DEF m
    <3> QED
      BY <3>3, <3>5, <3>6, <3>9 DEF e
  <2> HIDE DEF t, n
  <2>4. \A k \in 1 .. n + 1 : k \in 1 .. n \/ k = n + 1
    BY <1>1
  <2>5. \A k \in 1 .. n : u[k].kind = "tran"
    BY DEF n
  <2>6. ASSUME NEW k \in 1 .. n + 1
        PROVE  t[k].kind = "tran" <=> k < n + 1
    <3>1. k \in 1 .. n => t[k].kind = "tran" /\ k < n + 1
      BY <1>1, <2>3, <2>5
    <3> QED
      BY <1>1, <2>2, <2>3, <2>4, <3>1
  <2>7. \A k \in 1 .. n : /\ t[k].addr = u[k].addr /\ t[k].len = u[k].len
                          /\ t[k].kind # "end"
    BY <2>3, <2>5
  <2>8. n <= n + 1 /\ n + 1 \in Nat /\ n < n + 1 /\ n + 1 <= n + 1
    BY <1>1
  <2>9. t[Len(t)].kind = "end"
    BY <2>2, <2>3
  <2> QED
    BY <2>3, <2>6, <2>7, <2>8, <2>9 DEF Closed, t, n
<1>3. CASE b.end_in_last /\ u = <<>>
  <2>1. t = <<>> /\ n = 0
    BY <1>3 DEF Close
  <2> QED
    BY <1>3, <2>1 DEF Closed
<1>4. CASE b.end_in_last /\ u # <<>>
  <2>1. t = last /\ n > 0
    BY <1>1, <1>4 DEF Close
  <2>2. /\ last \in Seq(DescType) /\ Len(last) = n /\ DOMAIN last = 1 .. n
    <3>1. [u[n] EXCEPT !.kind = "tran_end"] \in DescType
      <4> DEFINE d == u[n]
      <4>1. d \in DescType
        BY <1>1, <2>1
      <4> HIDE DEF d
      <4>2. [d EXCEPT !.kind = "tran_end"] \in DescType
        BY <4>1 DEF DescType
      <4> QED
        BY <4>2 DEF d
    <3> QED
      BY <1>1, <2>1, <3>1
  <2>3. \A k \in 1 .. n : last[k] = IF k = n THEN [u[n] EXCEPT !.kind = "tran_end"]
                                    ELSE u[k]
    BY <1>1, <2>1
  <2>4. \A k \in 1 .. n : u[k].kind = "tran"
    OBVIOUS
  <2> HIDE DEF t, n, last
  <2>5. ASSUME NEW k \in 1 .. n
        PROVE  /\ last[k].addr = u[k].addr /\ last[k].len = u[k].len
               /\ last[k].kind # "end" /\ (last[k].kind = "tran" <=> k < n)
    <3>1. CASE k = n
      <4>1. u[n] \in DescType
        BY <1>1, <2>1
      <4>2. last[k] = [u[n] EXCEPT !.kind = "tran_end"]
        BY <2>3, <3>1
      <4> QED
        BY <1>1, <3>1, <4>1, <4>2 DEF DescType
    <3>2. CASE k # n
      BY <1>1, <2>3, <2>4, <3>2
    <3> QED
      BY <3>1, <3>2
  <2> QED
    BY <1>1, <2>1, <2>2, <2>5 DEF Closed, t, n
<1> QED
  BY <1>2, <1>3, <1>4


-----------------------------------------------------------------------------
(* The controller follows the table *)

PieceType == [at: Nat, addr: Nat, len: Nat]
Stage == pc = "select" \/ (pc = "mode" /\ cmd.kind = "data") \/ Running
WithTable == Stage /\ host.req_use_dma /\ board.dma = "adma"

\* The scatterlist is the one of the request, and what the controller has done
\* begins with the request.
Listed ==
  cmd.kind = "data" =>
    Total <= board.limit /\ \E heap \in Heaps : sgl = MapSg(SgInit(cmd), cmd, heap)
Fresh ==
  /\ pc \in {"timeout", "prepare", "table", "select", "mode"} => moved = <<>>
  /\ pc = "table" => host.req_use_dma /\ board.dma = "adma"
  /\ Stage => Uses
  /\ pos \in Nat /\ pos <= MaxReqSize

\* The table t is that of descriptors u, which move the data of c from the
\* offsets off on: at least all of it, and to the right places unless a segment
\* is too short.
Tabled(b, c, list, t, sl, u, to, off) ==
  /\ u \in Seq(DescType) /\ Closed(t, u) /\ sl = SlotsOf(list)
  /\ to \in Nat /\ to >= Length(c) /\ Offsets(AnyDesc, u, 0, to, off)
  /\ NoneShort(list) => /\ Offsets(Rights(b, list, sl, c), u, 0, Length(c), off)
                        /\ Len(u) <= 4 * Len(list)

\* The pieces m are the first descriptors of u.
Piece(c, u, off, k) ==
  [at |-> off[k], addr |-> u[k].addr,
   len |-> LesserOf(Bytes(u[k]), Length(c) - off[k])]
Moves(c, u, off, m, p) ==
  /\ m \in Seq(PieceType) /\ Len(m) <= Len(u)
  /\ p = LesserOf(off[Len(m) + 1], Length(c))
  /\ \A k \in 1 .. Len(m) : off[k] < Length(c) /\ m[k] = Piece(c, u, off, k)
Planned ==
  WithTable =>
    \E u, to, off : /\ Tabled(board, cmd, sgl, table, slots, u, to, off)
                    /\ Moves(cmd, u, off, moved, pos)

\* SDMA goes through one stretch of memory.
Stretch(c, start, m) ==
  /\ m \in Seq(PieceType)
  /\ \A k \in 1 .. Len(m) :
       /\ m[k].addr = start + m[k].at
       /\ 0 < m[k].len /\ m[k].at + m[k].len <= Length(c)
Stretched == Running /\ reg.select = "sdma" => Stretch(cmd, Start, moved)

Following == Listed /\ Fresh /\ Planned /\ Stretched

LEMMA DataBounds ==
  ASSUME Inv, Listed, cmd.kind = "data"
  PROVE  /\ DataCmd(cmd) /\ Total \in Nat \ {0} /\ Total <= MaxReqSize
         /\ cmd.addr \in Nat /\ Segmented(sgl, cmd)
         /\ Len(sgl) \in Nat /\ Len(sgl) <= 8
         /\ Total <= SegSize => Len(sgl) = 1
<1>1. cmd \in Cmds
  BY DEF Inv, Types
<1>2. Total \in Nat \ {0}
  BY <1>1, LengthPositive DEF Total
<1>3. board.limit \in 0 .. MaxReqSize
  BY TransferAssumption DEF Inv, Types
<1>4. Total <= MaxReqSize
  <2>1. Total <= board.limit
    BY DEF Listed
  <2> QED
    BY <1>2, <1>3, <2>1, MaxReqSizeIs
<1>5. PICK heap \in Heaps : sgl = MapSg(SgInit(cmd), cmd, heap)
  BY DEF Listed
<1>6. Segmented(sgl, cmd) /\ Len(sgl) = DivUp(Total, SegSize)
  BY <1>1, <1>5, MapSgSegments DEF Total
<1>7. DivUp(Total, SegSize) \in Nat /\ DivUp(Total, SegSize) <= 8
  BY <1>2, <1>4, SegmentCount
<1>8. cmd.addr \in Nat
  BY <1>1, TransferAssumption
<1>9. Total <= SegSize => DivUp(Total, SegSize) = 1
  <2>1. \A m \in Nat \ {0} : m <= 65536 => (m + 65536 - 1) \div 65536 = 1
    OBVIOUS
  <2> QED
    BY <1>2, <2>1 DEF DivUp, SegSize
<1> QED
  BY <1>1, <1>2, <1>4, <1>6, <1>7, <1>8, <1>9 DEF DataCmd

\* Where the table and what is moved stay as they are, so does their relation.
LEMMA StillPlanned ==
  ASSUME Planned, WithTable' => WithTable,
         UNCHANGED <<board, cmd, sgl, table, slots, moved, pos>>
  PROVE  Planned'
<1> SUFFICES ASSUME WithTable'
             PROVE  \E u, to, off :
                      /\ Tabled(board', cmd', sgl', table', slots', u, to, off)
                      /\ Moves(cmd', u, off, moved', pos')
  BY DEF Planned
<1>1. WithTable
  OBVIOUS
<1> QED
  BY <1>1 DEF Planned

LEMMA InitFollowing ==
  ASSUME Init
  PROVE  Following
BY MaxReqSizeIs
DEF Init, Following, Listed, Fresh, Planned, WithTable, Stretched, Stage, Running

LEMMA SubmitFollowing ==
  ASSUME Inv, Following, Submit
  PROVE  Following'
<1>1. PICK c \in {c \in Cmds : Fits(c)}, heap \in Heaps :
        /\ cmd' = c
        /\ sgl' = IF c.kind = "data" THEN MapSg(SgInit(c), c, heap) ELSE <<>>
  BY DEF Submit
<1>2. Listed'
  BY <1>1 DEF Listed, Fits, Total, Submit
<1>3. pc' \in {"mode", "timeout"} /\ (pc' = "mode" => cmd'.kind = "other")
  BY DEF Submit
<1>4. ~Stage' /\ ~Running'
  BY <1>3 DEF Stage, Running
<1>5. Fresh'
  BY <1>3, <1>4, MaxReqSizeIs DEF Fresh, Submit
<1> QED
  BY <1>2, <1>4, <1>5 DEF Following, Planned, WithTable, Stretched

LEMMA SetTimeoutFollowing ==
  ASSUME Inv, Following, SetTimeout
  PROVE  Following'
<1>1. /\ pc = "timeout" /\ UNCHANGED <<board, cmd, sgl, table, slots, moved, pos>>
      /\ pc' = IF cmd.kind = "data" THEN "prepare" ELSE "mode"
  BY DEF SetTimeout
<1>2. ~Stage' /\ ~Running'
  BY <1>1 DEF Stage, Running
<1>3. Listed' /\ Fresh'
  BY <1>1, <1>2 DEF Following, Listed, Fresh, Total
<1> QED
  BY <1>2, <1>3 DEF Following, Planned, WithTable, Stretched

LEMMA PrepareDataFollowing ==
  ASSUME Inv, Following, PrepareData
  PROVE  Following'
<1> DEFINE mapped == UseDma(board, sgl) /\ BounceFits(board, cmd)
<1>1. /\ pc = "prepare" /\ UNCHANGED <<board, cmd, sgl, moved, pos>>
      /\ pc' = IF mapped /\ board.dma = "adma" THEN "table" ELSE "select"
  BY DEF PrepareData
<1>2. host'.req_use_dma = mapped
  BY DEF PrepareData, Inv, Types, HostType
<1> HIDE DEF mapped
<1>3. ~WithTable' /\ ~Running'
  BY <1>1, <1>2 DEF Stage, Running, WithTable
<1>4. mapped => board.dma # "none"
  BY DEF mapped, UseDma
<1>5. Uses'
  BY <1>1, <1>2, <1>4, TransferAssumption DEF Uses, Inv, Types
<1>6. Listed' /\ Fresh'
  BY <1>1, <1>2, <1>5 DEF Following, Listed, Fresh, Total
<1> QED
  BY <1>3, <1>6 DEF Following, Planned, Stretched

\* What is right at a position is a descriptor that moves.
LEMMA RightsMove ==
  ASSUME NEW b, NEW list, NEW sl, NEW c, NEW u, NEW from, NEW to, NEW off,
         Offsets(Rights(b, list, sl, c), u, from, to, off)
  PROVE  Offsets(AnyDesc, u, from, to, off)
<1>1. Rights(b, list, sl, c) \subseteq AnyDesc
  BY DEF Rights, AnyDesc, Right
<1> QED
  BY <1>1 DEF Offsets

\* sdhci_adma_table_pre gives the controller a table of the data.
LEMMA BuildTableTables ==
  ASSUME Inv, Following, BuildTable
  PROVE  \E u, to, off :
           /\ Tabled(board, cmd, sgl, table', slots', u, to, off)
           /\ Moves(cmd, u, off, <<>>, 0)
<1> DEFINE u == Upto(board, sgl)[Len(sgl)]
           sl == SlotsOf(sgl)
<1>1. pc = "table" /\ cmd.kind = "data"
  BY DEF BuildTable, Inv, Early, Placing, DataCmd
<1>2. /\ cmd.addr \in Nat /\ Segmented(sgl, cmd) /\ Len(sgl) \in Nat
      /\ Len(sgl) <= 8 /\ Length(cmd) \in Nat \ {0}
  BY <1>1, DataBounds DEF Following, Total
<1>3. board.split \in BOOLEAN /\ board.end_in_last \in BOOLEAN
  BY TransferAssumption DEF Inv, Types
<1>4. table' = Close(board, u) /\ slots' = sl
  BY BuildTableIs
<1> HIDE DEF u, sl
<1>5. ASSUME NEW to, NEW off, to \in Nat, to >= Length(cmd),
             u \in Seq(DescType), Offsets(AnyDesc, u, 0, to, off),
             NoneShort(sgl) =>
               /\ Offsets(Rights(board, sgl, sl, cmd), u, 0, Length(cmd), off)
               /\ Len(u) <= 4 * Len(sgl)
      PROVE  /\ Tabled(board, cmd, sgl, table', slots', u, to, off)
             /\ Moves(cmd, u, off, <<>>, 0)
  <2>1. \A k \in 1 .. Len(u) : u[k].kind = "tran"
    BY <1>5 DEF Offsets, AnyDesc
  <2>2. Closed(table', u)
    BY <1>3, <1>4, <1>5, <2>1, CloseIs
  <2>3. Tabled(board, cmd, sgl, table', slots', u, to, off)
    BY <1>4, <1>5, <2>2 DEF Tabled, sl
  <2>4. off[1] = 0 /\ Len(u) \in Nat
    BY <1>5 DEF Offsets
  <2>5. LesserOf(0, Length(cmd)) = 0
    BY <1>2 DEF LesserOf
  <2>6. /\ <<>> \in Seq(PieceType) /\ Len(<<>>) = 0 /\ 1 .. 0 = {}
        /\ 0 <= Len(u) /\ off[0 + 1] = 0
    BY <2>4
  <2>7. Moves(cmd, u, off, <<>>, 0)
    BY <2>5, <2>6 DEF Moves
  <2> QED
    BY <2>3, <2>7
<1>6. CASE NoneShort(sgl)
  <2>1. /\ Lays(Rights(board, sgl, sl, cmd), u, 0, Length(cmd))
        /\ Len(u) <= 4 * Len(sgl)
    BY <1>2, <1>3, <1>6, TableLays DEF u, sl
  <2>2. PICK off : Offsets(Rights(board, sgl, sl, cmd), u, 0, Length(cmd), off)
    BY <2>1 DEF Lays
  <2>3. Offsets(AnyDesc, u, 0, Length(cmd), off)
    BY <2>2, RightsMove
  <2>4. u \in Seq(DescType) /\ Length(cmd) \in Nat /\ Length(cmd) >= Length(cmd)
    BY <1>2, <2>1 DEF Lays
  <2> QED
    BY <1>5, <2>1, <2>2, <2>3, <2>4
<1>7. CASE ~NoneShort(sgl)
  <2>1. PICK to \in Nat : to >= Length(cmd) /\ Lays(AnyDesc, u, 0, to)
    BY <1>2, <1>3, TableReaches DEF u
  <2>2. PICK off : Offsets(AnyDesc, u, 0, to, off)
    BY <2>1 DEF Lays
  <2>3. u \in Seq(DescType)
    BY <2>1 DEF Lays
  <2> QED
    BY <1>5, <1>7, <2>1, <2>2, <2>3
<1> QED
  BY <1>6, <1>7

LEMMA BuildTableFollowing ==
  ASSUME Inv, Following, BuildTable
  PROVE  Following'
<1>1. /\ pc = "table" /\ pc' = "select"
      /\ UNCHANGED <<board, cmd, sgl, host, reg, moved, pos>>
  BY DEF BuildTable
<1>2. moved = <<>> /\ pos = 0
  BY <1>1 DEF Following, Fresh, Inv, Counting, Preparing
<1>3. Planned'
  BY <1>1, <1>2, BuildTableTables DEF Planned
<1>4. Uses'
  BY <1>1 DEF Uses, Following, Fresh
<1>5. Listed' /\ Fresh' /\ Stretched'
  BY <1>1, <1>4 DEF Following, Listed, Fresh, Stretched, Running, Total
<1> QED
  BY <1>3, <1>5 DEF Following

LEMMA SelectDmaFollowing ==
  ASSUME Inv, Following, SelectDma
  PROVE  Following'
<1>1. /\ pc = "select" /\ pc' = "mode"
      /\ UNCHANGED <<board, cmd, sgl, table, slots, moved, pos>>
  BY DEF SelectDma
<1>2. host'.req_use_dma = host.req_use_dma
  BY DEF SelectDma, TransferIrqs, Inv, Types, HostType
<1>3. Planned'
  BY <1>1, <1>2, StillPlanned DEF Following, WithTable, Stage
<1>4. Uses'
  BY <1>1, <1>2 DEF Uses, Following, Fresh, Stage
<1>5. Listed' /\ Fresh' /\ Stretched'
  BY <1>1, <1>4 DEF Following, Listed, Fresh, Stretched, Running, Total
<1> QED
  BY <1>3, <1>5 DEF Following

LEMMA SetModeFollowing ==
  ASSUME Inv, Following, SetMode
  PROVE  Following'
<1>1. /\ pc = "mode"
      /\ UNCHANGED <<board, cmd, sgl, table, slots, moved, pos>>
      /\ pc' = IF cmd.kind # "data" THEN "idle"
               ELSE IF host.req_use_dma THEN "run" ELSE "pio"
  BY DEF SetMode
<1>2. host'.req_use_dma = host.req_use_dma
  BY DEF SetMode, Inv, Types, HostType
<1>3. Stage' => Stage
  BY <1>1, <1>2 DEF Stage, Running
<1>4. Planned'
  BY <1>1, <1>2, <1>3, StillPlanned DEF Following, WithTable
<1>5. Stage' => Uses'
  BY <1>1, <1>2, <1>3 DEF Uses, Following, Fresh
<1>6. Listed' /\ Fresh'
  BY <1>1, <1>5 DEF Following, Listed, Fresh, Total
<1>7. moved = <<>>
  BY <1>1 DEF Following, Fresh
<1>8. Stretched'
  BY <1>1, <1>7 DEF Stretched, Stretch
<1> QED
  BY <1>4, <1>6, <1>8 DEF Following

\* The controller does the next descriptor: what it has done stays the first
\* part of the table.
LEMMA NextPiece ==
  ASSUME NEW c, Length(c) \in Nat, NEW u \in Seq(DescType), NEW to \in Nat,
         to >= Length(c), NEW off, Offsets(AnyDesc, u, 0, to, off),
         NEW m, NEW p, Moves(c, u, off, m, p), p < Length(c),
         Len(m) + 1 <= Len(u)
  PROVE  /\ off[Len(m) + 1] = p /\ p \in Nat
         /\ Moves(c, u, off, Append(m, Piece(c, u, off, Len(m) + 1)),
                  p + LesserOf(Bytes(u[Len(m) + 1]), Length(c) - p))
<1> DEFINE k == Len(m) + 1
           e == Piece(c, u, off, k)
           w == Append(m, e)
           n == Bytes(u[k])
<1>1. m \in Seq(PieceType) /\ Len(m) \in Nat
  BY DEF Moves
<1>2. k \in Nat /\ k \in 1 .. Len(u) /\ k \in 1 .. Len(u) + 1 /\ k + 1 \in 1 .. Len(u) + 1
  BY <1>1
<1>3. /\ off[k] \in Nat /\ off[k + 1] \in Nat
      /\ off[k + 1] = off[k] + n
  BY <1>2 DEF Offsets
<1>4. u[k] \in DescType
  BY <1>2
<1>5. n \in Nat /\ 0 < n /\ u[k].addr \in Nat
  BY <1>4, BytesPositive DEF DescType
<1>6. p = LesserOf(off[k], Length(c))
  BY DEF Moves
<1>7. off[k] = p /\ p \in Nat
  BY <1>3, <1>6 DEF LesserOf
<1> HIDE DEF n
<1>8. LesserOf(n, Length(c) - off[k]) \in Nat
  BY <1>3, <1>5, <1>7 DEF LesserOf
<1>9. e \in PieceType
  BY <1>3, <1>5, <1>8 DEF Piece, PieceType, n
<1>10. e = Piece(c, u, off, k)
  OBVIOUS
<1> HIDE DEF e
<1>11. /\ w \in Seq(PieceType) /\ Len(w) = k /\ w[k] = e
       /\ \A i \in 1 .. Len(m) : w[i] = m[i]
  BY <1>1, <1>9
<1> HIDE DEF w
<1>12. p + LesserOf(n, Length(c) - p) = LesserOf(off[k + 1], Length(c))
  BY <1>3, <1>5, <1>7 DEF LesserOf
<1>13. \A i \in 1 .. k : i = k \/ i \in 1 .. Len(m)
  BY <1>1
<1>14. \A i \in 1 .. Len(m) : off[i] < Length(c) /\ m[i] = Piece(c, u, off, i)
  BY DEF Moves
<1> HIDE DEF k
<1>15. \A i \in 1 .. k : off[i] < Length(c) /\ w[i] = Piece(c, u, off, i)
  BY <1>7, <1>10, <1>11, <1>13, <1>14
<1>16. Moves(c, u, off, w, p + LesserOf(n, Length(c) - p))
  BY <1>2, <1>11, <1>12, <1>15 DEF Moves
<1> QED
  BY <1>7, <1>16 DEF k, e, w, n

\* The next entry of the table is the next descriptor, unless it is the end.
LEMMA NextEntry ==
  ASSUME NEW t, NEW u \in Seq(DescType), Closed(t, u), NEW k \in Nat,
         k <= Len(u) + 1, 0 < k, k <= Len(t), t[k].kind # "end"
  PROVE  k <= Len(u) /\ t[k].addr = u[k].addr /\ Bytes(t[k]) = Bytes(u[k])
<1>1. Len(u) \in Nat /\ Len(t) \in Nat
  BY DEF Closed
<1>2. k <= Len(u)
  BY <1>1 DEF Closed
<1>3. k \in 1 .. Len(u)
  BY <1>1, <1>2
<1> QED
  BY <1>2, <1>3 DEF Closed, Bytes

LEMMA AdmaMovesFollowing ==
  ASSUME Inv, Following, AdmaMoves
  PROVE  Following'
<1> DEFINE k == Len(moved) + 1
           n == Bytes(table[k])
<1>1. /\ pc = "run" /\ reg.select = "adma" /\ pos < Total /\ k <= Len(table)
      /\ table[k].kind # "end" /\ Move(table[k].addr, n)
      /\ pc' \in {"run", "end"}
      /\ UNCHANGED <<board, cmd, sgl, host, reg, table, slots>>
  BY DEF AdmaMoves, Bytes
<1>2. moved' = Append(moved, [at |-> pos, addr |-> table[k].addr,
                              len |-> LesserOf(n, Total - pos)])
      /\ pos' = pos + LesserOf(n, Total - pos)
  BY <1>1 DEF Move
<1>3. cmd.kind = "data"
  BY <1>1 DEF Inv, Early, DataCmd
<1>4. Total \in Nat /\ Total <= MaxReqSize
  BY <1>3, DataBounds DEF Following
<1>5. WithTable
  BY <1>1 DEF WithTable, Stage, Running, Inv, Agreeing, Selected
<1> HIDE DEF k, n
<1>6. PICK u, to, off : /\ Tabled(board, cmd, sgl, table, slots, u, to, off)
                        /\ Moves(cmd, u, off, moved, pos)
  BY <1>5 DEF Following, Planned
<1>7. /\ u \in Seq(DescType) /\ Closed(table, u) /\ to \in Nat
      /\ to >= Total /\ Offsets(AnyDesc, u, 0, to, off)
  BY <1>6 DEF Tabled, Total
<1>8. Len(moved) \in Nat /\ k \in Nat /\ 0 < k /\ k <= Len(u) + 1
  BY <1>6, <1>7 DEF Moves, k
<1>9. k <= Len(u) /\ table[k].addr = u[k].addr /\ n = Bytes(u[k])
  BY <1>1, <1>7, <1>8, NextEntry DEF n
<1>10. /\ off[k] = pos /\ pos \in Nat
       /\ Moves(cmd, u, off, Append(moved, Piece(cmd, u, off, k)),
                pos + LesserOf(Bytes(u[k]), Total - pos))
  BY <1>1, <1>4, <1>6, <1>7, <1>9, NextPiece DEF Total, k
<1>11. Moves(cmd, u, off, moved', pos')
  BY <1>2, <1>9, <1>10 DEF Piece, Total
<1>12. Planned'
  BY <1>1, <1>6, <1>11 DEF Planned
<1>13. n \in Nat
  <2>1. u[k] \in DescType
    BY <1>7, <1>8, <1>9
  <2> QED
    BY <1>9, <2>1, BytesPositive
<1>14. pos' \in Nat /\ pos' <= MaxReqSize
  BY <1>1, <1>2, <1>4, <1>10, <1>13, MaxReqSizeIs DEF LesserOf
<1>15. Uses
  BY <1>1 DEF Following, Fresh, Stage, Running
<1>16. Listed' /\ Fresh' /\ Stretched'
  BY <1>1, <1>14, <1>15 DEF Following, Listed, Fresh, Stretched, Total, Uses
<1> QED
  BY <1>12, <1>16 DEF Following

LEMMA SdmaMovesFollowing ==
  ASSUME Inv, Following, SdmaMoves
  PROVE  Following'
<1> DEFINE n == BoundarySize - (reg.sdma_addr % BoundarySize)
           len == LesserOf(n, Total - pos)
           e == [at |-> pos, addr |-> reg.sdma_addr, len |-> len]
<1>1. /\ pc = "run" /\ reg.select = "sdma" /\ pos < Total
      /\ Move(reg.sdma_addr, n) /\ pc' \in {"boundary", "end"}
      /\ UNCHANGED <<board, cmd, sgl, host, reg, table, slots>>
  BY DEF SdmaMoves
<1>2. moved' = Append(moved, e) /\ pos' = pos + len
  BY <1>1 DEF Move
<1>3. cmd.kind = "data"
  BY <1>1 DEF Inv, Early, DataCmd
<1>4. Total \in Nat /\ Total <= MaxReqSize
  BY <1>3, DataBounds DEF Following
<1>5. /\ pos \in Nat /\ pos <= Total /\ reg.sdma_addr = Start + pos
      /\ reg.sdma_addr \in Nat
  <2>1. pos \in 0 .. Total /\ reg.sdma_addr = Start + pos
    BY <1>1 DEF Inv, Counting
  <2>2. reg.sdma_addr \in Nat
    BY DEF Inv, Types, RegType
  <2> QED
    BY <1>4, <2>1, <2>2
<1>6. n \in Nat /\ 0 < n
  <2>1. \A a \in Nat : 524288 - (a % 524288) \in Nat /\ 0 < 524288 - (a % 524288)
    OBVIOUS
  <2> QED
    BY <1>5, <2>1 DEF BoundarySize
<1> HIDE DEF n
<1>7. len \in Nat /\ 0 < len /\ pos + len <= Total
  BY <1>1, <1>4, <1>5, <1>6 DEF LesserOf
<1> HIDE DEF len
<1>8. e \in PieceType /\ e.addr = Start + e.at /\ e.at + e.len <= Total /\ 0 < e.len
  BY <1>5, <1>7 DEF PieceType
<1> HIDE DEF e
<1>9. Stretch(cmd, Start, moved)
  BY <1>1 DEF Following, Stretched, Running
<1>10. Stretch(cmd, Start, Append(moved, e))
  <2> DEFINE m == moved
             w == Append(m, e)
  <2>1. m \in Seq(PieceType) /\ Len(m) \in Nat
    BY <1>9 DEF Stretch
  <2> HIDE DEF m
  <2>2. /\ w \in Seq(PieceType) /\ Len(w) = Len(m) + 1 /\ w[Len(m) + 1] = e
        /\ \A i \in 1 .. Len(m) : w[i] = m[i]
    BY <1>8, <2>1
  <2>3. \A i \in 1 .. Len(m) + 1 : i = Len(m) + 1 \/ i \in 1 .. Len(m)
    BY <2>1
  <2> HIDE DEF w
  <2>4. Stretch(cmd, Start, w)
    BY <1>8, <1>9, <2>2, <2>3 DEF Stretch, m, Total
  <2> QED
    BY <2>4 DEF w, m
<1>11. Stretched'
  <2>1. Start' = Start
    BY <1>1 DEF Start
  <2> QED
    BY <1>1, <1>2, <1>10, <2>1 DEF Stretched
<1>12. ~WithTable'
  BY <1>1 DEF WithTable, Running, Inv, Agreeing, Selected
<1>13. pos' \in Nat /\ pos' <= MaxReqSize
  BY <1>2, <1>4, <1>5, <1>7, MaxReqSizeIs
<1>14. Uses
  BY <1>1 DEF Following, Fresh, Stage, Running
<1>15. Listed' /\ Fresh'
  BY <1>1, <1>13, <1>14 DEF Following, Listed, Fresh, Total, Uses
<1> QED
  BY <1>11, <1>12, <1>15 DEF Following, Planned

LEMMA DmaEndFollowing ==
  ASSUME Inv, Following, DmaEnd
  PROVE  Following'
<1>1. /\ pc = "boundary" /\ pc' \in {"run", "end"}
      /\ UNCHANGED <<board, cmd, sgl, table, slots, moved, pos>>
  BY DEF DmaEnd
<1>2. /\ host'.req_use_dma = host.req_use_dma /\ reg'.select = reg.select
  BY DEF DmaEnd, Inv, Types, HostType, RegType
<1>3. Planned'
  BY <1>1, <1>2, StillPlanned DEF Following, WithTable, Stage, Running
<1>4. Uses' /\ Start' = Start
  BY <1>1, <1>2 DEF Uses, Following, Fresh, Stage, Running, Start
<1>5. Listed' /\ Fresh' /\ Stretched'
  BY <1>1, <1>2, <1>4 DEF Following, Listed, Fresh, Stretched, Running, Total
<1> QED
  BY <1>3, <1>5 DEF Following

LEMMA EndFollowing ==
  ASSUME Inv, Following, DataEnd \/ DataError \/ PioBlock
  PROVE  Following'
<1>1. /\ pc' \in {"idle", "looping"}
      /\ UNCHANGED <<board, cmd, sgl, table, slots, moved, pos>>
  BY DEF DataEnd, DataError, PioBlock
<1>2. ~Stage' /\ ~Running'
  BY <1>1 DEF Stage, Running
<1> QED
  BY <1>1, <1>2
  DEF Following, Listed, Fresh, Planned, WithTable, Stretched, Total

\* The table is that of the request, and what the controller has done is its
\* first part, or for SDMA the first part of the one segment.
THEOREM FollowingAlways == Spec => []Following
<1>1. Init => Following
  BY InitFollowing
<1>2. Inv /\ Following /\ [Next]_vars => Following'
  <2> SUFFICES ASSUME Inv, Following, [Next]_vars
               PROVE  Following'
    OBVIOUS
  <2>1. CASE Submit
    BY <2>1, SubmitFollowing
  <2>2. CASE SetTimeout
    BY <2>2, SetTimeoutFollowing
  <2>3. CASE PrepareData
    BY <2>3, PrepareDataFollowing
  <2>4. CASE BuildTable
    BY <2>4, BuildTableFollowing
  <2>5. CASE SelectDma
    BY <2>5, SelectDmaFollowing
  <2>6. CASE SetMode
    BY <2>6, SetModeFollowing
  <2>7. CASE DmaEnd
    BY <2>7, DmaEndFollowing
  <2>8. CASE DataEnd \/ DataError \/ PioBlock
    BY <2>8, EndFollowing
  <2>9. CASE AdmaMoves
    BY <2>9, AdmaMovesFollowing
  <2>10. CASE SdmaMoves
    BY <2>10, SdmaMovesFollowing
  <2>11. CASE UNCHANGED vars
    BY <2>11
    DEF vars, Following, Listed, Fresh, Planned, WithTable, Stretched, Stage,
        Running, Uses, Start, Total
  <2> QED
    BY <2>1, <2>2, <2>3, <2>4, <2>5, <2>6, <2>7, <2>8, <2>9, <2>10, <2>11
    DEF Next, Driver, Controller
<1> QED
  BY <1>1, <1>2, Invariance, PTL DEF Spec

\* The variables keep their types; no more is moved than the largest request
\* has.
THEOREM TransferTyped == Spec => []TypeOK
<1>1. Inv /\ Following => TypeOK
  <2> SUFFICES ASSUME Inv, Following
               PROVE  TypeOK
    OBVIOUS
  <2>1. pos \in 0 .. MaxReqSize
    BY MaxReqSizeIs DEF Following, Fresh
  <2> QED
    BY <2>1
    DEF TypeOK, Inv, Types, Pcs, HostType, RegType, ModeType
<1> QED
  BY <1>1, Invariance, FollowingAlways, PTL

\* A running transfer of a request with a table.
LEMMA AdmaPlan ==
  ASSUME Inv, Following, Running, reg.select = "adma"
  PROVE  /\ cmd.kind = "data"
         /\ \E u, to, off : /\ Tabled(board, cmd, sgl, table, slots, u, to, off)
                            /\ Moves(cmd, u, off, moved, pos)
BY DEF Following, Planned, WithTable, Stage, Running, Inv, Agreeing, Selected,
       Early, DataCmd

\* No transfer by ADMA ends before all of its data are moved: while data are
\* left the controller is not at the end of the table, whatever the segments
\* and wherever they lie (sdhci_adma_table_pre, sdhci_adma_mark_end).
THEOREM TransferComplete == Spec => []Complete
<1>1. Inv /\ Following => Complete
  <2> SUFFICES ASSUME Inv, Following, Running, reg.select = "adma", pos < Total
               PROVE  /\ Len(moved) < Len(table)
                      /\ table[Len(moved) + 1].kind # "end"
    BY DEF Complete
  <2> DEFINE k == Len(moved) + 1
  <2>1. PICK u, to, off : /\ Tabled(board, cmd, sgl, table, slots, u, to, off)
                          /\ Moves(cmd, u, off, moved, pos)
    BY AdmaPlan
  <2>2. Total \in Nat
    BY AdmaPlan, DataBounds DEF Following
  <2>3. /\ u \in Seq(DescType) /\ Closed(table, u) /\ to \in Nat
        /\ to >= Total /\ off[Len(u) + 1] = to
    BY <2>1 DEF Tabled, Offsets, Total
  <2>4. /\ Len(moved) \in Nat /\ Len(moved) <= Len(u)
        /\ pos = LesserOf(off[Len(moved) + 1], Total)
    BY <2>1 DEF Moves, Total
  <2>5. Len(u) \in Nat /\ Len(table) \in Nat /\ Len(u) <= Len(table)
    BY <2>3 DEF Closed
  <2>6. Len(moved) # Len(u)
    BY <2>2, <2>3, <2>4 DEF LesserOf
  <2>7. k \in 1 .. Len(u) /\ Len(moved) < Len(table)
    BY <2>4, <2>5, <2>6
  <2> HIDE DEF k
  <2>8. table[k].kind # "end"
    BY <2>3, <2>7 DEF Closed
  <2> QED
    BY <2>7, <2>8 DEF k
<1> QED
  BY <1>1, Invariance, FollowingAlways, PTL

\* The controller can follow every table: its addresses are aligned, on cv181x
\* no descriptor crosses 128 MB, only the last one ends the table, and table
\* and slots fit their buffers (sdhci_adma_table_pre, cvi_adma_write_desc).
THEOREM TransferWellFormed == Spec => []WellFormed
<1>1. Inv /\ Following => WellFormed
  <2> SUFFICES ASSUME Inv, Following, Running, reg.select = "adma",
                      ~TooShort(cmd)
               PROVE  WellFormed
    BY DEF WellFormed
  <2>1. PICK u, to, off : Tabled(board, cmd, sgl, table, slots, u, to, off)
    BY AdmaPlan
  <2>2. /\ Segmented(sgl, cmd) /\ Len(sgl) \in Nat /\ Len(sgl) <= 8
    BY AdmaPlan, DataBounds DEF Following
  <2>3. NoneShort(sgl)
    BY DEF TooShort, NoneShort
  <2>4. /\ u \in Seq(DescType) /\ Closed(table, u) /\ slots = SlotsOf(sgl)
        /\ Offsets(Rights(board, sgl, slots, cmd), u, 0, Length(cmd), off)
        /\ Len(u) <= 4 * Len(sgl)
    BY <2>1, <2>3 DEF Tabled
  <2>5. Len(slots) <= MaxSegs
    <3>1. DOMAIN sgl = 1 .. Len(sgl)
      BY <2>2 DEF Segmented
    <3>2. Cardinality(Heads(sgl)) \in Nat /\ Cardinality(Heads(sgl)) <= Len(sgl)
      BY <2>2, <3>1, SlotsApart
    <3>3. Len(slots) = Cardinality(Heads(sgl))
      BY <2>2, <2>4, <3>1, SlotsLen
    <3> QED
      BY <2>2, <3>2, <3>3 DEF MaxSegs
  <2>6. Len(u) \in Nat /\ Len(table) \in Nat /\ Len(table) <= Len(u) + 1
    BY <2>4 DEF Closed
  <2>7. Len(table) <= TableCnt
    BY <2>2, <2>4, <2>6 DEF TableCnt, MaxSegs
  <2>8. ASSUME NEW k \in DOMAIN table
        PROVE  /\ (table[k].kind = "tran") <=> (k < Len(table))
               /\ table[k].kind # "end" =>
                    /\ table[k].addr % AdmaAlign = 0
                    /\ board.split => Within(table[k])
    <3>1. k \in 1 .. Len(table)
      BY <2>4 DEF Closed
    <3>2. (table[k].kind = "tran") <=> (k < Len(table))
      BY <2>4, <3>1 DEF Closed
    <3>3. ASSUME table[k].kind # "end"
          PROVE  /\ table[k].addr % AdmaAlign = 0
                 /\ board.split => Within(table[k])
      <4>1. k \in Nat /\ 0 < k /\ k <= Len(table) /\ k <= Len(u) + 1
        BY <2>6, <3>1
      <4>2. /\ k <= Len(u) /\ table[k].addr = u[k].addr
            /\ Bytes(table[k]) = Bytes(u[k])
        BY <2>4, <3>3, <4>1, NextEntry
      <4>3. k \in 1 .. Len(u)
        BY <4>1, <4>2, <2>6
      <4>4. <<u[k], off[k]>> \in Rights(board, sgl, slots, cmd)
        BY <2>4, <4>3 DEF Offsets
      <4>5. u[k].addr % AdmaAlign = 0 /\ (board.split => Within(u[k]))
        BY <4>4 DEF Rights, Right
      <4> QED
        BY <4>2, <4>5 DEF Within
    <3> QED
      BY <3>2, <3>3
  <2> QED
    BY <2>5, <2>7, <2>8 DEF WellFormed, Within, Bytes
<1> QED
  BY <1>1, Invariance, FollowingAlways, PTL

\* Every byte the controller moves has its place in the caller's buffer: with
\* ADMA for any segments, with SDMA where one segment holds the largest request
\* (sdhci_adma_table_pre, the restart at an SDMA boundary, __map_sg).
THEOREM TransferPlaced ==
  ASSUME \A b \in Boards : b.dma = "sdma" /\ b.bounce = 0 => b.limit <= SegSize
  PROVE  Spec => []Placed
<1>1. ASSUME Inv, Following, Running, board.bounce = 0, ~TooShort(cmd),
             NEW k \in DOMAIN moved
      PROVE  /\ HomeOf(moved[k].addr) = {cmd.addr + moved[k].at}
             /\ HomeOf(moved[k].addr + moved[k].len - 1)
                  = {cmd.addr + moved[k].at + moved[k].len - 1}
  <2>1. cmd.kind = "data"
    BY <1>1 DEF Inv, Early, Running, DataCmd
  <2>2. /\ Total \in Nat /\ cmd.addr \in Nat /\ Segmented(sgl, cmd)
        /\ Len(sgl) \in Nat /\ (Total <= SegSize => Len(sgl) = 1)
    BY <1>1, <2>1, DataBounds DEF Following
  <2>3. CASE reg.select = "adma"
    <3>1. PICK u, to, off :
            /\ Tabled(board, cmd, sgl, table, slots, u, to, off)
            /\ Moves(cmd, u, off, moved, pos)
      BY <1>1, <2>3, AdmaPlan
    <3>2. NoneShort(sgl)
      BY <1>1 DEF TooShort, NoneShort
    <3>3. /\ u \in Seq(DescType)
          /\ Offsets(Rights(board, sgl, slots, cmd), u, 0, Total, off)
      BY <3>1, <3>2 DEF Tabled, Total
    <3>4. moved \in Seq(PieceType) /\ Len(moved) <= Len(u)
      BY <3>1 DEF Moves
    <3>5. k \in 1 .. Len(moved) /\ k \in 1 .. Len(u) /\ k + 1 \in 1 .. Len(u) + 1
      BY <1>1, <3>3, <3>4
    <3>6. off[k] < Total /\ moved[k] = Piece(cmd, u, off, k)
      BY <3>1, <3>5 DEF Moves, Total
    <3>7. /\ off[k] \in Nat /\ off[k + 1] = off[k] + Bytes(u[k])
          /\ off[k + 1] <= Total
          /\ <<u[k], off[k]>> \in Rights(board, sgl, slots, cmd)
      BY <3>3, <3>5 DEF Offsets
    <3>8. u[k].addr \in Nat /\ Bytes(u[k]) \in Nat
      <4>1. u[k] \in DescType
        BY <3>3, <3>5
      <4> QED
        BY <4>1, BytesPositive DEF DescType
    <3>9. LesserOf(Bytes(u[k]), Total - off[k]) = Bytes(u[k])
      BY <2>2, <3>7, <3>8 DEF LesserOf
    <3>10. /\ moved[k].at = off[k] /\ moved[k].addr = u[k].addr
           /\ moved[k].len = Bytes(u[k])
      BY <3>6, <3>9 DEF Piece, Total
    <3>11. /\ Stands(sgl, slots, cmd, u[k].addr, off[k])
           /\ Stands(sgl, slots, cmd, u[k].addr + Bytes(u[k]) - 1,
                     off[k] + Bytes(u[k]) - 1)
      BY <3>7 DEF Rights, Right
    <3>12. cmd.addr + (off[k] + Bytes(u[k]) - 1)
             = cmd.addr + off[k] + Bytes(u[k]) - 1
      BY <2>2, <3>7, <3>8
    <3> QED
      BY <3>10, <3>11, <3>12, HomeOfIs DEF Stands
  <2>4. CASE reg.select = "sdma"
    <3> DEFINE e == moved[k]
    <3>1. Stretch(cmd, sgl[1].addr, moved)
      BY <1>1, <2>4 DEF Following, Stretched, Start
    <3>2. e \in PieceType
      BY <1>1, <3>1 DEF Stretch
    <3>3. e.at \in Nat /\ e.len \in Nat
      BY <3>2 DEF PieceType
    <3>4. k \in 1 .. Len(moved)
      BY <1>1, <3>1 DEF Stretch
    <3>5. e.addr = sgl[1].addr + e.at /\ 0 < e.len /\ e.at + e.len <= Total
      BY <3>1, <3>4 DEF Stretch, Total
    <3> HIDE DEF e
    <3>6. Total <= SegSize
      <4>1. board \in Boards /\ board.dma = "sdma"
        BY <1>1, <2>4 DEF Following, Fresh, Stage, Uses, Inv, Types, Agreeing,
                          Selected
      <4>2. board.limit \in Nat /\ board.limit <= SegSize
        BY <1>1, <4>1, TransferAssumption
      <4>3. Total <= board.limit
        BY <1>1, <2>1 DEF Following, Listed
      <4> QED
        BY <2>2, <4>2, <4>3, SegSizeIs
    <3>7. Len(sgl) = 1 /\ Segment(sgl[1], cmd, 1, 1) /\ 1 \in 1 .. Len(sgl)
      BY <2>2, <3>6 DEF Segmented
    <3>8. Begin(1) = 0
      BY BeginIs
    <3>9. sgl[1].len = Total /\ sgl[1].addr \in Nat
      BY <2>2, <3>7, <3>8 DEF Segment, Total
    <3>10. ASSUME NEW x \in Nat, x < Total
           PROVE  HomeOf(sgl[1].addr + x) = {cmd.addr + x}
      <4> DEFINE addr == sgl[1].addr + x
      <4>1. UnslotIn(slots, addr) = sgl[1].addr + x
        BY <2>2, <3>7, <3>9, <3>10, SegmentStands
      <4> HIDE DEF addr
      <4>2. HomeIn(sgl, slots, addr) = {cmd.addr + (Begin(1) + x)}
        BY <2>2, <3>7, <3>9, <3>10, <4>1, HomeInSegment
      <4>3. Begin(1) + x = x
        BY <3>8
      <4> QED
        BY <4>2, <4>3, HomeOfIs DEF addr
    <3> DEFINE y == e.at + e.len - 1
    <3>11. /\ e.at < Total /\ y \in Nat /\ y < Total
           /\ e.addr + e.len - 1 = sgl[1].addr + y
           /\ cmd.addr + y = cmd.addr + e.at + e.len - 1
      <4> DEFINE a == e.at
                 l == e.len
                 t == Total
                 p == sgl[1].addr
                 q == cmd.addr
      <4>1. /\ a \in Nat /\ l \in Nat /\ t \in Nat /\ p \in Nat /\ q \in Nat
            /\ e.addr = p + a /\ 0 < l /\ a + l <= t
        BY <2>2, <3>3, <3>5, <3>9
      <4> HIDE DEF a, l, t, p, q
      <4>2. /\ a < t /\ a + l - 1 \in Nat /\ a + l - 1 < t
            /\ p + a + l - 1 = p + (a + l - 1)
            /\ q + (a + l - 1) = q + a + l - 1
        BY <4>1
      <4> QED
        BY <4>1, <4>2 DEF a, l, t, p, q
    <3> HIDE DEF y
    <3>12. HomeOf(e.addr) = {cmd.addr + e.at}
      BY <3>3, <3>5, <3>10, <3>11
    <3>13. HomeOf(e.addr + e.len - 1) = {cmd.addr + e.at + e.len - 1}
      BY <3>10, <3>11
    <3> QED
      BY <3>12, <3>13 DEF e
  <2> QED
    BY <2>3, <2>4, <1>1 DEF Inv, Types, RegType
<1>2. Inv /\ Following => Placed
  BY <1>1 DEF Placed
<1> QED
  BY <1>2, Invariance, FollowingAlways, PTL
=============================================================================
