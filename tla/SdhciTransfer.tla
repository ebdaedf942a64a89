---------------------------- MODULE SdhciTransfer ----------------------------
(***************************************************************************)
(* How the data of a request get from the caller's buffer to the card and  *)
(* back: the scatterlist of the port, the buffers it realigns, the ADMA2   *)
(* descriptors or the SDMA address, the registers that tell the controller *)
(* how to transfer, and the timeout that watches it.                       *)
(*                                                                         *)
(* One request is under way at a time.  Memory is its addresses: moved     *)
(* records which piece of memory the controller used for which part of     *)
(* the data.  Page links and cache maintenance are left out, as physical   *)
(* memory is contiguous where virtual memory is.                           *)
(***************************************************************************)
EXTENDS Integers, Sequences, FiniteSets, SdhciTimeout

CONSTANTS
  Boards,       (* records: dma ("adma", "sdma" or "none", the flags of the
                   host), bounce (size of the bounce buffer or 0), split
                   (ops->adma_write_desc of cv181x), end_in_last, mask32,
                   no_hw_timeout (quirks), auto12, auto23, timeout_clk (kHz),
                   clock, limit (the largest transfer it is asked for)      *)
  Cmds,         (* records: kind ("data", "busy" or "other"), and for data
                   dir, addr, blksz, blocks, multi, sdio, sbc, stop         *)
  Heaps         (* where buffers that the port realigns may begin           *)

MaxReqSize == 524288                       \* mmc->max_req_size

\* What a host and a request of the upper layer are: numbers of bytes, blocks,
\* ns, cycles and Hz; no request is larger than the host allows.
ASSUME TransferAssumption ==
  /\ \A b \in Boards :
       /\ b.dma \in {"adma", "sdma", "none"} /\ b.bounce \in Nat
       /\ b.limit \in 0 .. MaxReqSize
       /\ b.clock \in Nat /\ b.clock >= 1000 /\ b.timeout_clk \in Nat \ {0}
       /\ b.auto12 \in BOOLEAN /\ b.auto23 \in BOOLEAN
       /\ b.split \in BOOLEAN /\ b.end_in_last \in BOOLEAN
  /\ \A c \in Cmds :
       /\ c.kind \in {"data", "busy", "other"}
       /\ c.kind = "busy" => c.busy_timeout \in Nat
       /\ c.kind = "data" =>
            /\ c.blksz \in Nat \ {0} /\ c.blocks \in Nat \ {0}
            /\ c.addr \in Nat
            /\ c.timeout_ns \in Nat /\ c.timeout_clks \in Nat
            /\ c.sbc \in BOOLEAN /\ c.stop \in BOOLEAN
            /\ c.multi \in BOOLEAN /\ c.sdio \in BOOLEAN
  /\ Heaps \subseteq Nat

VARIABLES board, cmd, sgl, host, reg, table, slots, moved, pos, pc

vars == <<board, cmd, sgl, host, reg, table, slots, moved, pos, pc>>

SegSize == 65536                           \* SZ_64K
CacheLine == 64                            \* SDHCI_CPU_CACHELINE_SIZE
AdmaAlign == 4                             \* SDHCI_ADMA2_ALIGN
BoundarySize == 524288                     \* SDHCI_DEFAULT_BOUNDARY_SIZE
Sz128M == 134217728
MaxSegs == 128                             \* SDHCI_MAX_SEGS
TableCnt == 2 * MaxSegs + 1                \* host->adma_table_cnt

\* The align buffer, far from all data.
SlotBase == 1073741824
Slots == SlotBase .. SlotBase + MaxSegs * AdmaAlign - 1

Idle == pc = "idle"
Length(c) == c.blksz * c.blocks
LesserOf(a, b) == IF a < b THEN a ELSE b

-----------------------------------------------------------------------------
(* The scatterlist *)

\* _sg_init: segments of 64 KiB.  home is where the caller has them.
SgInit(c) ==
  LET seg(i) == c.addr + (i - 1) * SegSize
  IN  [i \in 1 .. DivUp(Length(c), SegSize) |->
         [addr |-> seg(i), home |-> seg(i),
          len |-> LesserOf(SegSize, Length(c) - (i - 1) * SegSize)]]

\* __map_sg: reads into parts of cache lines get buffers of their own.
\* External: the buffers lie apart from one another, anywhere.
Misaligned(s) == s.len < CacheLine \/ s.addr % CacheLine # 0
MapSg(list, c, heap) ==
  [i \in DOMAIN list |->
     IF c.dir = "read" /\ Misaligned(list[i])
       THEN [list[i] EXCEPT !.addr = heap + (i - 1) * (SegSize + CacheLine)]
       ELSE list[i]]

\* The caller's buffer, the buffers of the port and the align buffer are
\* different allocations.
ASSUME BufferAssumption ==
  LET Apart(a, m, b, n) == a + m <= b \/ b + n <= a
      heapsize(c) == DivUp(Length(c), SegSize) * (SegSize + CacheLine)
  IN  \A c \in {c \in Cmds : c.kind = "data"} :
        /\ Apart(c.addr, Length(c), SlotBase, MaxSegs * AdmaAlign)
        /\ \A heap \in Heaps :
             /\ Apart(heap, heapsize(c), SlotBase, MaxSegs * AdmaAlign)
             /\ c.dir = "read" => Apart(c.addr, Length(c), heap, heapsize(c))

-----------------------------------------------------------------------------
(* The ADMA2 table *)

\* sdhci_adma_write_desc: the length field has sixteen bits; 0 is 65536.
Desc(addr, len) == <<[kind |-> "tran", addr |-> addr, len |-> len % 65536]>>
EndDesc == <<[kind |-> "end", addr |-> 0, len |-> 0]>>

\* Mutant: the boundary is looked for one byte too far.
WriteDescLate(b, addr, len) ==
  LET last == addr + len
      first_len == Sz128M - (addr % Sz128M)
  IN  IF ~b.split \/ len = 0 \/ addr \div Sz128M = (last - 2) \div Sz128M
        THEN Desc(addr, len)
        ELSE Desc(addr, first_len) \o Desc(addr + first_len, len - first_len)

\* Mutant: the part behind the boundary is forgotten.
WriteDescFirst(b, addr, len) ==
  LET first_len == Sz128M - (addr % Sz128M)
  IN  IF ~b.split \/ len = 0 \/ len <= first_len
        THEN Desc(addr, len)
        ELSE Desc(addr, first_len)

\* cvi_adma_write_desc splits what crosses a boundary of 128 MB.
WriteDesc(b, addr, len) ==
  LET last == addr + len - 1
      first_len == Sz128M - (addr % Sz128M)
  IN  IF ~b.split \/ len = 0 \/ addr \div Sz128M = last \div Sz128M
        THEN Desc(addr, len)
        ELSE Desc(addr, first_len) \o Desc(addr + first_len, len - first_len)

\* Bytes of a segment that come before the first aligned address.
HeadLen(s) == (AdmaAlign - (s.addr % AdmaAlign)) % AdmaAlign

\* Mutant: the rest of a segment begins where the segment does.
DescsOverlap(b, s, slot) ==
  (IF HeadLen(s) = 0 THEN <<>> ELSE WriteDesc(b, slot, HeadLen(s)))
    \o (IF s.len = HeadLen(s) THEN <<>>
        ELSE WriteDesc(b, s.addr, s.len - HeadLen(s)))

\* One turn of the loop of sdhci_adma_table_pre: the head goes through the
\* align buffer.
Descs(b, s, slot) ==
  (IF HeadLen(s) = 0 THEN <<>> ELSE WriteDesc(b, slot, HeadLen(s)))
    \o (IF s.len = HeadLen(s) THEN <<>>
        ELSE WriteDesc(b, s.addr + HeadLen(s), s.len - HeadLen(s)))

SlotAddr(n) == SlotBase + n * AdmaAlign

\* The table is closed by an entry of its own or by a bit of the last one.
Close(b, t) ==
  IF ~b.end_in_last THEN t \o EndDesc
  ELSE IF t = <<>> THEN t
  ELSE [t EXCEPT ![Len(t)].kind = "tran_end"]

-----------------------------------------------------------------------------
(* Registers *)

\* sdhci_prepare_data: some controllers transfer only whole words.
Words(list) ==
  \A i \in DOMAIN list : list[i].len % 4 = 0 /\ list[i].addr % 4 = 0
BounceFits(b, c) == b.bounce = 0 \/ Length(c) <= b.bounce
UseDma(b, list) == b.dma # "none" /\ (b.mask32 => Words(list))

\* Mutant: interrupts of DMA stay enabled for PIO.
TransferIrqsKept(h, dma) == [h EXCEPT !.dma_irqs = @ \/ dma, !.pio_irqs = ~dma]

\* sdhci_set_transfer_irqs
TransferIrqs(h, dma) == [h EXCEPT !.dma_irqs = dma, !.pio_irqs = ~dma]

Auto12(b, c) == ~c.sbc /\ b.auto12
Auto23(b, c) == c.sbc /\ b.auto23
Many(c) == c.multi \/ c.blocks > 1

\* Mutant: automatic CMD12 is also chosen after CMD23.
AutoCmdAlways(b, c) ==
  IF ~Many(c) THEN "none"
  ELSE IF b.auto12 /\ ~c.sdio THEN "cmd12"
  ELSE IF Auto23(b, c) THEN "cmd23" ELSE "none"

\* sdhci_auto_cmd_select
AutoCmd(b, c) ==
  IF ~Many(c) THEN "none"
  ELSE IF Auto12(b, c) /\ ~c.sdio THEN "cmd12"
  ELSE IF Auto23(b, c) THEN "cmd23" ELSE "none"

Mode(c, dma, auto) ==
  [multi |-> Many(c), auto |-> auto, read |-> c.dir = "read", dma |-> dma]

\* __sdhci_finish_data: the driver sends CMD12 itself.
SendsStop(b, c, error) == c.stop /\ ((~c.sbc /\ ~Auto12(b, c)) \/ error)

-----------------------------------------------------------------------------
(* One command *)

Fits(c) == c.kind # "data" \/ Length(c) <= board.limit

\* _mmc_request and the first part of sdhci_send_command
Submit ==
  /\ Idle
  /\ \E c \in {c \in Cmds : Fits(c)}, heap \in Heaps :
       /\ cmd' = c
       /\ sgl' = IF c.kind = "data" THEN MapSg(SgInit(c), c, heap) ELSE <<>>
  /\ host' = [host EXCEPT !.data_timeout = 0]
  /\ pc' = IF cmd'.kind = "other" THEN "mode" ELSE "timeout"
  /\ moved' = <<>> /\ pos' = 0
  /\ UNCHANGED <<board, reg, table, slots>>

\* Mutant: the interrupt is not enabled again.
SetTimeoutOnce ==
  LET t == CalcTimeout(board, cmd)
      software == t.too_big /\ board.no_hw_timeout
  IN  /\ pc = "timeout"
      /\ host' = [host EXCEPT
           !.timeout_irq = @ /\ ~software,
           !.data_timeout = IF software THEN SwTimeout(board, cmd) ELSE @]
      /\ reg' = [reg EXCEPT !.timeout = t.count]
      /\ pc' = IF cmd.kind = "data" THEN "prepare" ELSE "mode"
      /\ UNCHANGED <<board, cmd, sgl, table, slots, moved, pos>>

\* __sdhci_set_timeout: a timeout that is too long for the controller is left
\* to the software timer if the controller's interrupt would come too early.
SetTimeout ==
  LET t == CalcTimeout(board, cmd)
      software == t.too_big /\ board.no_hw_timeout
  IN  /\ pc = "timeout"
      /\ host' = [host EXCEPT
           !.timeout_irq = ~software,
           !.data_timeout = IF software THEN SwTimeout(board, cmd) ELSE @]
      /\ reg' = [reg EXCEPT !.timeout = t.count]
      /\ pc' = IF cmd.kind = "data" THEN "prepare" ELSE "mode"
      /\ UNCHANGED <<board, cmd, sgl, table, slots, moved, pos>>

\* Mutant: the bytes of the last request are still counted.
PrepareDataKeepsXfered ==
  LET dma == UseDma(board, sgl)
      mapped == dma /\ BounceFits(board, cmd)
      sdma == mapped /\ board.dma = "sdma"
      sg_cnt == IF board.bounce = 0 THEN Len(sgl) ELSE 1
  IN  /\ pc = "prepare"
      /\ host' = [host EXCEPT !.req_use_dma = mapped,
                    !.warn = @ \/ (dma /\ ~mapped) \/ (sdma /\ sg_cnt # 1)]
      /\ reg' = IF ~sdma THEN reg
                ELSE [reg EXCEPT !.sdma_addr =
                        IF board.bounce = 0 THEN sgl[1].addr ELSE 0]
      /\ table' = <<>> /\ slots' = <<>>
      /\ pc' = IF mapped /\ board.dma = "adma" THEN "table" ELSE "select"
      /\ UNCHANGED <<board, cmd, sgl, moved, pos>>

\* sdhci_prepare_data up to the table, with sdhci_pre_dma_transfer.
\* SDHCI_REQ_USE_DMA is set for every request where the host has DMA.
PrepareData ==
  LET dma == UseDma(board, sgl)
      mapped == dma /\ BounceFits(board, cmd)
      sdma == mapped /\ board.dma = "sdma"
      sg_cnt == IF board.bounce = 0 THEN Len(sgl) ELSE 1
  IN  /\ pc = "prepare"
      /\ host' = [host EXCEPT !.xfered = 0, !.req_use_dma = mapped,
                    !.warn = @ \/ (dma /\ ~mapped) \/ (sdma /\ sg_cnt # 1)]
      /\ reg' = IF ~sdma THEN reg
                ELSE [reg EXCEPT !.sdma_addr =
                        IF board.bounce = 0 THEN sgl[1].addr ELSE 0]
      /\ table' = <<>> /\ slots' = <<>>
      /\ pc' = IF mapped /\ board.dma = "adma" THEN "table" ELSE "select"
      /\ UNCHANGED <<board, cmd, sgl, moved, pos>>

\* sdhci_adma_table_pre
BuildTable ==
  LET heads == {i \in DOMAIN sgl : HeadLen(sgl[i]) # 0}
      \* segments before the i-th that took a slot
      used(i) == Cardinality({j \in heads : j < i})
      part(i) == Descs(board, sgl[i], SlotAddr(used(i)))
      upto[i \in 0 .. Len(sgl)] ==
        IF i = 0 THEN <<>> ELSE upto[i - 1] \o part(i)
  IN  /\ pc = "table"
      /\ table' = Close(board, upto[Len(sgl)])
      /\ slots' = [k \in 1 .. Cardinality(heads) |->
                     sgl[CHOOSE i \in heads : used(i) = k - 1].addr]
      /\ pc' = "select"
      /\ UNCHANGED <<board, cmd, sgl, host, reg, moved, pos>>

\* sdhci_config_dma, sdhci_set_transfer_irqs and sdhci_set_block_info
SelectDma ==
  /\ pc = "select"
  /\ reg' = [reg EXCEPT
       !.select = IF host.req_use_dma /\ board.dma = "adma" THEN "adma"
                                                           ELSE "sdma",
       !.blksz = cmd.blksz, !.count = cmd.blocks]
  /\ host' = TransferIrqs(host, host.req_use_dma)
  /\ pc' = "mode"
  /\ UNCHANGED <<board, cmd, sgl, table, slots, moved, pos>>

\* sdhci_set_transfer_mode, no automatic command without data, and the rest of
\* sdhci_send_command, which sets the software timer.
SetMode ==
  /\ pc = "mode"
  /\ host' = [host EXCEPT !.timer = TimerOf(host.data_timeout, cmd)]
  /\ reg' = [reg EXCEPT !.mode =
       IF cmd.kind = "data"
         THEN Mode(cmd, host.req_use_dma, AutoCmd(board, cmd))
         ELSE [@ EXCEPT !.auto = "none"]]
  /\ pc' = IF cmd.kind # "data" THEN "idle"
           ELSE IF host.req_use_dma THEN "run" ELSE "pio"
  /\ UNCHANGED <<board, cmd, sgl, table, slots, moved, pos>>

-----------------------------------------------------------------------------
(* The controller at work *)

Total == Length(cmd)

\* External: the controller moves a piece of the data.
Move(addr, len) ==
  LET n == LesserOf(len, Total - pos)
  IN  /\ moved' = Append(moved, [at |-> pos, addr |-> addr, len |-> n])
      /\ pos' = pos + n

\* External: the next descriptor.  The controller has done as many as it
\* has moved pieces.
AdmaMoves ==
  LET next == Len(moved) + 1
  IN  /\ pc = "run" /\ reg.select = "adma" /\ pos < Total
      /\ next <= Len(table) /\ table[next].kind # "end"
      /\ Move(table[next].addr,
              IF table[next].len = 0 THEN 65536 ELSE table[next].len)
      /\ pc' = IF pos' = Total THEN "end" ELSE "run"
      /\ UNCHANGED <<board, cmd, sgl, host, reg, table, slots>>

\* External: SDMA goes on to the next boundary, where it stops for the driver.
\* At the end of the data it need not tell of a boundary.
SdmaMoves ==
  LET n == BoundarySize - (reg.sdma_addr % BoundarySize)
  IN  /\ pc = "run" /\ reg.select = "sdma" /\ pos < Total
      /\ Move(reg.sdma_addr, n)
      /\ pc' \in IF pos' < Total THEN {"boundary"}
                 ELSE IF n = Total - pos THEN {"boundary", "end"} ELSE {"end"}
      /\ UNCHANGED <<board, cmd, sgl, host, reg, table, slots>>

\* Mutant: the controller is not started again.
DmaEndNoRestart ==
  /\ pc = "boundary"
  /\ pc' = IF pos = Total THEN "end" ELSE "boundary"
  /\ UNCHANGED <<board, cmd, sgl, host, reg, table, slots, moved, pos>>

\* sdhci_data_irq with SDHCI_INT_DMA_END: on from the next boundary.
DmaEnd ==
  LET start == IF board.bounce = 0 THEN sgl[1].addr ELSE 0
      at == start + host.xfered
      now == at - (at % BoundarySize) + BoundarySize
  IN  /\ pc = "boundary"
      /\ host' = [host EXCEPT !.xfered = now - start]
      /\ reg' = [reg EXCEPT !.sdma_addr = now]
      /\ pc' = IF pos = Total THEN "end" ELSE "run"
      /\ UNCHANGED <<board, cmd, sgl, table, slots, moved, pos>>

\* The transfer is over (SDHCI_INT_DATA_END): __sdhci_finish_data.  The buffers
\* are unmapped and a realigned read is copied to its home.
DataEnd ==
  /\ pc = "end"
  /\ host' = [host EXCEPT !.xfered = Total]
  /\ pc' = "idle"
  /\ UNCHANGED <<board, cmd, sgl, reg, table, slots, moved, pos>>

\* A data error, or the ADMA error of a table that ends before the data.
DataError ==
  /\ pc \in {"run", "end"}
  /\ host' = [host EXCEPT !.xfered = 0]
  /\ pc' = "idle"
  /\ UNCHANGED <<board, cmd, sgl, reg, table, slots, moved, pos>>

\* sdhci_read_block_pio and sdhci_write_block_pio: sg_miter_next of this port
\* is a stub, sg_miter.length stays 0, and the loop over a block never ends.
PioBlock ==
  /\ pc = "pio" /\ host.pio_irqs
  /\ pc' = "looping"
  /\ UNCHANGED <<board, cmd, sgl, host, reg, table, slots, moved, pos>>

Init ==
  /\ board \in Boards
  /\ cmd = [kind |-> "other"]
  /\ sgl = <<>>
  /\ host = [req_use_dma |-> FALSE, dma_irqs |-> FALSE, pio_irqs |-> FALSE,
             timeout_irq |-> TRUE, data_timeout |-> 0, timer |-> 0,
             xfered |-> 0, warn |-> FALSE]
  /\ reg = [select |-> "sdma", sdma_addr |-> 0, blksz |-> 0, count |-> 0,
            timeout |-> 0,
            mode |-> [multi |-> FALSE, auto |-> "none", read |-> FALSE,
                      dma |-> FALSE]]
  /\ table = <<>> /\ slots = <<>> /\ moved = <<>>
  /\ pos = 0
  /\ pc = "idle"

Driver == SetTimeout \/ PrepareData \/ BuildTable \/ SelectDma \/ SetMode
            \/ DmaEnd \/ DataEnd \/ PioBlock
Controller == AdmaMoves \/ SdmaMoves

Next == Submit \/ Driver \/ Controller \/ DataError

Spec == Init /\ [][Next]_vars

\* The driver goes on, and a controller with work to do does it.
FairSpec == Spec /\ WF_vars(Driver) /\ WF_vars(Controller)

-----------------------------------------------------------------------------
(* Properties *)

Running == pc \in {"run", "boundary", "end"}

\* Where the caller has the byte the controller has at an address: the slots
\* of the align buffer stand for the heads of their segments, and realigned
\* buffers for the caller's.
InSegment(s, addr) == s.addr <= addr /\ addr < s.addr + s.len
Unslot(addr) ==
  IF addr \in Slots /\ (addr - SlotBase) \div AdmaAlign < Len(slots)
    THEN slots[(addr - SlotBase) \div AdmaAlign + 1]
           + ((addr - SlotBase) % AdmaAlign)
    ELSE addr
HomeOf(addr) ==
  LET at == Unslot(addr)
      within == {i \in DOMAIN sgl : InSegment(sgl[i], at)}
  IN  {sgl[i].home + (at - sgl[i].addr) : i \in within}

\* Types of the variables.
TypeOK ==
  /\ board \in Boards /\ cmd \in Cmds \cup {[kind |-> "other"]}
  /\ pos \in 0 .. MaxReqSize
  /\ pc \in {"idle", "timeout", "prepare", "table", "select", "mode", "run",
             "boundary", "end", "pio", "looping"}
  /\ reg.select \in {"adma", "sdma"} /\ reg.timeout \in 0 .. MaxCount
  /\ reg.mode.auto \in {"none", "cmd12", "cmd23"}
  /\ host.xfered \in Nat /\ host.data_timeout \in Nat

\* The controller moves each part of the data from or to where the caller has
\* it: first and last byte of every piece have their place in the buffer
\* (sdhci_adma_table_pre, cvi_adma_write_desc, the restart at an SDMA
\* boundary, __map_sg).  The bounce buffer is left to its own observation, and
\* so is a write that ends before its first aligned address.
TooShort(c) == \E i \in DOMAIN sgl : sgl[i].len < HeadLen(sgl[i])
Placed ==
  (Running /\ board.bounce = 0 /\ ~TooShort(cmd)) =>
    \A k \in DOMAIN moved :
      /\ HomeOf(moved[k].addr) = {cmd.addr + moved[k].at}
      /\ HomeOf(moved[k].addr + moved[k].len - 1)
           = {cmd.addr + moved[k].at + moved[k].len - 1}

\* A transfer that ends well has moved all of its data: the table does not end
\* before the data do.
Complete ==
  (Running /\ reg.select = "adma" /\ reg.mode.dma /\ pos < Total)
     => Len(moved) < Len(table) /\ table[Len(moved) + 1].kind # "end"

\* Every descriptor is one that the controller can follow: its address is
\* aligned, on cv181x it lies within 128 MB, the last one and only it ends the
\* table, and table and slots fit their buffers (sdhci.c:758).
WellFormed ==
  (Running /\ reg.select = "adma" /\ ~TooShort(cmd)) =>
    /\ Len(table) <= TableCnt /\ Len(slots) <= MaxSegs
    /\ \A k \in DOMAIN table :
         LET d == table[k]
             len == IF d.len = 0 THEN 65536 ELSE d.len
         IN  /\ (d.kind = "tran") <=> (k < Len(table))
             /\ d.kind # "end" =>
                  /\ d.addr % AdmaAlign = 0
                  /\ board.split =>
                       d.addr \div Sz128M = (d.addr + len - 1) \div Sz128M

\* The registers agree on how the data are transferred, whatever the commands
\* before left in them (sdhci_config_dma, sdhci_set_transfer_irqs,
\* sdhci_set_transfer_mode).
Agreed ==
  (Running \/ pc = "pio") =>
    /\ reg.mode.dma = Running
    /\ host.dma_irqs = Running /\ host.pio_irqs = ~Running
    /\ (reg.select = "adma") <=> (Running /\ board.dma = "adma")
    /\ reg.blksz * reg.count = Total

\* Longer than the controller can count, or not said at all.
TooLong(c) ==
  \/ c.kind = "busy" /\ c.busy_timeout = 0
  \/ TargetTimeout(c, board.clock) > Period(board.timeout_clk, MaxCount)

\* No command that uses the data line is given up before the time it asks for,
\* as far as the driver can help it, and whatever the commands before left in
\* registers and flags.  The controller's timeout is enabled and long enough.
\* If the command wants more than the controller can count, it has the longest
\* one, or none on boards that say so, and only there is a timeout left to
\* the software timer, which is then due at once (NsecsToJiffies).  Otherwise
\* the software timer does not come too early either: never for a command that
\* keeps the line busy, and for data up to its ten seconds.
Watched ==
  (Running \/ pc = "pio" \/ (Idle /\ cmd.kind = "busy")) =>
    /\ \/ /\ host.timeout_irq
          /\ Period(board.timeout_clk, reg.timeout)
               >= TargetTimeout(cmd, board.clock)
       \/ /\ TooLong(cmd) /\ reg.timeout = MaxCount
          /\ host.timeout_irq \/ board.no_hw_timeout
    /\ IF host.data_timeout # 0 THEN TooLong(cmd) /\ board.no_hw_timeout
       ELSE cmd.kind = "busy" \/ TargetTimeout(cmd, board.clock) <= 10 * Second
              => host.timer >= TargetTimeout(cmd, board.clock)

\* A transfer of many blocks that ends well is ended in one way: by CMD23
\* before it, sent by the driver or the controller, or by CMD12 after it
\* (sdhci.c:1381, __sdhci_finish_data).
EndedOnce ==
  (Running /\ Many(cmd) /\ (cmd.sbc \/ cmd.stop) /\ ~cmd.sdio) =>
    Cardinality({w \in {"cmd23", "auto23", "cmd12", "auto12"} :
      CASE w = "cmd23" -> cmd.sbc /\ ~Auto23(board, cmd)
        [] w = "auto23" -> reg.mode.auto = "cmd23"
        [] w = "cmd12" -> SendsStop(board, cmd, FALSE)
        [] OTHER -> reg.mode.auto = "cmd12"}) = 1

\* While SDMA is on its way the driver never believes it to be elsewhere than
\* it is (sdhci_data_irq).
Counted ==
  (pc = "run" /\ reg.select = "sdma" /\ pos > 0) => host.xfered = pos

\* With DMA every command comes to its end: no table and no boundary stops
\* the controller for good.
Ends == Running ~> Idle

\* The warnings of sdhci_prepare_data: a buffer that cannot be mapped, and
\* more than one segment for SDMA.
NoWarning == ~host.warn

=============================================================================
