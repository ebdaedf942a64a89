-------------------------- MODULE MCSdhciTransfer --------------------------
(***************************************************************************)
(* Instances of SdhciTransfer for TLC.                                     *)
(***************************************************************************)
EXTENDS SdhciTransfer

Cv == [dma |-> "adma", bounce |-> 0, split |-> TRUE, end_in_last |-> FALSE,
       mask32 |-> FALSE, no_hw_timeout |-> FALSE, auto12 |-> FALSE,
       auto23 |-> TRUE, timeout_clk |-> 1000, clock |-> 200000000,
       limit |-> 524288]

\* no table of its own end, whole words only, CMD12 sent by the controller,
\* and a timeout counter too short for long commands
Quirky == [Cv EXCEPT !.split = FALSE, !.end_in_last = TRUE, !.mask32 = TRUE,
             !.no_hw_timeout = TRUE, !.auto12 = TRUE, !.auto23 = FALSE,
             !.timeout_clk = 63000, !.clock = 400000]

\* one segment at a time
Single == [Cv EXCEPT !.dma = "sdma", !.split = FALSE, !.auto12 = TRUE,
             !.limit = 65536]
NoDma == [Cv EXCEPT !.dma = "none"]

\* no memory for the ADMA table, but for a bounce buffer
Bounced == [Cv EXCEPT !.dma = "sdma", !.bounce = 65536]

AllBoards == {Cv, Quirky, Single, NoDma}
BouncedBoard == {Bounced}

Data(dir, addr, blksz, blocks) ==
  [kind |-> "data", dir |-> dir, addr |-> addr, blksz |-> blksz,
   blocks |-> blocks, multi |-> blocks > 1, sdio |-> FALSE, sbc |-> FALSE,
   stop |-> blocks > 1, timeout_ns |-> 100000000, timeout_clks |-> 100]

\* three odd segments about 128 MB, an even one, and whole cache lines
OddWrite == Data("write", Sz128M - 65535, 512, 300)
Write == Data("write", 4096, 512, 1)
Read == [Data("read", Sz128M - 131136, 512, 1024) EXCEPT !.sbc = TRUE]
\* realigned reads of three segments and of a few bytes
OddRead == [Data("read", 5001, 512, 300) EXCEPT !.stop = FALSE, !.sbc = TRUE]
FewRead == [Data("read", 7000, 8, 1) EXCEPT !.sdio = TRUE]
\* about an SDMA boundary, and up to one
Across == Data("write", 3 * BoundarySize - 1024, 512, 64)
UpTo == Data("write", 3 * BoundarySize - 1024, 512, 2)
\* a write of two bytes that ends before its first aligned address, and one
\* that ends after it, of many blocks without an end
Short == [Data("write", 8193, 2, 1) EXCEPT !.sdio = TRUE]
Blocks == [Data("write", 8195, 2, 3) EXCEPT !.sdio = TRUE, !.multi = FALSE,
             !.stop = FALSE]
\* a card that takes its time
Slow == [Data("write", 4096, 512, 1) EXCEPT !.timeout_ns = 2000000000,
           !.timeout_clks = 200000]
Busy(ms) == [kind |-> "busy", busy_timeout |-> ms]

AllCmds ==
  {OddWrite, Write, Read, OddRead, FewRead, Across, UpTo, Short, Blocks, Slow,
   Busy(0), Busy(500), Busy(20000), [kind |-> "other"]}
BigRead == {Read}

AllHeaps == {2 * Sz128M - 128, 1048576}
OneHeap == {1048576}

=============================================================================
