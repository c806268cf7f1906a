--------------------------------- MODULE Dma ---------------------------------
(* The DMA controller of the emulator (dma.rs).  todo holds the words src    *)
(* points to and that are not read yet, rem_words of them, asked and         *)
(* delivered, history variables, all those of the last transfer and the ones *)
(* that reached dst.                                                         *)
EXTENDS GpuPort

CONSTANTS
  DmaStart,    \* delay of the first run of a transfer
  DmaPoll,     \* delay after a run that ended for lack of cycles
  RomCost      \* cycles to read a word of the cartridge; one of RAM takes one

IsRunning(m) == m.dma.todo # <<>> \/ m.dma.buf # <<>>

WordCost(m) == IF m.dma.src = "ROM" THEN RomCost ELSE 1

\* What run_dma_cycles does in the end when every word it can read in the given
\* cycles also finds room: it stalls on input, or is done.
Deliver(m, words, cycles) ==
  Rewind([m EXCEPT !.dma.buf = <<>>,
                   !.dma.todo = SubSeq(@, words - Len(m.dma.buf) + 1, Len(@)),
                   !.delivered = @ \o SubSeq(m.dma.buf \o m.dma.todo, 1, words),
                   !.gpu.fifo = IF m.dma.dst = "GPU"
                                THEN @ \o SubSeq(m.dma.buf \o m.dma.todo, 1, words) ELSE @],
         "Dma", cycles - WordCost(m) * (words - Len(m.dma.buf)))

\* ... and when the command FIFO only takes room of them: the buffer is filled
\* again and the DMA stalls on output, for a time that must not be zero.
Stall(m, words, room) ==
  LET line == m.dma.buf \o m.dma.todo
      held == Min({words - room, FifoSize})
  IN  [m EXCEPT !.gpu.fifo = @ \o SubSeq(line, 1, room),
                !.delivered = @ \o SubSeq(line, 1, room),
                !.dma.buf = SubSeq(line, room + 1, room + held),
                !.dma.todo = SubSeq(line, room + held + 1, Len(line)),
                !.panicked = m.gpu.remaining <= 0]

\* run_dma_cycles, once the GPU has been run
Transfer(m, cycles) ==
  LET words == Len(m.dma.buf) + Min({Len(m.dma.todo), cycles \div WordCost(m)})
      room == IF m.dma.dst = "GPU" THEN FifoSize - Len(m.gpu.fifo) ELSE words
  IN  IF words <= room THEN [m |-> Deliver(m, words, cycles), delay |-> DmaPoll]
      ELSE [m |-> Stall(m, words, room), delay |-> m.gpu.remaining]

RunDmaCycles(m, cycles) == Transfer(IF m.dma.dst = "GPU" THEN GpuRun(m) ELSE m, cycles)

EndTransfer(m) == NextEvent(RaiseIrq([m EXCEPT !.done = @ + 1], "DmaDone"), "Dma", CpuFreq)

\* Mutant: the end of the transfer is when the last word has been read.
PlanEndsOnRead(r) == IF r.m.dma.todo # <<>> THEN NextEvent(r.m, "Dma", r.delay) ELSE EndTransfer(r.m)

\* The transfer goes on after a delay, or has ended; done counts the interrupts of the last one.
Plan(r) == IF IsRunning(r.m) THEN NextEvent(r.m, "Dma", r.delay) ELSE EndTransfer(r.m)

\* run
DmaIdle(m) == NextEvent(Resync(m, "Dma"), "Dma", CpuFreq)
DmaRun(m) ==
  IF IsRunning(m) THEN Plan(RunDmaCycles(DmaIdle(m), Elapsed(m, "Dma"))) ELSE DmaIdle(m)

\* store_word
DmaStoreSrc(m, src) == [DmaRun(m) EXCEPT !.dma.src = src]
DmaStoreDst(m, dst) == [DmaRun(m) EXCEPT !.dma.dst = dst]

DmaStoreLen(m, words) ==
  NextEvent([DmaRun(m) EXCEPT !.dma.todo = words, !.dma.buf = <<>>,
                              !.asked = words, !.delivered = <<>>, !.done = 0],
            "Dma", IF words = <<>> THEN CpuFreq ELSE DmaStart)
=============================================================================
