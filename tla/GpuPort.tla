------------------------------- MODULE GpuPort -------------------------------
(* The GPU as the machine sees it (gpu.rs): its command FIFO, the time commands *)
(* take and its frames.                                                        *)
EXTENDS Sync, GpuCommands, SequencesExt

CONSTANT FifoSize   \* of the command FIFO, and of the buffer of the DMA

\* FRAME_CYCLES_30FPS, of which each program tries a length.
FrameCycles(m) == m.program.frame

IsFull(m) == Len(m.gpu.fifo) = FifoSize

\* Commands are executed for as long as none is being executed.
ExecuteNext(g) ==
  IF g.remaining > 0 THEN g
  ELSE HandleCommand([g EXCEPT !.remaining = @ + 1, !.fifo = Tail(@)], Head(g.fifo))
Execute(gpu) ==
  LET words == Len(gpu.fifo)
      after[n \in 0 .. words] == IF n = 0 THEN gpu ELSE ExecuteNext(after[n - 1])
  IN  after[words]

\* Mutant: the counter is not reloaded by the frame that ends.
FrameNoReload(m) ==
  IF m.gpu.frame > 0 THEN m
  ELSE RaiseIrq([m EXCEPT !.frameDone = TRUE, !.frames = @ + 1, !.gpu = Flush(@)], "VSync")

\* A frame ends: run_frame returns after this.
Frame(m) ==
  IF m.gpu.frame > 0 THEN m
  ELSE RaiseIrq([m EXCEPT !.frameDone = TRUE, !.frames = @ + 1,
                          !.gpu = [Flush(m.gpu) EXCEPT !.frame = @ + FrameCycles(m)]], "VSync")

\* The GPU executes for the given cycles, which the counters lose.
ExecuteFor(gpu, elapsed) == Execute([gpu EXCEPT !.frame = @ - elapsed, !.remaining = @ - elapsed])

\* A GPU that has nothing left to execute does not save up cycles.
StallOnInput(gpu) == [gpu EXCEPT !.remaining = Max({0, @})]

PlanFrame(m) == NextEvent(m, "Gpu", m.gpu.frame)

\* run
GpuRun(m) ==
  PlanFrame(Frame([Resync(m, "Gpu") EXCEPT !.gpu = StallOnInput(ExecuteFor(@, Elapsed(m, "Gpu")))]))

\* store_word: a word for a full FIFO is dropped.
PushCommand(m, cmd) == IF IsFull(m) THEN m ELSE [m EXCEPT !.gpu.fifo = Append(@, cmd)]
GpuStore(m, cmd) == PushCommand(GpuRun(m), cmd)
=============================================================================
