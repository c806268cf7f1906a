------------------------------- MODULE Machine -------------------------------
(***************************************************************************)
(* The emulated machine (lib.rs run_frame, sync.rs handle_events): a       *)
(* processor whose instructions take time and reach the devices, devices   *)
(* that only run when they are reached or when an event is due, and a      *)
(* cycle counter that is rewound to each event and rebased at each frame.  *)
(***************************************************************************)
EXTENDS SysTimer, Dma, InputPort, Spu, TLC

CONSTANTS
  AudioDiv,   \* AUDIO_DIVIDER, cycles per audio sample
  Ticks,      \* cycles an instruction may have taken when it reaches a device
  Programs,   \* the kinds of instruction they execute, until when, what they draw, and the frame's length
  Buffers,    \* the contents of the memory that the DMA transfers
  Commands,   \* the words the program writes to the GPU
  Bytes       \* the bytes it writes to the input port

ASSUME MachineAssumption ==
  /\ Ticks \subseteq Nat \ {0} /\ \E t \in Ticks : \A u \in Ticks : u <= t
  /\ {CpuFreq, ClkDiv, AudioDiv, DmaStart, DmaPoll, RomCost, ByteTime, FifoSize} \subseteq Nat \ {0}
  /\ ClkDiv <= CpuFreq /\ AudioDiv <= CpuFreq /\ RomCost <= DmaStart /\ RomCost <= DmaPoll
  /\ \A p \in Programs : p.until \in Nat /\ p.frame \in Nat \ {0}   \* bound: no instruction begins at until
  \* No instruction takes as long as a frame, nor, with the longest delay of a transfer, a second.
  /\ \A t \in Ticks :
       /\ \A p \in Programs : t <= p.frame
       /\ \A d \in {DmaStart, DmaPoll, 1 + TriangleCycles, 1 + MultiplyCycles, 1 + EndCycles} :
            d + t <= CpuFreq
  /\ \A p \in Programs :
       Len(p.stores) \in Nat /\ \A i \in 1 .. Len(p.stores) : IsStore(p.stores[i])
  /\ Word \in Nat \ {0, 1} /\ 0 \in Matrices
  /\ \A words \in Buffers : words \in Seq(Range(words))   \* they are sequences
  /\ BlockSize \in Nat \ {0} /\ Queue \in Nat /\ Ahead \in 4 .. Queue - 3
  /\ {MaxMatrices, MaxTriangles, TriangleCycles, MultiplyCycles, EndCycles} \subseteq Nat \ {0}

VARIABLE m

\* The date, in cycles since the start.
Clock == m.base + m.cycle

\* NoRa32::new.  The first event of every device is due at once.
Init ==
  \E p \in Programs :
  m = [ program |-> p, cycle |-> 0, base |-> 0, first |-> 0,
        last |-> [d \in Tokens |-> 0], next |-> [d \in Tokens |-> 0],
        mip |-> {}, mie |-> {}, irqOn |-> FALSE, irqOnPrev |-> FALSE, wfi |-> FALSE,
        unchecked |-> FALSE,
        pending |-> {}, enabled |-> {},
        mtime |-> 0, mtimecmp |-> Word * Word - 1, samples |-> 0,
        gpu |-> NewGpu(p.frame), frames |-> 0, frameDone |-> FALSE,
        dma |-> [src |-> "RAM", dst |-> "RAM", todo |-> <<>>, buf |-> <<>>],
        spu |-> NewSpu(p.ram), sent |-> 0, canWrite |-> FALSE,
        nextReg |-> "SRC", asked |-> <<>>, delivered |-> <<>>, done |-> 0,
        input |-> [tx |-> <<>>, rx |-> <<>>, irq |-> FALSE, div |-> 1, count |-> 0],
        handled |-> FALSE, panicked |-> FALSE ]

-----------------------------------------------------------------------------
(* Instructions.  Each takes some cycles and then has its effect. *)

\* run_frame is at the head of one of its loops.
Running == ~m.panicked /\ ~IsEventPending(m) /\ (m.handled => ~m.frameDone)

After(ticks) == [m EXCEPT !.cycle = @ + ticks, !.handled = FALSE]

Instr(op) ==
  /\ Running /\ ~m.wfi /\ Clock < m.program.until
  /\ op \in m.program.ops /\ (m.nextReg = "SRC" \/ op = "dma")

\* No device is reached.
Compute(t) == Instr("compute") /\ m' = After(t)

\* What csr_and_or may make of mie or of mstatus, from the machine s.
CsrAndOr(s) ==
  {[s EXCEPT !.mie = S] : S \in SUBSET Lines}
  \cup {[s EXCEPT !.irqOn = on[1], !.irqOnPrev = on[2]] : on \in BOOLEAN \X BOOLEAN}

\* CSRRS, CSRRC, CSRRWI and CSRRCI look at the interrupts that they let through; CSRRW does not.
CsrBits(t) == Instr("csr") /\ \E s \in CsrAndOr(After(t)) : m' = CheckForIrq(s)
CsrSet(t) == Instr("csr") /\ \E s \in CsrAndOr(After(t)) : m' = [s EXCEPT !.unchecked = s.irqOn]

Ecall(t) == Instr("trap") /\ m.irqOn /\ m' = TriggerTrap(After(t))

\* Mutant: mret does not look at the interrupts it lets through.
MRetUnchecked(t) ==
  /\ Instr("trap") /\ ~m.irqOn
  /\ m' = SetMpie([After(t) EXCEPT !.irqOn = m.irqOnPrev], TRUE)

MRet(t) ==
  /\ Instr("trap") /\ ~m.irqOn
  /\ m' = CheckForIrq(SetMpie([After(t) EXCEPT !.irqOn = m.irqOnPrev], TRUE))

\* wfi, which the kernel's idle task and nobody else executes, with interrupts on.
Wfi(t) ==
  Instr("wfi") /\ m.irqOn /\ m' = FastForward([After(t) EXCEPT !.wfi = TRUE])

\* Loads and stores that reach a device.
StoreTimer(t) ==
  Instr("timer") /\ \E half \in {"low", "high"}, v \in 0 .. Word - 1 : m' = TimerStore(After(t), half, v)
LoadTimer(t) == Instr("timer") /\ m' = TimerRun(After(t))
StoreIrqAck(t) == Instr("irq") /\ \E S \in SUBSET m.pending : m' = IrqAcknowledge(After(t), S)
StoreIrqEnable(t) == Instr("irq") /\ \E S \in {{}, Interrupts} : m' = IrqEnable(After(t), S)
LoadGpu(t) == Instr("gpu") /\ m' = GpuRun(After(t))
StoreGpu(t) == Instr("gpu") /\ \E c \in Commands : m' = GpuStore(After(t), c)

\* send_to_gpu: the status is read until there is room in the FIFO, then the word is written.
GpuCanWrite(t) ==
  /\ Instr("draw") /\ ~m.canWrite /\ m.sent < Len(m.program.words)
  /\ \E s \in {GpuRun(After(t))} : m' = [s EXCEPT !.canWrite = ~IsFull(s)]
SendToGpu(t) ==
  /\ Instr("draw") /\ m.canWrite
  /\ m' = GpuStore([After(t) EXCEPT !.canWrite = FALSE, !.sent = @ + 1], m.program.words[m.sent + 1])

\* The driver writes SRC, DST and LEN, one after the other, and may do so while a transfer is
\* running: what is left of that one is then read from the new SRC.
StoreDma(reg) == Instr("dma") /\ m.nextReg = reg
StoreDmaSrc(t) ==
  /\ StoreDma("SRC")
  /\ \E src \in {"RAM", "ROM"}, memory \in Buffers :
     \E s \in {DmaStoreSrc(After(t), src)} :
       LET rest == SubSeq(memory, 1, Len(s.dma.todo))
       IN  /\ Len(memory) >= Len(s.dma.todo)
           /\ m' = [s EXCEPT !.nextReg = "DST", !.dma.todo = rest,
                             !.asked = s.delivered \o s.dma.buf \o rest]
StoreDmaDst(t) ==
  /\ StoreDma("DST")
  /\ \E dst \in {"RAM", "GPU"} : m' = [DmaStoreDst(After(t), dst) EXCEPT !.nextReg = "LEN"]
StoreDmaLen(t) ==
  /\ StoreDma("LEN")
  /\ \E words \in Buffers : m' = [DmaStoreLen(After(t), words) EXCEPT !.nextReg = "SRC"]

\* spu::run, which has no events of its own: an audio cycle for each AudioDiv cycles.
SpuCatchUp(s, elapsed) ==
  LET n == elapsed \div AudioDiv
  IN  [ Rewind(Resync(s, "Spu"), "Spu", elapsed % AudioDiv) EXCEPT
          !.samples = @ + n, !.spu = RunAudioCycles(@, n) ]
SpuRun(s) == NextEvent(SpuCatchUp(s, Elapsed(s, "Spu")), "Spu", CpuFreq)

\* store_word
SpuStore(s, w) == [SpuRun(s) EXCEPT !.spu = SpuWrite(@, w, s.base + s.cycle)]

\* The writes of the program to the sound processor, in order.
StoreSpu(t) ==
  /\ Instr("spu") /\ m.sent < Len(m.program.stores)
  /\ m' = SpuStore([After(t) EXCEPT !.sent = @ + 1], m.program.stores[m.sent + 1])

StoreInputConf(t) == Instr("input") /\ m' = InputConf(After(t))
StoreInputTx(t) == Instr("input") /\ m.input.irq /\ \E b \in Bytes : m' = InputTx(After(t), b)
LoadInputRx(t) == Instr("input") /\ m' = InputRx(After(t))

Step ==
  \E t \in Ticks :
    \/ Compute(t) \/ CsrBits(t) \/ CsrSet(t) \/ Ecall(t) \/ MRet(t) \/ Wfi(t)
    \/ StoreTimer(t) \/ LoadTimer(t) \/ StoreIrqAck(t) \/ StoreIrqEnable(t)
    \/ LoadGpu(t) \/ StoreGpu(t) \/ GpuCanWrite(t) \/ SendToGpu(t) \/ StoreSpu(t)
    \/ StoreDmaSrc(t) \/ StoreDmaDst(t) \/ StoreDmaLen(t)
    \/ StoreInputConf(t) \/ StoreInputTx(t) \/ LoadInputRx(t)

-----------------------------------------------------------------------------
(* The rest of run_frame *)

Run(s, who) ==
  CASE who = "SysTimer" -> TimerRun(s)
    [] who = "Gpu" -> GpuRun(s)
    [] who = "Spu" -> SpuRun(s)
    [] who = "InputDev" -> InputRun(s)
    [] who = "Dma" -> DmaRun(s)

\* first_event moves as devices run: one that is not due may be run too.
RunIfDue(s, who) == IF s.first >= s.next[who] THEN Run(s, who) ELSE s

RunDue(s) ==
  RunIfDue(RunIfDue(RunIfDue(RunIfDue(RunIfDue(s, "SysTimer"), "Gpu"), "Spu"), "InputDev"), "Dma")

\* One turn of the loop of handle_events, at the date of the event.
RunEvents(s) ==
  LET late == s.cycle - s.first
  IN  [RunDue([s EXCEPT !.cycle = s.first]) EXCEPT !.cycle = @ + late, !.handled = TRUE]

HandleEvents == ~m.panicked /\ IsEventPending(m) /\ m' = RunEvents(m)

\* The processor is waiting for an interrupt.
Skip == Running /\ m.wfi /\ Clock < m.program.until /\ m' = [FastForward(m) EXCEPT !.handled = FALSE]

\* run_frame returns, and the frontend calls it again.
EndFrame ==
  /\ ~m.panicked /\ ~IsEventPending(m) /\ m.handled /\ m.frameDone
  /\ m' = [Rebase(SpuRun(m)) EXCEPT !.frameDone = FALSE, !.handled = FALSE]

Next == Step \/ HandleEvents \/ Skip \/ EndFrame

Spec == Init /\ [][Next]_m

-----------------------------------------------------------------------------
(* Properties *)

\* No cycle is lost or counted twice by a device that keeps time, however it is
\* reached, whether it is run late, early or in the past, and through every rebase:
\* what it counted and what it has yet to see add up to the clock.  A voice that is started
\* plays from the audio cycle that its date falls in.
TimeConserved ==
  LET seen(d) == Clock - (m.cycle - m.last[d])
  IN  /\ m.mtime * ClkDiv = seen("SysTimer")
      /\ m.samples * AudioDiv = seen("Spu")
      /\ (m.frames + 1) * FrameCycles(m) - m.gpu.frame = seen("Gpu")
      /\ LET v == m.spu.voice IN v.startedAt # -1 => v.played = m.samples - v.startedAt \div AudioDiv

\* Between instructions the timer's line is up exactly when the time has come,
\* though MTIME is only brought up to date on events and accesses.
TimerExact ==
  LET now == m.mtime + (m.cycle - m.last["SysTimer"]) \div ClkDiv
  IN  ~IsEventPending(m) => ("MTI" \in m.mip <=> now >= m.mtimecmp)

\* An interrupt that is up, enabled and let through is taken at once, and never finds the
\* processor asleep, unless a CSRRW has let it through: that is left until the next look at
\* the interrupts, when a line changes or an instruction checks (cpu.rs:775-781, 256-280).
NoInterruptMissed == (m.irqOn \/ m.wfi) /\ ~m.unchecked => m.mip \cap m.mie = {}

\* resync's assertion (sync.rs:57): no device has run further ahead of an event than
\* an instruction can reach.
NeverFarAhead ==
  IsEventPending(m) => \A d \in Tokens : m.last[d] - m.first < Max(Ticks)

\* The longest delay that a transfer may be left alone.
DmaPatience == Max({DmaStart, DmaPoll, 1 + TriangleCycles, 1 + MultiplyCycles, 1 + EndCycles})

\* The words of a transfer reach their destination once and in order, whatever stalls
\* and refills, and the interrupt is raised once, when the last one has; until then it is
\* never left to the idle period of a second.
DmaDelivers ==
  LET moved == m.delivered \o m.dma.buf \o m.dma.todo
  IN  /\ moved = m.asked
      /\ m.done = (IF m.asked # <<>> /\ ~IsRunning(m) THEN 1 ELSE 0)
      /\ IsRunning(m) /\ ~IsEventPending(m) /\ ~m.panicked => m.next["Dma"] - m.cycle <= DmaPatience

\* Every triangle of a model reaches OpenGL once, with the vertices the mesh has and the
\* matrix it had when it was drawn, wherever frames, full buffers and flushes fall.
ModelsAreDrawn ==
  /\ m.gpu.state # <<"Lost">>
  /\ IsPrefix(m.gpu.shown \o Resolved(m.gpu), m.program.shows)

\* What the queue holds is what has been decoded and not played.
QueueFollows ==
  LET v == m.spu.voice
  IN  v.queue = SubSeq(v.line, v.heard + 1, Len(v.line))

\* The samples a voice decodes are those the build tool decoded when it chose the
\* encoding, in order, again from the loop on, and up to the end of the sound; they all
\* go through the queue, and whatever is rerun leaves the voice the same.
SoundSample(sound, i) ==
  LET n == Len(sound.samples)
  IN  IF i <= n THEN sound.samples[i] ELSE sound.samples[sound.loop + 1 + ((i - 1 - sound.loop) % (n - sound.loop))]
VoicePlaysSound ==
  LET v == m.spu.voice
      decoded == Len(v.line) - v.stale
      sound == m.program.sound
  IN  /\ QueueFollows
      /\ decoded > Len(sound.samples) => sound.loop # -1
      /\ \A i \in 1 .. decoded : v.line[v.stale + i] = SoundSample(sound, i)
      /\ v.state = "Stopped" /\ v.startedAt # -1 /\ <<"release">> \notin Range(m.program.stores)
           => decoded = Len(sound.samples)

\* From whatever level, a step of the attack raises it and a step of the release lowers it,
\* down to zero: a voice that is released ends, though the steps are rounded.
EnvelopeMoves ==
  LET v == m.spu.voice
  IN  /\ v.level \in 0 .. Max16
      /\ v.level < Max16 => NextLevel(v.params.Attack, v.level) > v.level
      /\ v.level > 0 => NextLevel(v.params.Release, v.level) < v.level

\* Handling events always moves the first event later: handle_events ends.
EventsAdvance == [][IsEventPending(m) /\ ~m'.panicked => m'.first > m.first]_m

\* dma.rs:127: a stalled transfer is told how long to wait.
StallHasDuration == ~m.panicked
=============================================================================
