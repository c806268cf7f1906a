--------------------------------- MODULE Cpu ---------------------------------
(***************************************************************************)
(* The processor executing programs (cpu.rs step): each instruction is     *)
(* fetched through the decoder's page cache and executed on registers and  *)
(* memory.  Where a program reaches a device or the system instructions,   *)
(* which are the subject of Machine and TrapHandler, it ends.              *)
(***************************************************************************)
EXTENDS Decoder, Rv32, Rvc

CONSTANT Programs   \* images, first address and registers, expected result; or free accesses

NoResult == -1

VARIABLES
  x,            \* the registers, DUMMY included
  pc,
  reservation,  \* the address of the last LR, or -1
  state,        \* what run_frame does next: "fetch", "execute", or nothing: "system", "panic"
  program       \* what is executed

cpuVars == <<x, pc, reservation, state, program>>
allVars == <<mem, pages, pageLut, lastUsed, fetched, fetches, seen, x, pc, reservation, state, program>>

ASSUME XLen <= 16

Address(place) == 2 * (place[1] * PageLen + place[2])
PlaceOf(addr) == <<(addr \div 2) \div PageLen, (addr \div 2) % PageLen>>

CpuInit ==
  \E p \in Programs :
    /\ program = p /\ mem = [a \in Places |-> IF a \in DOMAIN p.image THEN p.image[a] ELSE Erased]
    /\ pages = <<>> /\ pageLut = [i \in LutEntries |-> None] /\ lastUsed = NoPage
    /\ fetched = <<>> /\ fetches = 0
    /\ seen = [a \in Places |-> {mem[a]}]
    /\ x = [r \in 0 .. DUMMY |-> IF r \in DOMAIN p.x THEN p.x[r] ELSE 0]
    /\ pc = p.pc /\ reservation = -1 /\ state = "fetch"

-----------------------------------------------------------------------------
(* step *)

Stop(why) ==
  /\ state' = why
  /\ UNCHANGED <<mem, pages, pageLut, lastUsed, fetched, fetches, seen, x, pc, reservation, program>>

Fetch ==
  /\ state = "fetch" /\ ~program.free
  /\ IF PlaceOf(pc) \in Places
     THEN /\ FetchInstruction(PlaceOf(pc)[1], PlaceOf(pc)[2])
          /\ state' = "execute" /\ UNCHANGED <<x, pc, reservation, program>>
     ELSE Stop("panic")

decoded == Decode(fetched.code, pc)
inst == decoded.inst
Rs1 == x[inst.rs1]
Rs2 == x[inst.rs2]

\* The instruction leaves values in registers, and goes on at next.
Registers(xs, next) ==
  /\ x' = xs /\ pc' = next /\ state' = "fetch"
  /\ UNCHANGED <<mem, pages, pageLut, lastUsed, fetched, fetches, seen, reservation, program>>
Result(v) == Registers([x EXCEPT ![inst.rd] = v], decoded.npc)

Executes(names) == state = "execute" /\ inst.name \in names

ExecCompute ==
  \/ Executes(Computations) /\ Result(Compute(inst.name, Rs1, Rs2))
  \/ Executes(DOMAIN Immediates) /\ Result(Compute(Immediates[inst.name], Rs1, Wrap(inst.imm)))
  \/ Executes(Shifts) /\ Result(Compute(inst.name, Rs1, inst.imm))
  \/ Executes({"Li"}) /\ Result(Wrap(inst.imm))
  \/ Executes({"Move"}) /\ Result(Rs1)

ExecJump ==
  \/ /\ Executes({"Jal"})
     /\ Registers([x EXCEPT ![inst.rd] = Wrap(decoded.npc)], Wrap(inst.imm))
  \/ /\ Executes({"Jalr"})
     /\ Registers([x EXCEPT ![inst.rd] = Wrap(decoded.npc)], LET to == Wrap(Rs1 + inst.imm) IN to - (to % 2))
  \/ /\ Executes(Range(Branches))
     /\ Registers(x, IF Taken(inst.name, Rs1, Rs2) THEN Wrap(inst.imm) ELSE decoded.npc)

Target == Wrap(Rs1 + inst.imm)
Aligned(bytes) == Target % bytes = 0
InRam(addr) == PlaceOf(addr) \in Ram \X Slots
Byte(addr) == (mem[PlaceOf(addr)] \div 2 ^ (8 * (addr % 2))) % 2 ^ 8

LoadSizes == "Lb" :> 1 @@ "Lbu" :> 1 @@ "Lh" :> 2 @@ "Lhu" :> 2 @@ "Lw" :> 4
Loaded ==
  CASE inst.name = "Lb" -> Wrap(Signed(Byte(Target), 8))
    [] inst.name = "Lbu" -> Byte(Target)
    [] inst.name = "Lh" -> Wrap(Signed(mem[PlaceOf(Target)], 16))
    [] OTHER -> Wrap(mem[PlaceOf(Target)])

ExecLoad ==
  /\ Executes(DOMAIN LoadSizes)
  /\ IF ~Aligned(LoadSizes[inst.name]) THEN Stop("panic")
     ELSE IF PlaceOf(Target) \notin Places THEN Stop("system") ELSE Result(Loaded)

\* ram_write
RamWrite(addr) ==
  reservation' = IF reservation # -1 /\ reservation \div 16 = addr \div 16 THEN -1 ELSE reservation

\* store_byte, store_halfword and store_word, which is what a store of the bits there are of
\* a register writes.
WordCells(v) == PlaceOf(Target) :> v @@ PlaceOf(Target + 2) :> 0
StoreSizes == "Sb" :> 1 @@ "Sh" :> 2 @@ "Sw" :> 4
Stored ==
  CASE inst.name = "Sw" -> WordCells(Rs2)
    [] inst.name = "Sh" -> PlaceOf(Target) :> Rs2
    [] inst.name = "Sb" ->
         LET shift == 2 ^ (8 * (Target % 2))
         IN  PlaceOf(Target) :> mem[PlaceOf(Target)] + ((Rs2 % 2 ^ 8) - Byte(Target)) * shift

Store(cells) ==
  /\ Write(cells) /\ RamWrite(Target)
  /\ pc' = decoded.npc /\ state' = "fetch" /\ UNCHANGED program

ExecStore ==
  /\ Executes(DOMAIN StoreSizes)
  /\ IF ~Aligned(StoreSizes[inst.name]) THEN Stop("panic")
     ELSE IF InRam(Target) THEN Store(Stored) /\ UNCHANGED x
     ELSE Stop(IF PlaceOf(Target) \in Places THEN "panic" ELSE "system")

ExecAmo ==
  /\ Executes({"AmoorW", "AmoaddW"})
  /\ IF ~Aligned(4) THEN Stop("panic")
     ELSE IF ~InRam(Target) THEN Stop(IF PlaceOf(Target) \in Places THEN "panic" ELSE "system")
     ELSE LET old == mem[PlaceOf(Target)]
          IN  /\ x' = [x EXCEPT ![inst.rd] = Wrap(old)]
              /\ Store(WordCells(Compute(IF inst.name = "AmoorW" THEN "Or" ELSE "Add", Wrap(old), Rs2)))

ExecLoadReserved ==
  /\ Executes({"Lrw"})
  /\ IF ~Aligned(4) \/ ~InRam(Target) THEN Stop("panic")
     ELSE /\ x' = [x EXCEPT ![inst.rd] = Wrap(mem[PlaceOf(Target)])]
          /\ reservation' = Target /\ pc' = decoded.npc /\ state' = "fetch"
          /\ UNCHANGED <<mem, pages, pageLut, lastUsed, fetched, fetches, seen, program>>

ExecStoreConditional ==
  /\ Executes({"Scw"}) /\ reservation' = -1
  /\ LET valid == reservation = Target /\ InRam(Target)
     IN  /\ Write(IF valid THEN WordCells(Rs2) ELSE <<>>)
         /\ x' = [x EXCEPT ![inst.rd] = IF valid THEN 0 ELSE 1]
  /\ pc' = decoded.npc /\ state' = "fetch" /\ UNCHANGED program

ExecFence ==
  /\ Executes({"FenceI"}) /\ Invalidate
  /\ pc' = decoded.npc /\ state' = "fetch" /\ UNCHANGED <<x, reservation, program>>

ExecSystem ==
  \/ Executes({"Ecall", "Wfi", "MRet", "CsrSet", "CsrSetBits", "CsrClearBits", "CsrManipImm"}) /\ Stop("system")
  \/ Executes({"Unknown"}) /\ Stop("panic")

Execute ==
  \/ ExecCompute \/ ExecJump \/ ExecLoad \/ ExecStore
  \/ ExecAmo \/ ExecLoadReserved \/ ExecStoreConditional \/ ExecFence \/ ExecSystem

\* expire_pages, at the end of run_frame.  Of a program, a frame holds MaxFetches instructions.
EndFrame ==
  /\ fetches = MaxFetches \/ (program.free /\ fetches > 0)
  /\ ExpirePages /\ UNCHANGED cpuVars

\* Of the free program: any instruction is fetched, any cell written, any time.
AnyFetch == \E page \in program.pages, s \in program.slots : FetchInstruction(page, s)
AnyWrite == \E a \in program.cells, v \in program.values : Write(a :> v)
Free == program.free /\ (AnyFetch \/ AnyWrite \/ Invalidate) /\ UNCHANGED cpuVars

CpuNext == Fetch \/ Execute \/ EndFrame \/ Free

CpuSpec == CpuInit /\ [][CpuNext]_allVars

-----------------------------------------------------------------------------
(* Properties *)

\* What an instruction does, if it has several forms.
Plain(i) ==
  LET pure == i.name \in Computations \cup DOMAIN Immediates \cup Shifts \cup {"Li", "Move"}
  IN  CASE pure /\ i.rd = DUMMY -> Nop
        [] i.name = "AddImm" /\ i.rs1 = 0 -> AddI(i.rd, 0, i.imm)
        [] i.name = "AddImm" /\ i.rs1 # 0 /\ i.imm = 0 -> AddI(i.rd, i.rs1, 0)
        [] i.name = "Add" /\ i.rs1 = 0 -> AddI(i.rd, i.rs2, 0)
        [] OTHER -> i

\* A compressed instruction is decoded to the instruction that the base instruction it
\* stands for is decoded to, but for the address behind it.
CompressedIsExpansion ==
  LET op == fetched.code[1]
      at == Address(fetched.place)
  IN  fetched # <<>> => (Expand(op) # Reserved =>
        Plain(Decode(fetched.code, at).inst) = Plain(Decode32(Expand(op), at)))

\* A program ends with its result in a0, wherever its instructions and its data cross pages,
\* pages are evicted and frames end.
ProgramComputes ==
  program.result # NoResult =>
    /\ state # "panic"
    /\ state = "system" => x[10] = program.result
=============================================================================
