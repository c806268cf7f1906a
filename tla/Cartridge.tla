------------------------------ MODULE Cartridge ------------------------------
(***************************************************************************)
(* A cartridge from the two ELF files and the directory it is built from   *)
(* (cart.rs), through the boot script that the kernel executes             *)
(* (bootscript.rs), to the program that reads its file system.             *)
(***************************************************************************)
EXTENDS CartFs

CONSTANTS
  Inputs,        \* what the tool is given: [boot, bootEntry, main, entry, gps, stack, tree]
  RamLen,        \* RAM is at 0 .. RamLen - 1
  KernelRam,     \* the part of it that the kernel keeps
  RomBase, RomLen,  \* the ROM, without the header of the cartridge
  BootEntry,     \* where the kernel must start
  FsAlign,       \* alignment of the file system in ROM
  ScriptLen,     \* operations the header has room for
  HeapAlign,
  StackCost      \* what the kernel needs of the heap for the main stack, beyond its size

\* The segments of an ELF file; their data are bytes, of which "ff" is blank ROM.
IsElf(segments) ==
  /\ segments \in Seq(Range(segments))
  /\ \A i \in 1 .. Len(segments) :
       LET s == segments[i]
       IN  /\ {s.paddr, s.vaddr, s.memsz} \subseteq Nat /\ s.load \in BOOLEAN
           /\ s.data \in Seq(Range(s.data))

\* The linker scripts leave the kernel its RAM and the header its ROM.
ASSUME CartridgeAssumption ==
  /\ {RamLen, KernelRam, ScriptLen, HeapAlign, FsAlign} \subseteq Nat \ {0} /\ {RomBase, RomLen} \subseteq Nat
  /\ RamLen % HeapAlign = 0 /\ KernelRam % HeapAlign = 0 /\ KernelRam < RamLen /\ RomBase >= RamLen
  /\ \A in \in Inputs :
       /\ IsTree(in.tree) /\ in.stack \in Nat /\ IsElf(in.boot) /\ IsElf(in.main)
       /\ \A i \in 1 .. Len(in.main) :
            LET s == in.main[i] IN s.vaddr >= KernelRam /\ Len(s.data) <= s.memsz
       /\ \A i, j \in 1 .. Len(in.main) :
            LET s == in.main[i]
                t == in.main[j]
            IN  i # j /\ s.load /\ t.load =>
                  s.vaddr + s.memsz <= t.vaddr \/ t.vaddr + t.memsz <= s.vaddr

VARIABLES
  input, step,   \* what the tool, and then the kernel, is doing
  todo,          \* segments of the ELF file being loaded
  ran,           \* operations of the script that have been executed
  rom, script,   \* the image: its bytes and its operations
  ramMax,        \* end of what the program keeps of RAM
  ram, heap, task

cartVars == <<input, todo, ran, rom, script, ramMax, ram, heap, task>>
vars == <<cartVars, step, fsVars>>

Rom == RomBase .. RomBase + RomLen - 1
Ram == 0 .. RamLen - 1

Init ==
  /\ input \in Inputs /\ FsInit(input.tree)
  /\ step = "bootloader" /\ todo = input.boot
  /\ rom = [a \in Rom |-> "ff"] /\ script = <<>> /\ ran = 0 /\ ramMax = KernelRam
  /\ ram = [a \in Ram |-> "junk"] /\ heap = [start |-> 0, size |-> 0] /\ task = "none"

-----------------------------------------------------------------------------
(* The tool *)

\* is_range_in_rom and is_range_in_ram look at the byte after the range, too.
RangeIn(memory, start, size) == {start, start + size} \subseteq memory

\* copy_data
CanCopy(s) ==
  /\ RangeIn(Rom, s.paddr, Len(s.data))
  /\ \A i \in 1 .. Len(s.data) : rom[s.paddr + i - 1] = "ff"
Copied(s) ==
  [a \in Rom |-> IF a \in s.paddr .. s.paddr + Len(s.data) - 1
                 THEN s.data[a - s.paddr + 1] ELSE rom[a]]

Fail == step' = "failed" /\ UNCHANGED <<cartVars, fsVars>>

\* load_bootloader
StartsWell == input.bootEntry = BootEntry
RefuseBoot == step = "bootloader" /\ ~StartsWell /\ Fail
LoadBootSegment ==
  /\ step = "bootloader" /\ StartsWell /\ todo # <<>>
  /\ LET s == Head(todo)
         wanted == s.load /\ s.data # <<>>
     IN  IF wanted /\ ~CanCopy(s) THEN Fail
         ELSE /\ rom' = (IF wanted THEN Copied(s) ELSE rom) /\ todo' = Tail(todo)
              /\ UNCHANGED <<input, ran, script, ramMax, ram, heap, task, step, fsVars>>
LoadBootEnd ==
  /\ step = "bootloader" /\ StartsWell /\ todo = <<>>
  /\ step' = "main" /\ todo' = input.main
  /\ UNCHANGED <<input, ran, rom, script, ramMax, ram, heap, task, fsVars>>

\* What load_main makes of a segment: data that stay in ROM, data to copy to
\* RAM, or zeroes.
Wanted(s) == s.load /\ s.memsz > 0
ScriptFor(s) ==
  IF ~Wanted(s) THEN <<>>
  ELSE IF s.data = <<>> THEN <<[code |-> "ZERO", from |-> 0, to |-> s.vaddr, size |-> s.memsz]>>
  ELSE IF s.vaddr # s.paddr
  THEN <<[code |-> "COPY", from |-> s.paddr, to |-> s.vaddr, size |-> Len(s.data)]>>
  ELSE <<>>
Accepted(s) ==
  /\ Wanted(s) /\ s.data # <<>> => Len(s.data) = s.memsz /\ CanCopy(s)
  /\ ScriptFor(s) # <<>> => RangeIn(Ram, s.vaddr, s.memsz) /\ Len(script) < ScriptLen

\* Mutant: the end of RAM in use is the last segment's.
LoadMainSegmentLast ==
  /\ step = "main" /\ todo # <<>>
  /\ LET s == Head(todo) IN
     IF ~Accepted(s) THEN Fail
     ELSE /\ ramMax' = (IF s.memsz > 0 /\ s.vaddr + s.memsz \in Ram THEN s.vaddr + s.memsz ELSE ramMax)
          /\ rom' = (IF Wanted(s) THEN Copied(s) ELSE rom)
          /\ script' = script \o ScriptFor(s) /\ todo' = Tail(todo)
          /\ UNCHANGED <<input, ran, ram, heap, task, step, fsVars>>

LoadMainSegment ==
  /\ step = "main" /\ todo # <<>>
  /\ LET s == Head(todo)
         ends == {e \in {s.vaddr + s.memsz} \cap Ram : s.memsz > 0}
     IN
     IF ~Accepted(s) THEN Fail
     ELSE /\ ramMax' = Max(ends \cup {ramMax})
          /\ rom' = (IF Wanted(s) THEN Copied(s) ELSE rom)
          /\ script' = script \o ScriptFor(s) /\ todo' = Tail(todo)
          /\ UNCHANGED <<input, ran, ram, heap, task, step, fsVars>>

\* The heap takes the RAM that is left, and the program starts at its entry, with one of its
\* global pointers in gp: addresses that must be in memory.
Addresses == input.gps \cup {input.entry}
LoadMainEnd ==
  /\ step = "main" /\ todo = <<>>
  /\ LET start == ((ramMax + HeapAlign - 1) \div HeapAlign) * HeapAlign
         size == RamLen - start
     IN  IF \/ ~(Addresses \subseteq Ram \cup Rom)
            \/ size < input.stack \/ Len(script) + 2 > ScriptLen
         THEN Fail
         ELSE /\ script' = script \o
                   <<[code |-> "HEAP", from |-> 0, to |-> start, size |-> size],
                     [code |-> "EXEC", from |-> input.entry, to |-> 0, size |-> input.stack]>>
              /\ step' \in {"fs", "boot"}
              /\ UNCHANGED <<input, todo, ran, rom, ramMax, ram, heap, task, fsVars>>

\* The image ends with the last byte that was copied.
Copies == {s \in Range(input.boot) : s.load} \cup {s \in Range(input.main) : Wanted(s)}
ImageEnd == Max({RomBase} \cup {s.paddr + Len(s.data) : s \in {c \in Copies : c.data # <<>>}})
FsStart == ((ImageEnd + FsAlign - 1) \div FsAlign) * FsAlign

\* load_fs, which does not look where the ROM ends.
LoadFs ==
  /\ step = "fs"
  /\ \/ (FsBegin \/ DumpRoot \/ DumpNext \/ DumpEnd) /\ UNCHANGED <<cartVars, step>>
     \/ FsWritten /\ Len(script) = ScriptLen /\ Fail
     \/ /\ Len(script) < ScriptLen /\ FsEnd /\ step' = "boot"
        /\ script' = Append(script, [code |-> "%FSM", from |-> FsStart, to |-> 0, size |-> len])
        /\ UNCHANGED <<input, todo, ran, rom, ramMax, ram, heap, task>>

-----------------------------------------------------------------------------
(* The kernel: run_boot_script *)

\* The operation of the script that is next, and what none of them changes.
Op == script[ran + 1]
Booting(code) ==
  /\ step = "boot" /\ ran < Len(script) /\ Op.code = code
  /\ ran' = ran + 1 /\ UNCHANGED <<input, todo, rom, script, ramMax, fsVars>>

RunCopy ==
  /\ Booting("COPY")
  /\ ram' = [a \in Ram |-> IF a \in Op.to .. Op.to + Op.size - 1 THEN rom[Op.from + a - Op.to] ELSE ram[a]]
  /\ UNCHANGED <<heap, task, step>>
RunZero ==
  /\ Booting("ZERO")
  /\ ram' = [a \in Ram |-> IF a \in Op.to .. Op.to + Op.size - 1 THEN "zero" ELSE ram[a]]
  /\ UNCHANGED <<heap, task, step>>
RunHeap ==
  /\ Booting("HEAP")
  /\ heap' = [start |-> Op.to, size |-> Op.size] /\ UNCHANGED <<ram, task, step>>
\* The kernel panics if the main task cannot be spawned.
RunExec ==
  /\ Booting("EXEC")
  /\ IF heap.size >= Op.size + StackCost THEN task' = "MAIN" /\ UNCHANGED step
     ELSE step' = "panic" /\ UNCHANGED task
  /\ UNCHANGED <<ram, heap>>
RunUserOp == Booting("%FSM") /\ UNCHANGED <<ram, heap, task, step>>
BootEnd ==
  /\ step = "boot" /\ ran = Len(script)
  /\ step' = "run" /\ UNCHANGED <<cartVars, fsVars>>

\* The program mounts the file system that the script names, if it does and the ROM has it.
Mounts(op) == op.code = "%FSM" /\ RangeIn(Rom, op.from, op.size)
ReadFs ==
  /\ step = "run" /\ task = "MAIN" /\ \E i \in 1 .. Len(script) : Mounts(script[i])
  /\ FsRead /\ UNCHANGED <<cartVars, step>>

Next ==
  \/ RefuseBoot \/ LoadBootSegment \/ LoadBootEnd \/ LoadMainSegment \/ LoadMainEnd \/ LoadFs
  \/ RunCopy \/ RunZero \/ RunHeap \/ RunExec \/ RunUserOp \/ BootEnd \/ ReadFs

Spec == Init /\ [][Next]_vars

-----------------------------------------------------------------------------
(* Properties *)

Memory(a) == IF a \in Ram THEN ram[a] ELSE rom[a]

\* Data that the tool accepted are where they are expected; copy_data takes a byte
\* 0xff for free room, so only such a byte may have been replaced.
Present(data, addr) ==
  \A i \in 1 .. Len(data) : data[i] = "ff" \/ Memory(addr + i - 1) = data[i]

\* When the main task starts, every segment of its ELF file and of the bootloader's is
\* in its place, however the images share the ROM, and the heap lies beyond the kernel
\* and the program and ends with RAM.
ProgramReady ==
  step = "run" =>
    /\ \A i \in 1 .. Len(input.boot) : input.boot[i].load => Present(input.boot[i].data, input.boot[i].paddr)
    /\ \A i \in 1 .. Len(input.main) :
         LET s == input.main[i] IN
         Wanted(s) =>
           /\ Present(s.data, s.vaddr)
           /\ s.data = <<>> => \A a \in s.vaddr .. s.vaddr + s.memsz - 1 : ram[a] = "zero"
           /\ s.vaddr \in Ram => s.vaddr + s.memsz <= heap.start
    /\ heap.start >= KernelRam /\ heap.start % HeapAlign = 0 /\ heap.start + heap.size = RamLen
=============================================================================
