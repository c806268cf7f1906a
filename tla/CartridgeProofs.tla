--------------------------- MODULE CartridgeProofs ---------------------------
(***************************************************************************)
(* What is proved of the cartridge: whatever the ELF files, if the tool    *)
(* accepts them and the main task starts, its memory is as it was linked.  *)
(* Two images may share the ROM: a byte that is in its place stays there,  *)
(* as copy_data only takes free ones.  Two operations of the script are    *)
(* the same or touch different parts of RAM, so each one's effect lasts.   *)
(***************************************************************************)
EXTENDS Cartridge, SequenceTheorems, TLAPS

\* The operations that fill RAM, and what they do to it.
OpFor(s) == ScriptFor(s)[1]
Filling(op) == op.code \in {"COPY", "ZERO"}
Filled(op) ==
  \A a \in op.to .. op.to + op.size - 1 :
    /\ op.code = "COPY" => ram[a] = rom[op.from + a - op.to]
    /\ op.code = "ZERO" => ram[a] = "zero"

\* The bytes of a segment are where the tool put them in ROM.
Held(s) ==
  \A i \in 1 .. Len(s.data) :
    /\ s.paddr + i - 1 \in Rom
    /\ s.data[i] = "ff" \/ rom[s.paddr + i - 1] = s.data[i]

\* A segment of the program that load_main has taken: either it stays in ROM or the script
\* fills its part of RAM.
Placed(s) ==
  /\ Held(s)
  /\ s.data # <<>> => Len(s.data) = s.memsz
  /\ IF ScriptFor(s) = <<>> THEN s.vaddr = s.paddr /\ s.data # <<>>
     ELSE /\ \E j \in 1 .. Len(script) : script[j] = OpFor(s)
          /\ RangeIn(Ram, s.vaddr, s.memsz) /\ s.vaddr + s.memsz <= ramMax

\* How many segments have been loaded.
Alive == step \notin {"failed", "panic"}
BootLoaded == IF step = "bootloader" THEN Len(input.boot) - Len(todo) ELSE Len(input.boot)
MainLoaded ==
  IF step = "bootloader" THEN 0
  ELSE IF step = "main" THEN Len(input.main) - Len(todo) ELSE Len(input.main)

\* What is still to be loaded is the end of the file.
IsRest(rest, segments) ==
  /\ rest \in Seq(Range(segments)) /\ Len(rest) <= Len(segments)
  /\ \A i \in 1 .. Len(rest) : rest[i] = segments[Len(segments) - Len(rest) + i]

HeapIn(start, size) == start \in Nat /\ start >= ramMax /\ start % HeapAlign = 0 /\ start + size = RamLen

Steps == {"bootloader", "main", "fs", "boot", "run", "failed", "panic"}

Loading ==
  /\ input \in Inputs /\ step \in Steps
  /\ step = "bootloader" => IsRest(todo, input.boot)
  /\ step = "main" => IsRest(todo, input.main)
  /\ ramMax \in Ram /\ ramMax >= KernelRam

BootPlaced == \A i \in 1 .. BootLoaded : input.boot[i].load => Held(input.boot[i])
MainPlaced == \A i \in 1 .. MainLoaded : Wanted(input.main[i]) => Placed(input.main[i])

\* The operations of the script are those of the segments, and later the heap's and the task's.
ScriptMade ==
  /\ \E S : script \in Seq(S)
  /\ \A j \in 1 .. Len(script) :
       /\ Filling(script[j]) => \E i \in 1 .. MainLoaded :
            Wanted(input.main[i]) /\ ScriptFor(input.main[i]) # <<>> /\ script[j] = OpFor(input.main[i])
       /\ script[j].code = "HEAP" => HeapIn(script[j].to, script[j].size)
       /\ step \in {"bootloader", "main"} => Filling(script[j])
  /\ step \in {"fs", "boot", "run"} => \E j \in 1 .. Len(script) : script[j].code = "HEAP"

\* Those that have been executed have had their effect.
ScriptRun ==
  /\ ran \in 0 .. Len(script)
  /\ step \in {"bootloader", "main", "fs"} => ran = 0
  /\ step = "run" => ran = Len(script)
  /\ \A j \in 1 .. ran :
       /\ Filled(script[j])
       /\ script[j].code = "HEAP" => HeapIn(heap.start, heap.size)

IInv == Loading /\ (Alive => BootPlaced /\ MainPlaced /\ ScriptMade /\ ScriptRun)

-----------------------------------------------------------------------------
(* The constants *)

LEMMA Constants ==
  /\ RamLen \in Nat \ {0} /\ KernelRam \in Nat \ {0} /\ ScriptLen \in Nat \ {0}
  /\ HeapAlign \in Nat \ {0} /\ RomBase \in Nat /\ RomLen \in Nat
  /\ RamLen % HeapAlign = 0 /\ KernelRam % HeapAlign = 0 /\ KernelRam < RamLen /\ RomBase >= RamLen
BY CartridgeAssumption DEF CartridgeAssumption

LEMMA MemoriesApart == Ram \subseteq Nat /\ Rom \subseteq Nat /\ Ram \cap Rom = {}
BY Constants DEF Ram, Rom

\* A segment of a file.
Segment(s) ==
  /\ s.paddr \in Nat /\ s.vaddr \in Nat /\ s.memsz \in Nat /\ s.load \in BOOLEAN
  /\ s.data \in Seq(Range(s.data)) /\ Len(s.data) \in Nat

LEMMA SegmentLemma ==
  ASSUME NEW segments, IsElf(segments), NEW i \in 1 .. Len(segments)
  PROVE  Segment(segments[i])
<1>1. segments[i].data \in Seq(Range(segments[i].data))
  BY DEF IsElf
<1>2. Len(segments[i].data) \in Nat
  BY <1>1, LenProperties
<1> QED BY <1>1, <1>2 DEF IsElf, Segment

LEMMA InputLemma ==
  ASSUME input \in Inputs
  PROVE  /\ IsElf(input.boot) /\ Len(input.boot) \in Nat
         /\ IsElf(input.main) /\ Len(input.main) \in Nat
         /\ \A i \in 1 .. Len(input.boot) : Segment(input.boot[i])
         /\ \A i \in 1 .. Len(input.main) : /\ Segment(input.main[i])
                                            /\ input.main[i].vaddr >= KernelRam
<1>1. /\ IsElf(input.boot) /\ IsElf(input.main)
      /\ \A i \in 1 .. Len(input.main) : input.main[i].vaddr >= KernelRam
  BY CartridgeAssumption, Zenon DEF CartridgeAssumption
<1>2. Len(input.boot) \in Nat /\ Len(input.main) \in Nat
  <2>1. input.boot \in Seq(Range(input.boot)) /\ input.main \in Seq(Range(input.main))
    BY <1>1 DEF IsElf
  <2> QED BY <2>1, LenProperties
<1> QED BY <1>1, <1>2, SegmentLemma

\* Two segments that are loaded touch different addresses.
LEMMA ApartLemma ==
  ASSUME input \in Inputs,
         NEW i \in 1 .. Len(input.main), NEW j \in 1 .. Len(input.main), i # j,
         Wanted(input.main[i]), Wanted(input.main[j])
  PROVE  LET s == input.main[i]
             t == input.main[j]
         IN  s.vaddr + s.memsz <= t.vaddr \/ t.vaddr + t.memsz <= s.vaddr
BY CartridgeAssumption, Zenon DEF CartridgeAssumption, Wanted

\* What the script does of a segment.
LEMMA ScriptForLemma ==
  ASSUME NEW s, Segment(s)
  PROVE  /\ ~Wanted(s) => ScriptFor(s) = <<>>
         /\ Wanted(s) /\ s.data # <<>> /\ s.vaddr = s.paddr => ScriptFor(s) = <<>>
         /\ Wanted(s) /\ (s.data = <<>> \/ s.vaddr # s.paddr) =>
              /\ ScriptFor(s) = <<OpFor(s)>> /\ ScriptFor(s) # <<>>
              /\ Filling(OpFor(s)) /\ OpFor(s).to = s.vaddr
              /\ s.data = <<>> => OpFor(s).code = "ZERO" /\ OpFor(s).size = s.memsz
              /\ s.data # <<>> => /\ OpFor(s).code = "COPY" /\ OpFor(s).size = Len(s.data)
                                  /\ OpFor(s).from = s.paddr
BY DEF ScriptFor, OpFor, Filling

-----------------------------------------------------------------------------
(* The ROM *)

\* What is in its place stays there when another segment is copied.
LEMMA CopyKeeps ==
  ASSUME NEW s, Segment(s), s.data = <<>> \/ CanCopy(s), rom' = Copied(s)
  PROVE  Held(s)' /\ \A t : Segment(t) /\ Held(t) => Held(t)'
<1>1. PICK n \in Nat : n = Len(s.data)
  BY DEF Segment
<1>2. PICK p \in Nat : p = s.paddr
  BY DEF Segment
<1>3. n = 0 \/ ({p, p + n} \subseteq Rom /\ \A i \in 1 .. n : rom[p + i - 1] = "ff")
  <2>1. CASE s.data = <<>>
    BY <1>1, <2>1
  <2>2. CASE CanCopy(s)
    BY <1>1, <1>2, <2>2 DEF CanCopy, RangeIn
  <2> QED BY <2>1, <2>2
<1>4. \A x \in Rom : rom'[x] = IF x \in p .. p + n - 1 THEN s.data[x - p + 1] ELSE rom[x]
  BY <1>1, <1>2 DEF Copied
<1>5. Held(s)'
  <2> SUFFICES ASSUME NEW i \in 1 .. n
      PROVE  p + i - 1 \in Rom /\ (s.data[i] = "ff" \/ rom'[p + i - 1] = s.data[i])
    BY <1>1, <1>2 DEF Held
  <2>1. p + i - 1 \in Rom
    BY <1>3, Constants DEF Rom
  <2>2. p + i - 1 \in p .. p + n - 1 /\ (p + i - 1) - p + 1 = i
    OBVIOUS
  <2> QED BY <1>4, <2>1, <2>2
<1>6. ASSUME NEW t, Segment(t), Held(t) PROVE Held(t)'
  <2> SUFFICES ASSUME NEW i \in 1 .. Len(t.data)
      PROVE  t.paddr + i - 1 \in Rom /\ (t.data[i] = "ff" \/ rom'[t.paddr + i - 1] = t.data[i])
    BY DEF Held
  <2>1. PICK x \in Rom : x = t.paddr + i - 1
    BY <1>6 DEF Held
  <2>2. t.data[i] = "ff" \/ rom[x] = t.data[i]
    BY <1>6, <2>1 DEF Held
  <2>3. CASE x \in p .. p + n - 1
    <3>1. x \in Nat
      BY MemoriesApart
    <3>2. x - p + 1 \in 1 .. n /\ p + (x - p + 1) - 1 = x
      BY <2>3, <3>1
    <3>3. rom[x] = "ff"
      BY <1>3, <3>2
    <3> QED BY <2>1, <2>2, <3>3
  <2>4. CASE x \notin p .. p + n - 1
    BY <1>4, <2>1, <2>2, <2>4
  <2> QED BY <2>3, <2>4
<1> QED BY <1>5, <1>6

LEMMA RestLemma ==
  ASSUME NEW rest, NEW segments, IsElf(segments), IsRest(rest, segments), rest # <<>>
  PROVE  LET i == Len(segments) - Len(rest) + 1
         IN  /\ i \in 1 .. Len(segments) /\ Head(rest) = segments[i]
             /\ Len(rest) \in Nat /\ Len(segments) \in Nat
             /\ IsRest(Tail(rest), segments) /\ Len(segments) - Len(Tail(rest)) = i
<1>1. PICK n \in Nat : n = Len(segments)
  <2>1. segments \in Seq(Range(segments))
    BY DEF IsElf
  <2> QED BY <2>1, LenProperties
<1>2. PICK k \in Nat : k = Len(rest)
  BY LenProperties DEF IsRest
<1>3. k >= 1 /\ k <= n
  BY <1>1, <1>2, EmptySeq DEF IsRest
<1>4. Head(rest) = rest[1] /\ Tail(rest) \in Seq(Range(segments)) /\ Len(Tail(rest)) = k - 1
      /\ \A j \in 1 .. k - 1 : Tail(rest)[j] = rest[j + 1]
  BY <1>2, HeadTailProperties DEF IsRest
<1>5. \A j \in 1 .. k : rest[j] = segments[n - k + j]
  BY <1>1, <1>2 DEF IsRest
<1>6. \A j \in 1 .. k - 1 : Tail(rest)[j] = segments[n - (k - 1) + j]
  <2> SUFFICES ASSUME NEW j \in 1 .. k - 1 PROVE Tail(rest)[j] = segments[n - (k - 1) + j]
    OBVIOUS
  <2>1. j + 1 \in 1 .. k /\ n - k + (j + 1) = n - (k - 1) + j
    OBVIOUS
  <2> QED BY <1>4, <1>5, <2>1
<1>7. IsRest(Tail(rest), segments)
  BY <1>1, <1>3, <1>4, <1>6 DEF IsRest
<1> QED BY <1>1, <1>2, <1>3, <1>4, <1>5, <1>7

LEMMA WholeRest == ASSUME NEW segments, IsElf(segments) PROVE IsRest(segments, segments)
<1>1. segments \in Seq(Range(segments)) /\ Len(segments) \in Nat
  BY LenProperties DEF IsElf
<1>2. PICK n \in Nat : n = Len(segments)
  BY <1>1
<1>3. \A i \in 1 .. n : n - n + i = i
  OBVIOUS
<1> QED BY <1>1, <1>2, <1>3 DEF IsRest

-----------------------------------------------------------------------------
(* The tool *)

LEMMA Failing == ASSUME IInv, Fail PROVE IInv'
BY DEF IInv, Fail, Loading, Alive, Steps, cartVars

LEMMA Nothing == ASSUME IInv, UNCHANGED cartVars, UNCHANGED step PROVE IInv'
<1>1. UNCHANGED <<input, todo, ran, rom, script, ramMax, ram, heap, task, step>>
  BY DEF cartVars
<1>2. BootLoaded' = BootLoaded /\ MainLoaded' = MainLoaded /\ Alive' = Alive
  BY <1>1 DEF BootLoaded, MainLoaded, Alive
<1>3. Loading => Loading'
  BY <1>1 DEF Loading
<1>4. BootPlaced => BootPlaced'
  BY <1>1, <1>2 DEF BootPlaced, Held
<1>5. MainPlaced => MainPlaced'
  BY <1>1, <1>2 DEF MainPlaced, Placed, Held
<1>6. ScriptMade => ScriptMade'
  BY <1>1, <1>2 DEF ScriptMade, HeapIn
<1>7. ScriptRun => ScriptRun'
  BY <1>1 DEF ScriptRun, Filled, HeapIn
<1> QED BY <1>2, <1>3, <1>4, <1>5, <1>6, <1>7 DEF IInv

LEMMA LoadBootSegmentStep == ASSUME IInv, LoadBootSegment PROVE IInv'
<1>1. PICK s : s = Head(todo)
  OBVIOUS
<1> DEFINE wanted == s.load /\ s.data # <<>>
<1>2. CASE wanted /\ ~CanCopy(s)
  BY <1>1, <1>2, Failing DEF LoadBootSegment
<1>3. CASE ~(wanted /\ ~CanCopy(s))
  <2>1. /\ step = "bootloader" /\ todo # <<>> /\ todo' = Tail(todo)
        /\ rom' = IF wanted THEN Copied(s) ELSE rom
        /\ UNCHANGED <<input, ran, script, ramMax, ram, heap, task, step>>
    BY <1>1, <1>3 DEF LoadBootSegment
  <2>2. Loading /\ BootPlaced /\ MainPlaced /\ ScriptMade /\ ScriptRun
    BY <2>1 DEF IInv, Alive
  <2>3. IsElf(input.boot) /\ IsRest(todo, input.boot) /\ \A i \in 1 .. Len(input.boot) : Segment(input.boot[i])
    BY <2>1, <2>2, InputLemma DEF Loading
  <2>4. PICK n \in 1 .. Len(input.boot) :
          /\ s = input.boot[n] /\ IsRest(todo', input.boot)
          /\ BootLoaded = n - 1 /\ Len(input.boot) - Len(todo') = n
    <3>1. PICK n : n = Len(input.boot) - Len(todo) + 1
      OBVIOUS
    <3>2. /\ n \in 1 .. Len(input.boot) /\ Head(todo) = input.boot[n]
          /\ IsRest(Tail(todo), input.boot) /\ Len(input.boot) - Len(Tail(todo)) = n
          /\ Len(input.boot) \in Nat /\ Len(todo) \in Nat
      BY <2>1, <2>3, <3>1, RestLemma
    <3> QED BY <1>1, <2>1, <3>1, <3>2 DEF BootLoaded
  <2>5. BootLoaded' = n
    BY <2>1, <2>4 DEF BootLoaded
  <2>6. Segment(s)
    BY <2>3, <2>4
  <2>7. \A t : Segment(t) /\ Held(t) => Held(t)'
    <3>1. CASE wanted
      BY <1>3, <2>1, <2>6, <3>1, CopyKeeps
    <3>2. CASE ~wanted
      BY <2>1, <3>2 DEF Held
    <3> QED BY <3>1, <3>2
  <2>8. s.load => Held(s)'
    <3>1. CASE wanted
      BY <1>3, <2>1, <2>6, <3>1, CopyKeeps
    <3>2. CASE s.data = <<>>
      <4>1. 1 .. Len(s.data) = {}
        BY <3>2
      <4> QED BY <4>1 DEF Held
    <3> QED BY <3>1, <3>2
  <2>9. BootPlaced'
    <3> SUFFICES ASSUME NEW i \in 1 .. n, input.boot[i].load PROVE Held(input.boot[i])'
      BY <2>1, <2>5 DEF BootPlaced, Held
    <3>1. PICK t : t = input.boot[i]
      OBVIOUS
    <3>2. t' = t /\ (input.boot[i])' = t
      BY <2>1, <3>1
    <3>3. CASE i = n
      BY <2>1, <2>4, <2>8, <3>1, <3>3 DEF Held
    <3>4. CASE i # n
      <4>1. i \in 1 .. BootLoaded /\ i \in 1 .. Len(input.boot)
        BY <2>4, <3>4
      <4>2. Held(t)'
        BY <2>2, <2>3, <2>7, <3>1, <4>1 DEF BootPlaced
      <4> QED BY <2>1, <3>1, <4>2 DEF Held
    <3> QED BY <3>3, <3>4
  <2>10. MainLoaded' = 0 /\ MainLoaded = 0
    BY <2>1 DEF MainLoaded
  <2>11. MainPlaced' /\ ScriptMade'
    BY <2>1, <2>2, <2>10 DEF MainPlaced, ScriptMade, HeapIn
  <2>12. ScriptRun'
    BY <2>1, <2>2 DEF ScriptRun
  <2>13. Loading'
    BY <2>1, <2>2, <2>4 DEF Loading
  <2> QED BY <2>9, <2>11, <2>12, <2>13 DEF IInv
<1> QED BY <1>2, <1>3

LEMMA LoadBootEndStep == ASSUME IInv, LoadBootEnd PROVE IInv'
<1>1. /\ step = "bootloader" /\ todo = <<>> /\ step' = "main" /\ todo' = input.main
      /\ UNCHANGED <<input, ran, rom, script, ramMax, ram, heap, task>>
  BY DEF LoadBootEnd
<1>2. Loading /\ BootPlaced /\ MainPlaced /\ ScriptMade /\ ScriptRun
  BY <1>1 DEF IInv, Alive
<1>3. Len(input.boot) \in Nat /\ Len(input.main) \in Nat /\ IsRest(input.main, input.main)
  BY <1>2, InputLemma, WholeRest DEF Loading
<1>4. BootLoaded = Len(input.boot) /\ BootLoaded' = Len(input.boot)
  BY <1>1, <1>3 DEF BootLoaded
<1>5. MainLoaded = 0 /\ MainLoaded' = 0
  BY <1>1, <1>3 DEF MainLoaded
<1>6. Loading'
  BY <1>1, <1>2, <1>3 DEF Loading, Steps
<1>7. BootPlaced'
  BY <1>1, <1>2, <1>4 DEF BootPlaced, Held
<1>8. MainPlaced' /\ ScriptMade'
  BY <1>1, <1>2, <1>5 DEF MainPlaced, ScriptMade, HeapIn
<1>9. ScriptRun'
  BY <1>1, <1>2 DEF ScriptRun, Filled
<1> QED BY <1>6, <1>7, <1>8, <1>9 DEF IInv

\* An operation is added to the script.
LEMMA ScriptGrows ==
  ASSUME NEW S, script \in Seq(S), NEW op, script' = script \o <<op>>
  PROVE  /\ \E T : script' \in Seq(T)
         /\ Len(script) \in Nat /\ Len(script') = Len(script) + 1
         /\ \A j \in 1 .. Len(script) : script'[j] = script[j]
         /\ script'[Len(script) + 1] = op
<1>1. script \in Seq(S \cup {op}) /\ <<op>> \in Seq(S \cup {op}) /\ Len(<<op>>) = 1 /\ <<op>>[1] = op
  BY SeqMonotonic
<1>2. script' \in Seq(S \cup {op}) /\ Len(script') = Len(script) + 1 /\ Len(script) \in Nat
      /\ \A j \in 1 .. Len(script) + 1 :
           script'[j] = IF j <= Len(script) THEN script[j] ELSE <<op>>[j - Len(script)]
  BY <1>1, ConcatProperties, LenProperties
<1> QED BY <1>1, <1>2

LEMMA MaxLemma ==
  ASSUME NEW x \in Nat, NEW y \in Nat, NEW E, E = {} \/ E = {y}
  PROVE  /\ Max(E \cup {x}) \in E \cup {x} /\ Max(E \cup {x}) >= x
         /\ E = {y} => Max(E \cup {x}) >= y
<1>1. \E z \in E \cup {x} : \A w \in E \cup {x} : z >= w
  OBVIOUS
<1>2. Max(E \cup {x}) \in E \cup {x} /\ \A w \in E \cup {x} : Max(E \cup {x}) >= w
  BY <1>1 DEF Max
<1> QED BY <1>2

LEMMA LoadMainSegmentStep == ASSUME IInv, LoadMainSegment PROVE IInv'
<1>1. PICK s : s = Head(todo)
  OBVIOUS
<1>2. CASE ~Accepted(s)
  BY <1>1, <1>2, Failing DEF LoadMainSegment
<1>3. CASE Accepted(s)
  <2> DEFINE ends == {e \in {s.vaddr + s.memsz} \cap Ram : s.memsz > 0}
  <2>1. /\ step = "main" /\ todo # <<>> /\ todo' = Tail(todo)
        /\ ramMax' = Max(ends \cup {ramMax})
        /\ rom' = (IF Wanted(s) THEN Copied(s) ELSE rom)
        /\ script' = script \o ScriptFor(s)
        /\ UNCHANGED <<input, ran, ram, heap, task, step>>
    BY <1>1, <1>3 DEF LoadMainSegment
  <2>2. Loading /\ BootPlaced /\ MainPlaced /\ ScriptMade /\ ScriptRun
    BY <2>1 DEF IInv, Alive
  <2>3. /\ IsElf(input.main) /\ IsRest(todo, input.main)
        /\ \A i \in 1 .. Len(input.main) : Segment(input.main[i])
        /\ \A i \in 1 .. Len(input.boot) : Segment(input.boot[i])
        /\ Len(input.main) \in Nat /\ Len(input.boot) \in Nat
    BY <2>1, <2>2, InputLemma DEF Loading
  <2>4. PICK n \in 1 .. Len(input.main) :
          /\ s = input.main[n] /\ IsRest(todo', input.main)
          /\ MainLoaded = n - 1 /\ Len(input.main) - Len(todo') = n
    <3>1. PICK n : n = Len(input.main) - Len(todo) + 1
      OBVIOUS
    <3>2. /\ n \in 1 .. Len(input.main) /\ Head(todo) = input.main[n]
          /\ IsRest(Tail(todo), input.main) /\ Len(input.main) - Len(Tail(todo)) = n
          /\ Len(input.main) \in Nat /\ Len(todo) \in Nat
      BY <2>1, <2>3, <3>1, RestLemma
    <3>3. MainLoaded = Len(input.main) - Len(todo)
      BY <2>1 DEF MainLoaded
    <3>4. Len(input.main) - Len(todo) = n - 1
      BY <3>1, <3>2
    <3>5. s = input.main[n] /\ IsRest(todo', input.main) /\ Len(input.main) - Len(todo') = n
      BY <1>1, <2>1, <3>2
    <3> QED BY <3>2, <3>3, <3>4, <3>5
  <2>5. MainLoaded' = n /\ BootLoaded = Len(input.boot) /\ BootLoaded' = Len(input.boot)
    BY <2>1, <2>4 DEF MainLoaded, BootLoaded
  <2>6. Segment(s)
    BY <2>3, <2>4
  <2>7. \A t : Segment(t) /\ Held(t) => Held(t)'
    <3>1. CASE Wanted(s)
      BY <1>3, <2>1, <2>6, <3>1, CopyKeeps DEF Accepted
    <3>2. CASE ~Wanted(s)
      BY <2>1, <3>2 DEF Held
    <3> QED BY <3>1, <3>2
  <2>8. /\ ramMax' \in Ram /\ ramMax' >= ramMax /\ ramMax \in Nat /\ ramMax >= KernelRam
        /\ s.memsz > 0 /\ s.vaddr + s.memsz \in Ram => s.vaddr + s.memsz <= ramMax'
    <3>1. PICK e \in Nat : e = s.vaddr + s.memsz
      BY <2>6 DEF Segment
    <3>2. ends = {} \/ ends = {e}
      BY <3>1
    <3>3. ends \subseteq Ram /\ ramMax \in Ram /\ ramMax \in Nat /\ Ram \subseteq Nat
          /\ ramMax >= KernelRam
      BY <2>2, MemoriesApart DEF Loading
    <3>4. s.memsz > 0 /\ s.vaddr + s.memsz \in Ram => ends = {e}
      BY <3>1
    <3> HIDE DEF ends
    <3>5. /\ Max(ends \cup {ramMax}) \in ends \cup {ramMax} /\ Max(ends \cup {ramMax}) >= ramMax
          /\ ends = {e} => Max(ends \cup {ramMax}) >= e
      BY <3>2, <3>3, MaxLemma
    <3>6. PICK x \in Nat : x = ramMax'
      BY <2>1, <3>3, <3>5
    <3> QED BY <2>1, <3>1, <3>3, <3>4, <3>5, <3>6
  <2> HIDE DEF ends
  <2>9. PICK S : script \in Seq(S)
    BY <2>2 DEF ScriptMade
  <2>10. \/ ScriptFor(s) = <<>> /\ script' = script
         \/ /\ Wanted(s) /\ (s.data = <<>> \/ s.vaddr # s.paddr)
            /\ ScriptFor(s) # <<>> /\ script' = script \o <<OpFor(s)>>
    <3>1. CASE ScriptFor(s) = <<>>
      BY <2>1, <2>9, <3>1, ConcatEmptySeq
    <3>2. CASE ScriptFor(s) # <<>>
      BY <2>1, <2>6, <3>2, ScriptForLemma
    <3> QED BY <3>1, <3>2
  <2>11. /\ \E T : script' \in Seq(T)
         /\ Len(script) \in Nat /\ Len(script') \in Nat /\ Len(script') >= Len(script)
         /\ \A j \in 1 .. Len(script) : script'[j] = script[j]
    <3>1. CASE script' = script
      BY <2>9, <3>1, LenProperties
    <3>2. CASE script' = script \o <<OpFor(s)>>
      BY <2>9, <3>2, ScriptGrows
    <3> QED BY <2>10, <3>1, <3>2
  <2>12. \A j \in 1 .. Len(script') :
           \/ j \in 1 .. Len(script) /\ script'[j] = script[j]
           \/ /\ ScriptFor(s) # <<>> /\ script'[j] = OpFor(s) /\ Wanted(s) /\ Filling(OpFor(s))
    <3>1. CASE script' = script
      BY <3>1
    <3>2. CASE ScriptFor(s) # <<>> /\ script' = script \o <<OpFor(s)>>
      <4>1. /\ Len(script) \in Nat /\ Len(script') = Len(script) + 1
            /\ \A j \in 1 .. Len(script) : script'[j] = script[j]
            /\ script'[Len(script) + 1] = OpFor(s)
        BY <2>9, <3>2, ScriptGrows
      <4>2. Wanted(s) /\ Filling(OpFor(s))
        BY <2>6, <2>10, <3>2, ScriptForLemma
      <4> QED BY <3>2, <4>1, <4>2
    <3> QED BY <2>10, <3>1, <3>2
  <2>13. ScriptFor(s) # <<>> => \E j \in 1 .. Len(script') : script'[j] = OpFor(s)
    <3> SUFFICES ASSUME ScriptFor(s) # <<>> PROVE \E j \in 1 .. Len(script') : script'[j] = OpFor(s)
      OBVIOUS
    <3>1. script' = script \o <<OpFor(s)>>
      BY <2>10
    <3>2. /\ Len(script) \in Nat /\ Len(script') = Len(script) + 1
          /\ script'[Len(script) + 1] = OpFor(s)
      BY <2>9, <3>1, ScriptGrows
    <3>3. Len(script) + 1 \in 1 .. Len(script')
      BY <3>2
    <3> QED BY <3>2, <3>3
  <2>14. ASSUME Wanted(s) PROVE Placed(s)'
    <3>1. Held(s)'
      <4>1. s.data = <<>> \/ CanCopy(s)
        BY <1>3, <2>14 DEF Accepted
      <4> QED BY <2>1, <2>6, <2>14, <4>1, CopyKeeps
    <3>2. s.data # <<>> => Len(s.data) = s.memsz
      BY <1>3, <2>14 DEF Accepted
    <3>3. ScriptFor(s) = <<>> => s.vaddr = s.paddr /\ s.data # <<>>
      BY <2>6, <2>14, ScriptForLemma
    <3>4. ScriptFor(s) # <<>> => RangeIn(Ram, s.vaddr, s.memsz) /\ s.vaddr + s.memsz <= ramMax'
      <4>1. ScriptFor(s) # <<>> => RangeIn(Ram, s.vaddr, s.memsz)
        BY <1>3 DEF Accepted
      <4>2. s.memsz > 0
        BY <2>14 DEF Wanted
      <4> QED BY <2>8, <4>1, <4>2 DEF RangeIn
    <3> QED BY <2>13, <3>1, <3>2, <3>3, <3>4 DEF Placed
  <2>15. ASSUME NEW t, Segment(t), Placed(t) PROVE Placed(t)'
    <3>1. Held(t)'
      <4>1. Held(t)
        BY <2>15 DEF Placed
      <4> QED BY <2>7, <2>15, <4>1
    <3>2. ScriptFor(t) # <<>> => \E j \in 1 .. Len(script') : script'[j] = OpFor(t)
      <4>1. \A j \in 1 .. Len(script) : j \in 1 .. Len(script') /\ script'[j] = script[j]
        BY <2>11
      <4> QED BY <2>15, <4>1 DEF Placed
    <3>3. ScriptFor(t) # <<>> => t.vaddr + t.memsz <= ramMax'
      <4>1. t.vaddr + t.memsz \in Nat
        BY <2>15 DEF Segment
      <4>2. PICK x \in Nat : x = ramMax'
        BY <2>8, MemoriesApart
      <4> QED BY <2>8, <2>15, <4>1, <4>2 DEF Placed
    <3>4. /\ t.data # <<>> => Len(t.data) = t.memsz
          /\ ScriptFor(t) = <<>> => t.vaddr = t.paddr /\ t.data # <<>>
          /\ ScriptFor(t) # <<>> => RangeIn(Ram, t.vaddr, t.memsz)
      BY <2>15 DEF Placed
    <3> QED BY <3>1, <3>2, <3>3, <3>4 DEF Placed
  <2>16. MainPlaced'
    <3> SUFFICES ASSUME NEW i \in 1 .. n, Wanted(input.main[i]) PROVE Placed(input.main[i])'
      BY <2>1, <2>5 DEF MainPlaced, Placed, Held
    <3>1. PICK t : t = input.main[i]
      OBVIOUS
    <3>2. i \in 1 .. Len(input.main)
      BY <2>3, <2>4
    <3>3. CASE i = n
      BY <2>1, <2>4, <2>14, <3>1, <3>3 DEF Placed, Held
    <3>4. CASE i # n
      <4>1. i \in 1 .. MainLoaded
        BY <2>4, <3>4
      <4>2. Placed(t)'
        BY <2>2, <2>3, <2>15, <3>1, <3>2, <4>1 DEF MainPlaced
      <4> QED BY <2>1, <3>1, <4>2 DEF Placed, Held
    <3> QED BY <3>3, <3>4
  <2>17. BootPlaced'
    <3> SUFFICES ASSUME NEW i \in 1 .. Len(input.boot), input.boot[i].load PROVE Held(input.boot[i])'
      BY <2>1, <2>5 DEF BootPlaced, Held
    <3>1. PICK t : t = input.boot[i]
      OBVIOUS
    <3>2. Held(t)'
      BY <2>2, <2>3, <2>5, <2>7, <3>1 DEF BootPlaced
    <3> QED BY <2>1, <3>1, <3>2 DEF Held
  <2>18. ScriptMade'
    <3>1. ASSUME NEW j \in 1 .. Len(script')
          PROVE  /\ Filling(script'[j])
                 /\ script'[j].code # "HEAP"
                 /\ \E i \in 1 .. n :
                      Wanted(input.main[i]) /\ ScriptFor(input.main[i]) # <<>> /\ script'[j] = OpFor(input.main[i])
      <4>1. CASE j \in 1 .. Len(script) /\ script'[j] = script[j]
        <5>1. Filling(script[j])
          BY <2>1, <2>2, <4>1 DEF ScriptMade
        <5>2. PICK i \in 1 .. MainLoaded :
                Wanted(input.main[i]) /\ ScriptFor(input.main[i]) # <<>> /\ script[j] = OpFor(input.main[i])
          BY <2>2, <4>1, <5>1 DEF ScriptMade
        <5>3. i \in 1 .. n
          BY <2>4, <5>2
        <5> QED BY <4>1, <5>1, <5>2, <5>3 DEF Filling
      <4>2. CASE ScriptFor(s) # <<>> /\ script'[j] = OpFor(s) /\ Wanted(s) /\ Filling(OpFor(s))
        BY <2>4, <4>2 DEF Filling
      <4> QED BY <2>12, <4>1, <4>2
    <3> QED BY <2>1, <2>5, <2>11, <3>1 DEF ScriptMade, Filling, OpFor, HeapIn
  <2>19. ScriptRun'
    <3>1. ran' = 0 /\ ran = 0
      BY <2>1, <2>2 DEF ScriptRun
    <3>2. \A j \in 1 .. ran' : FALSE
      BY <3>1
    <3> QED BY <2>1, <2>11, <3>1, <3>2 DEF ScriptRun
  <2>20. Loading'
    BY <2>1, <2>2, <2>4, <2>8, MemoriesApart, Constants DEF Loading, Ram
  <2> QED BY <2>16, <2>17, <2>18, <2>19, <2>20 DEF IInv
<1> QED BY <1>2, <1>3

-----------------------------------------------------------------------------
(* The heap and the task *)

\* The heap starts at the first multiple of its alignment that is free.
LEMMA MultipleUp ==
  ASSUME NEW x \in Nat, NEW a \in Nat \ {0}
  PROVE  LET start == ((x + a - 1) \div a) * a
         IN  start \in Nat /\ start >= x /\ start % a = 0
<1>1. PICK q \in Int : q = (x + a - 1) \div a
  OBVIOUS
<1>2. PICK z \in Int : z = q * a
  OBVIOUS
<1>3. x + a - 1 = a * q + ((x + a - 1) % a) /\ (x + a - 1) % a \in 0 .. a - 1
  BY <1>1
<1>4. x + a - 1 <= z + (a - 1)
  BY <1>2, <1>3
<1>5. z >= x
  BY <1>4
<1>6. PICK d \in Int : d = z \div a
  OBVIOUS
<1>7. PICK r \in 0 .. a - 1 : r = (z % a)
  OBVIOUS
<1>8. z = a * d + r
  BY <1>6, <1>7
<1>9. a * (q - d) = r
  BY <1>2, <1>8
<1>10. q - d >= 1 => a * (q - d) >= a
  OBVIOUS
<1>11. q - d <= -1 => a * (q - d) <= -a
  OBVIOUS
<1>12. q - d = 0
  BY <1>9, <1>10, <1>11
<1>13. r = 0
  BY <1>9, <1>12
<1> QED BY <1>1, <1>2, <1>5, <1>7, <1>13

\* A longer script fills what it filled before.
LEMMA ScriptKeepsPlaced ==
  ASSUME NEW t, Placed(t), UNCHANGED <<rom, ramMax>>,
         \A j \in 1 .. Len(script) : j \in 1 .. Len(script') /\ script'[j] = script[j]
  PROVE  Placed(t)'
<1>1. Held(t)'
  BY DEF Placed, Held
<1>2. ScriptFor(t) # <<>> => \E j \in 1 .. Len(script') : script'[j] = OpFor(t)
  BY DEF Placed
<1>3. /\ t.data # <<>> => Len(t.data) = t.memsz
      /\ ScriptFor(t) = <<>> => t.vaddr = t.paddr /\ t.data # <<>>
      /\ ScriptFor(t) # <<>> => RangeIn(Ram, t.vaddr, t.memsz) /\ t.vaddr + t.memsz <= ramMax
  BY DEF Placed
<1> QED BY <1>1, <1>2, <1>3 DEF Placed

\* When both files are loaded, operations are added that fill no RAM.
LEMMA OpsAdded ==
  ASSUME Loading, BootPlaced, MainPlaced, ScriptMade, ScriptRun,
         BootLoaded = Len(input.boot), MainLoaded = Len(input.main), ran = 0,
         step' \in {"fs", "boot"}, UNCHANGED <<input, ran, rom, ramMax, ram, heap>>,
         NEW T, script' \in Seq(T),
         Len(script) \in Nat, Len(script') \in Nat, Len(script') >= Len(script),
         \A j \in 1 .. Len(script) : script'[j] = script[j],
         \A j \in Len(script) + 1 .. Len(script') :
           /\ ~Filling(script'[j])
           /\ script'[j].code = "HEAP" => HeapIn(script'[j].to, script'[j].size),
         \E j \in 1 .. Len(script') : script'[j].code = "HEAP"
  PROVE  IInv'
<1>1. BootLoaded' = Len(input.boot) /\ MainLoaded' = Len(input.main)
  BY DEF BootLoaded, MainLoaded
<1>2. \A j \in 1 .. Len(script) : j \in 1 .. Len(script') /\ script'[j] = script[j]
  OBVIOUS
<1>3. Loading'
  BY DEF Loading, Steps
<1>4. BootPlaced'
  BY <1>1 DEF BootPlaced, Held
<1>5. MainPlaced'
  <2> SUFFICES ASSUME NEW i \in 1 .. Len(input.main), Wanted(input.main[i]) PROVE Placed(input.main[i])'
    BY <1>1 DEF MainPlaced, Placed, Held
  <2>1. PICK t : t = input.main[i]
    OBVIOUS
  <2>2. Placed(t)
    BY <2>1 DEF MainPlaced
  <2>3. Placed(t)'
    BY <1>2, <2>2, ScriptKeepsPlaced
  <2> QED BY <2>1, <2>3 DEF Placed, Held
<1>6. ASSUME NEW j \in 1 .. Len(script')
      PROVE  /\ Filling(script'[j]) => \E i \in 1 .. Len(input.main) :
                  Wanted(input.main[i]) /\ ScriptFor(input.main[i]) # <<>> /\ script'[j] = OpFor(input.main[i])
             /\ script'[j].code = "HEAP" => HeapIn(script'[j].to, script'[j].size)
  <2>1. CASE j \in 1 .. Len(script)
    <3>1. script'[j] = script[j]
      BY <2>1
    <3> QED BY <2>1, <3>1 DEF ScriptMade
  <2>2. CASE j \in Len(script) + 1 .. Len(script')
    BY <2>2
  <2> QED BY <2>1, <2>2
<1>7. ScriptMade'
  <2>1. \E S : script' \in Seq(S)
    OBVIOUS
  <2>2. step' \notin {"bootloader", "main"}
    OBVIOUS
  <2> QED BY <1>1, <1>6, <2>1, <2>2 DEF ScriptMade, Filling, OpFor, HeapIn
<1>8. ScriptRun'
  BY DEF ScriptRun
<1> QED BY <1>3, <1>4, <1>5, <1>7, <1>8 DEF IInv

LEMMA LoadMainEndStep == ASSUME IInv, LoadMainEnd PROVE IInv'
<1>1. PICK start : start = ((ramMax + HeapAlign - 1) \div HeapAlign) * HeapAlign
  OBVIOUS
<1>2. PICK size : size = RamLen - start
  OBVIOUS
<1> DEFINE refused == \/ ~(Addresses \subseteq Ram \cup Rom)
                     \/ size < input.stack \/ Len(script) + 2 > ScriptLen
<1>3. CASE refused
  BY <1>1, <1>2, <1>3, Failing DEF LoadMainEnd
<1>4. CASE ~refused
  <2> DEFINE h == [code |-> "HEAP", from |-> 0, to |-> start, size |-> size]
             e == [code |-> "EXEC", from |-> input.entry, to |-> 0, size |-> input.stack]
  <2>1. /\ step = "main" /\ todo = <<>>
        /\ script' = script \o <<h, e>> /\ step' \in {"fs", "boot"}
        /\ UNCHANGED <<input, todo, ran, rom, ramMax, ram, heap, task>>
    BY <1>1, <1>2, <1>4 DEF LoadMainEnd
  <2>2. Loading /\ BootPlaced /\ MainPlaced /\ ScriptMade /\ ScriptRun
    BY <2>1 DEF IInv, Alive
  <2>3. Len(input.main) \in Nat
    BY <2>2, InputLemma DEF Loading
  <2>4. BootLoaded = Len(input.boot) /\ MainLoaded = Len(input.main) /\ ran = 0
    BY <2>1, <2>2, <2>3 DEF BootLoaded, MainLoaded, ScriptRun
  <2>5. HeapIn(start, size)
    <3>1. ramMax \in Nat
      BY <2>2, MemoriesApart DEF Loading
    <3>2. start \in Nat /\ start >= ramMax /\ start % HeapAlign = 0
      BY <1>1, <3>1, Constants, MultipleUp
    <3>3. start + size = RamLen
      BY <1>2, <3>2, Constants
    <3> QED BY <3>2, <3>3 DEF HeapIn
  <2>6. h.code = "HEAP" /\ h.to = start /\ h.size = size /\ e.code = "EXEC"
    OBVIOUS
  <2> HIDE DEF h, e
  <2>7. PICK S : script \in Seq(S)
    BY <2>2 DEF ScriptMade
  <2>8. PICK n \in Nat : n = Len(script)
    BY <2>7, LenProperties
  <2>9. /\ script \in Seq(S \cup {h, e}) /\ <<h, e>> \in Seq(S \cup {h, e})
        /\ Len(<<h, e>>) = 2 /\ <<h, e>>[1] = h /\ <<h, e>>[2] = e
    BY <2>7, SeqMonotonic
  <2>10. /\ script' \in Seq(S \cup {h, e}) /\ Len(script') = n + 2
         /\ \A j \in 1 .. n + 2 : script'[j] = IF j <= n THEN script[j] ELSE <<h, e>>[j - n]
    BY <2>1, <2>8, <2>9, ConcatProperties
  <2>11. /\ \A j \in 1 .. n : script'[j] = script[j]
         /\ script'[n + 1] = h /\ script'[n + 2] = e
    <3>1. \A j \in 1 .. n : script'[j] = script[j]
      BY <2>10
    <3>2. script'[n + 1] = <<h, e>>[n + 1 - n] /\ script'[n + 2] = <<h, e>>[n + 2 - n]
      BY <2>10
    <3>3. n + 1 - n = 1 /\ n + 2 - n = 2
      OBVIOUS
    <3> QED BY <2>9, <3>1, <3>2, <3>3
  <2>12. \A j \in n + 1 .. n + 2 :
           /\ ~Filling(script'[j])
           /\ script'[j].code = "HEAP" => HeapIn(script'[j].to, script'[j].size)
    <3>1. \A j \in n + 1 .. n + 2 : j = n + 1 \/ j = n + 2
      OBVIOUS
    <3>2. ~Filling(h) /\ ~Filling(e) /\ e.code # "HEAP" /\ HeapIn(h.to, h.size)
      BY <2>5, <2>6 DEF Filling
    <3> QED BY <2>11, <3>1, <3>2
  <2>13. \E j \in 1 .. Len(script') : script'[j].code = "HEAP"
    <3>1. n + 1 \in 1 .. Len(script')
      BY <2>10
    <3> QED BY <2>6, <2>11, <3>1
  <2>14. /\ Len(script) \in Nat /\ Len(script') \in Nat /\ Len(script') >= Len(script)
         /\ \A j \in 1 .. Len(script) : script'[j] = script[j]
         /\ \A j \in Len(script) + 1 .. Len(script') :
              /\ ~Filling(script'[j])
              /\ script'[j].code = "HEAP" => HeapIn(script'[j].to, script'[j].size)
    BY <2>8, <2>10, <2>11, <2>12
  <2>15. PICK T : script' \in Seq(T)
    BY <2>10
  <2> QED BY <2>1, <2>2, <2>4, <2>13, <2>14, <2>15, OpsAdded
<1> QED BY <1>3, <1>4

LEMMA LoadFsStep == ASSUME IInv, LoadFs PROVE IInv'
<1>1. CASE (FsBegin \/ DumpRoot \/ DumpNext \/ DumpEnd) /\ UNCHANGED <<cartVars, step>>
  BY <1>1, Nothing
<1>2. CASE Fail
  BY <1>2, Failing
<1>3. ASSUME Len(script) < ScriptLen, step' = "boot",
             script' = Append(script, [code |-> "%FSM", from |-> FsStart, to |-> 0, size |-> len]),
             UNCHANGED <<input, todo, ran, rom, ramMax, ram, heap, task>>
      PROVE  IInv'
  <2> DEFINE op == [code |-> "%FSM", from |-> FsStart, to |-> 0, size |-> len]
  <2>1. step = "fs"
    BY DEF LoadFs
  <2>2. Loading /\ BootPlaced /\ MainPlaced /\ ScriptMade /\ ScriptRun
    BY <2>1 DEF IInv, Alive
  <2>3. BootLoaded = Len(input.boot) /\ MainLoaded = Len(input.main) /\ ran = 0
    BY <2>1, <2>2 DEF BootLoaded, MainLoaded, ScriptRun
  <2>4. op.code = "%FSM" /\ ~Filling(op)
    BY DEF Filling
  <2>5. script' = Append(script, op)
    BY <1>3
  <2> HIDE DEF op
  <2>6. PICK S : script \in Seq(S)
    BY <2>2 DEF ScriptMade
  <2>7. PICK n \in Nat : n = Len(script)
    BY <2>6, LenProperties
  <2>8. script \in Seq(S \cup {op}) /\ op \in S \cup {op}
    BY <2>6, SeqMonotonic
  <2>9. /\ script' \in Seq(S \cup {op}) /\ Len(script') = n + 1
        /\ \A j \in 1 .. n : script'[j] = script[j]
        /\ script'[n + 1] = op
    BY <2>5, <2>7, <2>8, AppendProperties
  <2>10. \A j \in n + 1 .. n + 1 :
           /\ ~Filling(script'[j])
           /\ script'[j].code = "HEAP" => HeapIn(script'[j].to, script'[j].size)
    BY <2>4, <2>9
  <2>11. \E j \in 1 .. Len(script') : script'[j].code = "HEAP"
    <3>1. PICK j \in 1 .. Len(script) : script[j].code = "HEAP"
      BY <2>1, <2>2 DEF ScriptMade
    <3> QED BY <2>7, <2>9, <3>1
  <2> QED BY <1>3, <2>2, <2>3, <2>7, <2>9, <2>10, <2>11, OpsAdded
<1>4. \/ (FsBegin \/ DumpRoot \/ DumpNext \/ DumpEnd) /\ UNCHANGED <<cartVars, step>>
      \/ Fail
      \/ /\ Len(script) < ScriptLen /\ step' = "boot"
         /\ script' = Append(script, [code |-> "%FSM", from |-> FsStart, to |-> 0, size |-> len])
         /\ UNCHANGED <<input, todo, ran, rom, ramMax, ram, heap, task>>
  BY DEF LoadFs
<1> QED BY <1>1, <1>2, <1>3, <1>4

-----------------------------------------------------------------------------
(* The kernel *)

\* An operation that fills RAM is that of a segment, whose part of RAM it fills.
LEMMA OpRange ==
  ASSUME Loading, MainPlaced, ScriptMade, step = "boot" \/ step = "run",
         NEW j \in 1 .. Len(script), Filling(script[j])
  PROVE  \E i \in 1 .. Len(input.main) :
           /\ Wanted(input.main[i]) /\ script[j] = OpFor(input.main[i])
           /\ script[j].to = input.main[i].vaddr /\ script[j].size = input.main[i].memsz
           /\ script[j].to .. script[j].to + script[j].size - 1 \subseteq Ram
<1>1. MainLoaded = Len(input.main)
  BY DEF MainLoaded
<1>2. PICK i \in 1 .. Len(input.main) :
        Wanted(input.main[i]) /\ ScriptFor(input.main[i]) # <<>> /\ script[j] = OpFor(input.main[i])
  BY <1>1 DEF ScriptMade
<1>3. PICK s : s = input.main[i]
  OBVIOUS
<1>4. Segment(s)
  BY <1>3, InputLemma DEF Loading
<1>5. Placed(s)
  BY <1>1, <1>2, <1>3 DEF MainPlaced
<1>6. Wanted(s) /\ ScriptFor(s) # <<>> /\ script[j] = OpFor(s)
  BY <1>2, <1>3
<1>7. script[j].to = s.vaddr /\ (script[j].size = Len(s.data) \/ script[j].size = s.memsz)
      /\ (s.data = <<>> => script[j].size = s.memsz)
  BY <1>4, <1>6, ScriptForLemma
<1>8. script[j].to = s.vaddr /\ script[j].size = s.memsz
  BY <1>5, <1>7 DEF Placed
<1>9. s.vaddr .. s.vaddr + s.memsz - 1 \subseteq Ram
  <2>1. s.vaddr \in Ram /\ s.vaddr + s.memsz \in Ram
    BY <1>5, <1>6 DEF Placed, RangeIn
  <2>2. PICK v \in Nat, m \in Nat : v = s.vaddr /\ m = s.memsz
    BY <1>4 DEF Segment
  <2>3. v \in 0 .. RamLen - 1 /\ v + m \in 0 .. RamLen - 1 /\ RamLen \in Nat
    BY <2>1, <2>2, Constants DEF Ram
  <2>4. v .. v + m - 1 \subseteq 0 .. RamLen - 1
    BY <2>3
  <2> QED BY <2>2, <2>4 DEF Ram
<1> QED BY <1>2, <1>3, <1>8, <1>9

\* Two such operations are the same, or fill different parts of RAM.
LEMMA OpsApart ==
  ASSUME Loading, MainPlaced, ScriptMade, step = "boot",
         NEW j \in 1 .. Len(script), Filling(script[j]),
         NEW k \in 1 .. Len(script), Filling(script[k])
  PROVE  \/ script[j] = script[k]
         \/ \A a \in script[j].to .. script[j].to + script[j].size - 1 :
              a \notin script[k].to .. script[k].to + script[k].size - 1
<1>1. PICK i \in 1 .. Len(input.main) :
        /\ Wanted(input.main[i]) /\ script[j] = OpFor(input.main[i])
        /\ script[j].to = input.main[i].vaddr /\ script[j].size = input.main[i].memsz
  BY OpRange
<1>2. PICK l \in 1 .. Len(input.main) :
        /\ Wanted(input.main[l]) /\ script[k] = OpFor(input.main[l])
        /\ script[k].to = input.main[l].vaddr /\ script[k].size = input.main[l].memsz
  BY OpRange
<1>3. CASE i = l
  BY <1>1, <1>2, <1>3
<1>4. CASE i # l
  <2>1. PICK v \in Nat, m \in Nat : v = input.main[i].vaddr /\ m = input.main[i].memsz
    BY InputLemma DEF Loading, Segment
  <2>2. PICK w \in Nat, n \in Nat : w = input.main[l].vaddr /\ n = input.main[l].memsz
    BY InputLemma DEF Loading, Segment
  <2>3. v + m <= w \/ w + n <= v
    BY <1>1, <1>2, <1>4, <2>1, <2>2, ApartLemma DEF Loading
  <2>4. \A a \in v .. v + m - 1 : a \notin w .. w + n - 1
    BY <2>3
  <2> QED BY <1>1, <1>2, <2>1, <2>2, <2>4
<1> QED BY <1>3, <1>4

\* An operation whose effect lasts is executed.
LEMMA OpDone ==
  ASSUME IInv, step = "boot", ran < Len(script), ran' = ran + 1,
         UNCHANGED <<input, todo, rom, script, ramMax>>, step' = "boot",
         NEW op, op = script[ran + 1],
         Filled(op)', op.code = "HEAP" => HeapIn(heap'.start, heap'.size),
         \A j \in 1 .. ran : Filled(script[j]) => Filled(script[j])',
         heap' = heap \/ op.code = "HEAP"
  PROVE  IInv'
<1>1. Loading /\ BootPlaced /\ MainPlaced /\ ScriptMade /\ ScriptRun
  BY DEF IInv, Alive
<1>2. BootLoaded' = BootLoaded /\ MainLoaded' = MainLoaded
  BY DEF BootLoaded, MainLoaded
<1>3. Loading' /\ BootPlaced'
  BY <1>1, <1>2 DEF Loading, BootPlaced, Held, Steps
<1>4. MainPlaced'
  BY <1>1, <1>2 DEF MainPlaced, Placed, Held
<1>5. ScriptMade'
  BY <1>1, <1>2 DEF ScriptMade, HeapIn
<1>6. ScriptRun'
  <2>1. PICK S : script \in Seq(S)
    BY <1>1 DEF ScriptMade
  <2>2. PICK n \in Nat : n = Len(script)
    BY <2>1, LenProperties
  <2>3. ran \in 0 .. n /\ ran < n
    BY <1>1, <2>2 DEF ScriptRun
  <2>4. ran' \in 0 .. n
    BY <2>3
  <2>5. \A j \in 1 .. ran' : j \in 1 .. ran \/ j = ran + 1
    BY <2>3
  <2>6. ASSUME NEW j \in 1 .. ran'
        PROVE  Filled(script[j])' /\ (script[j].code = "HEAP" => HeapIn(heap'.start, heap'.size))
    <3>1. CASE j = ran + 1
      <4>1. Filled(op)' /\ script'[j] = op /\ script[j] = op
        BY <3>1
      <4>2. Filled(script[j])'
        BY <4>1 DEF Filled
      <4> QED BY <4>1, <4>2
    <3>2. CASE j \in 1 .. ran
      <4>1. Filled(script[j]) /\ (script[j].code = "HEAP" => HeapIn(heap.start, heap.size))
        BY <1>1, <3>2 DEF ScriptRun
      <4>2. Filled(script[j])'
        BY <3>2, <4>1
      <4>3. script[j].code = "HEAP" => HeapIn(heap'.start, heap'.size)
        <5>1. CASE heap' = heap
          BY <4>1, <5>1
        <5>2. CASE op.code = "HEAP"
          BY <5>2
        <5> QED BY <5>1, <5>2
      <4> QED BY <4>2, <4>3
    <3> QED BY <2>5, <3>1, <3>2
  <2> QED BY <2>2, <2>4, <2>6 DEF ScriptRun, HeapIn, Filled
<1> QED BY <1>3, <1>4, <1>5, <1>6 DEF IInv

\* An operation that fills RAM leaves what the others have filled.
LEMMA FillingOpDone ==
  ASSUME IInv, step = "boot", ran < Len(script), ran' = ran + 1,
         UNCHANGED <<input, todo, rom, script, ramMax, heap>>, step' = "boot",
         NEW op, op = script[ran + 1], Filling(op),
         \A a \in Ram : a \notin op.to .. op.to + op.size - 1 => ram'[a] = ram[a],
         op.to .. op.to + op.size - 1 \subseteq Ram => Filled(op)'
  PROVE  IInv'
<1>1. Loading /\ BootPlaced /\ MainPlaced /\ ScriptMade /\ ScriptRun
  BY DEF IInv, Alive
<1>2. PICK S : script \in Seq(S)
  BY <1>1 DEF ScriptMade
<1>3. PICK n \in Nat : n = Len(script)
  BY <1>2, LenProperties
<1>4. ran \in 0 .. n /\ ran < n
  BY <1>1, <1>3 DEF ScriptRun
<1>5. ran + 1 \in 1 .. Len(script) /\ 1 .. ran \subseteq 1 .. Len(script)
  BY <1>3, <1>4
<1>6. op.to .. op.to + op.size - 1 \subseteq Ram
  BY <1>1, <1>5, OpRange
<1>7. Filled(op)'
  BY <1>6
<1>8. ASSUME NEW j \in 1 .. ran, Filled(script[j]) PROVE Filled(script[j])'
  <2>1. PICK o : o = script[j]
    OBVIOUS
  <2>2. CASE ~Filling(o)
    BY <2>1, <2>2 DEF Filled, Filling
  <2>3. CASE o = op
    BY <1>7, <2>1, <2>3 DEF Filled
  <2>4. CASE Filling(o) /\ o # op
    <3>1. j \in 1 .. Len(script)
      BY <1>5
    <3>2. o.to .. o.to + o.size - 1 \subseteq Ram
      BY <1>1, <2>1, <2>4, <3>1, OpRange
    <3>3. \A a \in o.to .. o.to + o.size - 1 : a \notin op.to .. op.to + op.size - 1
      BY <1>1, <1>5, <2>1, <2>4, <3>1, OpsApart
    <3>4. \A a \in o.to .. o.to + o.size - 1 : ram'[a] = ram[a]
      BY <3>2, <3>3
    <3> QED BY <1>8, <2>1, <3>4 DEF Filled
  <2> QED BY <2>2, <2>3, <2>4
<1>9. op.code # "HEAP"
  BY DEF Filling
<1> QED BY <1>7, <1>8, <1>9, OpDone

LEMMA RunCopyStep == ASSUME IInv, RunCopy PROVE IInv'
<1>1. PICK op : op = script[ran + 1]
  OBVIOUS
<1>2. /\ step = "boot" /\ ran < Len(script) /\ ran' = ran + 1 /\ op.code = "COPY"
      /\ UNCHANGED <<input, todo, rom, script, ramMax, heap, step>>
      /\ ram' = [a \in Ram |-> IF a \in op.to .. op.to + op.size - 1 THEN rom[op.from + a - op.to] ELSE ram[a]]
  BY <1>1 DEF RunCopy, Booting, Op
<1>3. \A a \in Ram : a \notin op.to .. op.to + op.size - 1 => ram'[a] = ram[a]
  BY <1>2
<1>4. op.to .. op.to + op.size - 1 \subseteq Ram => Filled(op)'
  BY <1>2 DEF Filled
<1>5. Filling(op) /\ step' = "boot"
  BY <1>2 DEF Filling
<1> QED BY <1>1, <1>2, <1>3, <1>4, <1>5, FillingOpDone

LEMMA RunZeroStep == ASSUME IInv, RunZero PROVE IInv'
<1>1. PICK op : op = script[ran + 1]
  OBVIOUS
<1>2. /\ step = "boot" /\ ran < Len(script) /\ ran' = ran + 1 /\ op.code = "ZERO"
      /\ UNCHANGED <<input, todo, rom, script, ramMax, heap, step>>
      /\ ram' = [a \in Ram |-> IF a \in op.to .. op.to + op.size - 1 THEN "zero" ELSE ram[a]]
  BY <1>1 DEF RunZero, Booting, Op
<1>3. \A a \in Ram : a \notin op.to .. op.to + op.size - 1 => ram'[a] = ram[a]
  BY <1>2
<1>4. op.to .. op.to + op.size - 1 \subseteq Ram => Filled(op)'
  BY <1>2 DEF Filled
<1>5. Filling(op) /\ step' = "boot"
  BY <1>2 DEF Filling
<1> QED BY <1>1, <1>2, <1>3, <1>4, <1>5, FillingOpDone

LEMMA RunHeapStep == ASSUME IInv, RunHeap PROVE IInv'
<1>1. PICK op : op = script[ran + 1]
  OBVIOUS
<1>2. /\ step = "boot" /\ ran < Len(script) /\ ran' = ran + 1 /\ op.code = "HEAP"
      /\ UNCHANGED <<input, todo, rom, script, ramMax, ram, step>>
      /\ heap' = [start |-> op.to, size |-> op.size]
  BY <1>1 DEF RunHeap, Booting, Op
<1>3. Loading /\ ScriptMade /\ ScriptRun
  BY <1>2 DEF IInv, Alive
<1>4. ran + 1 \in 1 .. Len(script)
  <2>1. PICK S : script \in Seq(S)
    BY <1>3 DEF ScriptMade
  <2>2. PICK n \in Nat : n = Len(script)
    BY <2>1, LenProperties
  <2>3. ran \in 0 .. n /\ ran < n
    BY <1>2, <1>3, <2>2 DEF ScriptRun
  <2> QED BY <2>2, <2>3
<1>5. HeapIn(op.to, op.size)
  BY <1>1, <1>2, <1>3, <1>4 DEF ScriptMade
<1>6. heap'.start = op.to /\ heap'.size = op.size
  BY <1>2
<1>7. Filled(op)' /\ \A j \in 1 .. ran : Filled(script[j]) => Filled(script[j])'
  BY <1>2 DEF Filled
<1> QED BY <1>1, <1>2, <1>5, <1>6, <1>7, OpDone

\* The other operations change neither RAM nor the heap.
LEMMA OtherOpDone ==
  ASSUME IInv, NEW code \in {"EXEC", "%FSM"}, Booting(code), UNCHANGED <<ram, heap, step>>
  PROVE  IInv'
<1>1. PICK op : op = script[ran + 1]
  OBVIOUS
<1>2. /\ step = "boot" /\ ran < Len(script) /\ ran' = ran + 1 /\ op.code \in {"EXEC", "%FSM"}
      /\ UNCHANGED <<input, todo, rom, script, ramMax, ram, heap, step>>
  BY <1>1 DEF Booting, Op
<1>3. op.code # "HEAP" /\ op.code # "COPY" /\ op.code # "ZERO" /\ step' = "boot" /\ heap' = heap
  BY <1>2
<1>4. Filled(op)'
  BY <1>3 DEF Filled
<1>5. \A j \in 1 .. ran : Filled(script[j]) => Filled(script[j])'
  BY <1>2 DEF Filled
<1> QED BY <1>1, <1>2, <1>3, <1>4, <1>5, OpDone

LEMMA RunExecStep == ASSUME IInv, RunExec PROVE IInv'
<1>1. CASE UNCHANGED step
  BY <1>1, OtherOpDone DEF RunExec
<1>2. CASE step' = "panic"
  BY <1>2 DEF RunExec, Booting, IInv, Alive, Loading, Steps
<1> QED BY <1>1, <1>2 DEF RunExec

LEMMA RunUserOpStep == ASSUME IInv, RunUserOp PROVE IInv'
BY OtherOpDone DEF RunUserOp

LEMMA BootEndStep == ASSUME IInv, BootEnd PROVE IInv'
<1>1. step = "boot" /\ ran = Len(script) /\ step' = "run"
      /\ UNCHANGED <<input, todo, ran, rom, script, ramMax, ram, heap, task>>
  BY DEF BootEnd, cartVars
<1>2. Loading /\ BootPlaced /\ MainPlaced /\ ScriptMade /\ ScriptRun
  BY <1>1 DEF IInv, Alive
<1>3. BootLoaded' = BootLoaded /\ MainLoaded' = MainLoaded
  BY <1>1 DEF BootLoaded, MainLoaded
<1>4. Loading' /\ BootPlaced'
  BY <1>1, <1>2, <1>3 DEF Loading, BootPlaced, Held, Steps
<1>5. MainPlaced'
  BY <1>1, <1>2, <1>3 DEF MainPlaced, Placed, Held
<1>6. ScriptMade'
  BY <1>1, <1>2, <1>3 DEF ScriptMade, HeapIn
<1>7. ScriptRun'
  BY <1>1, <1>2 DEF ScriptRun, Filled, HeapIn
<1> QED BY <1>4, <1>5, <1>6, <1>7 DEF IInv

-----------------------------------------------------------------------------
(* The invariant *)

LEMMA InitIInv == Init => IInv
<1> SUFFICES ASSUME Init PROVE IInv
  OBVIOUS
<1>1. /\ input \in Inputs /\ step = "bootloader" /\ todo = input.boot
      /\ script = <<>> /\ ran = 0 /\ ramMax = KernelRam
  BY DEF Init
<1>2. Len(input.boot) \in Nat /\ IsRest(input.boot, input.boot)
  BY <1>1, InputLemma, WholeRest
<1>3. BootLoaded = 0 /\ MainLoaded = 0
  BY <1>1, <1>2 DEF BootLoaded, MainLoaded
<1>4. Loading
  BY <1>1, <1>2, Constants DEF Loading, Steps, Ram
<1>5. BootPlaced /\ MainPlaced
  BY <1>3 DEF BootPlaced, MainPlaced
<1>6. script \in Seq({}) /\ Len(script) = 0
  BY <1>1
<1>7. ScriptMade
  BY <1>1, <1>6 DEF ScriptMade
<1>8. ScriptRun
  BY <1>1, <1>6 DEF ScriptRun
<1> QED BY <1>4, <1>5, <1>7, <1>8 DEF IInv

LEMMA StepIInv == IInv /\ [Next]_vars => IInv'
<1> SUFFICES ASSUME IInv, [Next]_vars PROVE IInv'
  OBVIOUS
<1>1. CASE LoadBootSegment
  BY <1>1, LoadBootSegmentStep
<1>2. CASE LoadBootEnd
  BY <1>2, LoadBootEndStep
<1>3. CASE LoadMainSegment
  BY <1>3, LoadMainSegmentStep
<1>4. CASE LoadMainEnd
  BY <1>4, LoadMainEndStep
<1>5. CASE LoadFs
  BY <1>5, LoadFsStep
<1>6. CASE RunCopy
  BY <1>6, RunCopyStep
<1>7. CASE RunZero
  BY <1>7, RunZeroStep
<1>8. CASE RunHeap
  BY <1>8, RunHeapStep
<1>9. CASE RunExec
  BY <1>9, RunExecStep
<1>10. CASE RunUserOp
  BY <1>10, RunUserOpStep
<1>11. CASE BootEnd
  BY <1>11, BootEndStep
<1>12. CASE ReadFs
  BY <1>12, Nothing DEF ReadFs
<1>13. CASE UNCHANGED vars
  BY <1>13, Nothing DEF vars
<1>14. CASE RefuseBoot
  BY <1>14, Failing DEF RefuseBoot
<1> QED BY <1>14, <1>1, <1>2, <1>3, <1>4, <1>5, <1>6, <1>7, <1>8, <1>9, <1>10, <1>11, <1>12, <1>13 DEF Next

\* The invariant of the cartridge: the tool has placed in ROM, or in the script, the
\* segments it has taken, and what the kernel has executed of the script is in RAM.
THEOREM CartridgeInvariant == Spec => []IInv
BY InitIInv, StepIInv, PTL DEF Spec

\* Bytes in their place in ROM are what a program reads there.
LEMMA HeldPresent == ASSUME NEW s, Held(s) PROVE Present(s.data, s.paddr)
BY MemoriesApart DEF Held, Present, Memory

LEMMA PlacedReady ==
  ASSUME Loading, ScriptMade, ScriptRun, step = "run", heap.start \in Nat, heap.start >= ramMax,
         NEW s, Segment(s), Wanted(s), Placed(s)
  PROVE  /\ Present(s.data, s.vaddr)
         /\ s.data = <<>> => \A a \in s.vaddr .. s.vaddr + s.memsz - 1 : ram[a] = "zero"
         /\ s.vaddr \in Ram => s.vaddr + s.memsz <= heap.start
<1>1. Held(s)
  BY DEF Placed
<1>2. PICK v \in Nat, p \in Nat, n \in Nat, m \in Nat :
        v = s.vaddr /\ p = s.paddr /\ n = Len(s.data) /\ m = s.memsz
  BY DEF Segment
<1>3. CASE ScriptFor(s) = <<>>
  <2>1. s.vaddr = s.paddr /\ s.data # <<>>
    BY <1>3 DEF Placed
  <2>2. Present(s.data, s.vaddr)
    BY <1>1, <2>1, HeldPresent
  <2>3. n # 0
    BY <1>2, <2>1, EmptySeq DEF Segment
  <2>4. v \in Rom
    <3>1. 1 \in 1 .. n /\ v + 1 - 1 = v
      BY <2>3
    <3> QED BY <1>1, <1>2, <2>1, <3>1 DEF Held
  <2>5. v \notin Ram
    BY <2>4, MemoriesApart
  <2> QED BY <1>2, <2>1, <2>2, <2>5
<1>4. CASE ScriptFor(s) # <<>>
  <2>1. PICK j \in 1 .. Len(script) : script[j] = OpFor(s)
    BY <1>4 DEF Placed
  <2>2. v \in Ram /\ v + m \in Ram /\ v + m <= ramMax /\ ramMax \in Nat
    BY <1>2, <1>4, MemoriesApart DEF Placed, RangeIn, Loading
  <2>3. v + m <= heap.start
    BY <2>2
  <2>4. Filled(OpFor(s))
    BY <2>1 DEF ScriptRun
  <2>5. OpFor(s).to = v /\ (s.data = <<>> \/ s.vaddr # s.paddr)
    BY <1>2, <1>4, ScriptForLemma
  <2>6. CASE s.data = <<>>
    <3>1. OpFor(s).code = "ZERO" /\ OpFor(s).size = m
      BY <1>2, <2>5, <2>6, ScriptForLemma
    <3>2. \A a \in v .. v + m - 1 : ram[a] = "zero"
      BY <2>4, <2>5, <3>1 DEF Filled
    <3>3. Present(s.data, s.vaddr)
      <4>1. 1 .. Len(s.data) = {}
        BY <2>6
      <4> QED BY <4>1 DEF Present
    <3> QED BY <1>2, <2>3, <3>2, <3>3
  <2>7. CASE s.data # <<>>
    <3>1. OpFor(s).code = "COPY" /\ OpFor(s).size = n /\ OpFor(s).from = p /\ n = m
      <4>1. n = m
        BY <1>2, <2>7 DEF Placed
      <4> QED BY <1>2, <2>5, <2>7, <4>1, ScriptForLemma
    <3>2. \A a \in v .. v + n - 1 : ram[a] = rom[p + a - v]
      BY <2>4, <2>5, <3>1 DEF Filled
    <3>3. ASSUME NEW i \in 1 .. n
          PROVE  s.data[i] = "ff" \/ Memory(v + i - 1) = s.data[i]
      <4>1. v + i - 1 \in v .. v + n - 1 /\ p + (v + i - 1) - v = p + i - 1
        OBVIOUS
      <4>2. ram[v + i - 1] = rom[p + i - 1]
        BY <3>2, <4>1
      <4>3. s.data[i] = "ff" \/ rom[p + i - 1] = s.data[i]
        BY <1>1, <1>2 DEF Held
      <4>4. v + i - 1 \in Ram
        BY <2>2, <3>1, Constants DEF Ram
      <4> QED BY <4>2, <4>3, <4>4 DEF Memory
    <3>4. Present(s.data, s.vaddr)
      BY <1>2, <3>3 DEF Present
    <3> QED BY <1>2, <2>3, <2>7, <3>4
  <2> QED BY <2>6, <2>7
<1> QED BY <1>3, <1>4

\* Whatever the ELF files, if the tool accepts them and the main task starts, every segment
\* is in its place and the heap lies beyond the kernel and the program (cart.rs and
\* bootscript.rs together).
THEOREM ProgramIsReady == Spec => []ProgramReady
<1>1. IInv => ProgramReady
  <2> SUFFICES ASSUME IInv, step = "run" PROVE ProgramReady
    BY DEF ProgramReady
  <2>1. Loading /\ BootPlaced /\ MainPlaced /\ ScriptMade /\ ScriptRun
    BY DEF IInv, Alive
  <2>2. BootLoaded = Len(input.boot) /\ MainLoaded = Len(input.main) /\ ran = Len(script)
    BY <2>1 DEF BootLoaded, MainLoaded, ScriptRun
  <2>3. /\ heap.start \in Nat /\ heap.start >= ramMax
        /\ heap.start % HeapAlign = 0 /\ heap.start + heap.size = RamLen
    <3>1. PICK j \in 1 .. Len(script) : script[j].code = "HEAP"
      BY <2>1 DEF ScriptMade
    <3>2. HeapIn(heap.start, heap.size)
      BY <2>1, <2>2, <3>1 DEF ScriptRun
    <3> QED BY <3>2 DEF HeapIn
  <2>4. ASSUME NEW i \in 1 .. Len(input.boot), input.boot[i].load
        PROVE  Present(input.boot[i].data, input.boot[i].paddr)
    BY <2>1, <2>2, <2>4, HeldPresent DEF BootPlaced
  <2>5. ASSUME NEW i \in 1 .. Len(input.main), Wanted(input.main[i])
        PROVE  LET s == input.main[i] IN
               /\ Present(s.data, s.vaddr)
               /\ s.data = <<>> => \A a \in s.vaddr .. s.vaddr + s.memsz - 1 : ram[a] = "zero"
               /\ s.vaddr \in Ram => s.vaddr + s.memsz <= heap.start
    <3>1. PICK s : s = input.main[i]
      OBVIOUS
    <3>2. Segment(s)
      BY <2>1, <3>1, InputLemma DEF Loading
    <3>3. Wanted(s) /\ Placed(s)
      BY <2>1, <2>2, <2>5, <3>1 DEF MainPlaced
    <3> QED BY <2>1, <2>3, <3>1, <3>2, <3>3, PlacedReady
  <2>6. heap.start >= KernelRam
    <3>1. ramMax \in Nat /\ ramMax >= KernelRam /\ KernelRam \in Nat
      BY <2>1, MemoriesApart, Constants DEF Loading
    <3> QED BY <2>3, <3>1
  <2> QED BY <2>3, <2>4, <2>5, <2>6 DEF ProgramReady
<1> QED BY <1>1, CartridgeInvariant, PTL
=============================================================================
