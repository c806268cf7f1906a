-------------------------------- MODULE Heap --------------------------------
(***************************************************************************)
(* NrHeap, the kernel's linked-list allocator: one heap, its block headers *)
(* in memory, and the calls that allocate and free.  The kernel runs with  *)
(* interrupts disabled, so calls do not interleave; the first-fit scan is  *)
(* one step per block.                                                     *)
(***************************************************************************)
EXTENDS Integers, FiniteSets

CONSTANTS
  StartAddr, Length,   \* what init is given
  ALIGN, HEADER_SIZE,  \* MemBlock::ALIGN and HEADER_SIZE
  W,                   \* 2^(usize::BITS)
  Requests             \* sizes callers ask for

Null == 0
MIN_SIZE == HEADER_SIZE + ALIGN

AlignDown(a) == a - (a % ALIGN)
\* wrapping_add
AlignUp(a) == AlignDown((a + ALIGN - 1) % W)

heapStart == AlignUp(StartAddr)
heapSize == AlignDown(Length - (heapStart - StartAddr))
heapEnd == heapStart + heapSize
Addrs == heapStart .. heapEnd - 1

\* HEADER_SIZE is rounded up to ALIGN; init accepts the range; the heap does not reach the end of the address space,
\* and requests stay below it when rounded up (a Layout is at most isize::MAX).
ASSUME HeapAssumption ==
  /\ ALIGN \in Nat \ {0} /\ HEADER_SIZE \in Nat \ {0} /\ HEADER_SIZE % ALIGN = 0 /\ W \in Nat
  /\ StartAddr \in Nat /\ Length \in Nat
  /\ heapStart \in Nat \ {0} /\ heapSize \in Nat
  /\ Length >= MIN_SIZE /\ heapSize >= HEADER_SIZE /\ heapEnd < W
  /\ Requests \subseteq Nat /\ \A s \in Requests : s + ALIGN - 1 < W

VARIABLES
  hdr,      \* the MemBlock at each address; meaningless where there is none
  it,       \* raw_alloc: the block to visit next
  want,     \* raw_alloc: the rounded size, or NoAlloc between calls
  asked,    \* raw_alloc: the size the caller gave
  blocks,   \* history: the addresses at which a block was made and not absorbed
  live      \* history: the allocations in use, payload address and size asked

vars == <<hdr, it, want, asked, blocks, live>>

NoAlloc == -1
Header == [size : 0 .. W - 1, next : Addrs \cup {Null}, prev : Addrs \cup {Null},
           used : BOOLEAN, magic : BOOLEAN]
Blank == [size |-> 0, next |-> Null, prev |-> Null, used |-> FALSE, magic |-> FALSE]

Init ==
  /\ hdr = [a \in Addrs |-> IF a = heapStart
                            THEN [Blank EXCEPT !.size = heapSize - HEADER_SIZE, !.magic = TRUE]
                            ELSE Blank]
  /\ it = Null /\ want = NoAlloc /\ asked = 0
  /\ blocks = {heapStart} /\ live = {}

\* Mutant: the previous block is not told.
RelinkForward(h, b) ==
  [a \in Addrs |-> IF a = h[b].next THEN [h[a] EXCEPT !.prev = b] ELSE h[a]]

\* relink: prev->next and next->prev are b.
Relink(h, b) ==
  [a \in Addrs |-> IF a = h[b].next THEN [h[a] EXCEPT !.prev = b]
                   ELSE IF a = h[b].prev THEN [h[a] EXCEPT !.next = b]
                   ELSE h[a]]

Idle == want = NoAlloc
EndOfBlock(b) == b + HEADER_SIZE + hdr[b].size
SetUsed(h, b, u) == [h EXCEPT ![b] = [h[b] EXCEPT !.used = u]]

-----------------------------------------------------------------------------
(* raw_alloc: first fit.  An alignment above ALIGN is refused at once.     *)

Alloc(size) ==
  /\ Idle
  /\ want' = AlignUp(size) /\ asked' = size /\ it' = heapStart
  /\ UNCHANGED <<hdr, blocks, live>>

\* Mutants: a block in use is handed out again; an exact fit is passed over.
FitsUsed(b) == hdr[b].size >= want
FitsStrictly(b) == ~hdr[b].used /\ hdr[b].size > want

Fits(b) == ~hdr[b].used /\ hdr[b].size >= want

\* The block has room for another one.
Splits(b) == hdr[b].size - want > MIN_SIZE

\* The block does not do: on to the next one.
AllocSkip ==
  /\ ~Idle /\ it # Null /\ ~Fits(it)
  /\ it' = hdr[it].next
  /\ UNCHANGED <<hdr, want, asked, blocks, live>>

Return(b) ==
  /\ live' = live \cup {[at |-> b + HEADER_SIZE, size |-> asked]}
  /\ want' = NoAlloc /\ it' = Null /\ asked' = 0

\* The block is handed out whole.
AllocWhole ==
  /\ ~Idle /\ it # Null /\ Fits(it)
  /\ ~Splits(it)
  /\ hdr' = SetUsed(hdr, it, TRUE)
  /\ Return(it) /\ UNCHANGED blocks

Cut(b) == [hdr[b] EXCEPT !.used = TRUE, !.size = want]

\* What a split of block b leaves over.
Remainder(b) ==
  [size |-> hdr[b].size - want - HEADER_SIZE, next |-> hdr[b].next, prev |-> b,
   used |-> FALSE, magic |-> TRUE]

\* The remainder becomes a free block of its own.
AllocSplit ==
  LET nb == it + HEADER_SIZE + want
  IN  /\ ~Idle /\ it # Null /\ Fits(it)
      /\ Splits(it)
      /\ hdr' = Relink([hdr EXCEPT ![it] = Cut(it), ![nb] = Remainder(it)], nb)
      /\ blocks' = blocks \cup {nb}
      /\ Return(it)

\* The end of the list: the call fails.
AllocFails ==
  /\ ~Idle /\ it = Null
  /\ want' = NoAlloc /\ asked' = 0
  /\ UNCHANGED <<hdr, it, blocks, live>>

-----------------------------------------------------------------------------
(* raw_free, of a pointer that was allocated: its header is valid.         *)

\* Mutant: the header of the absorbed block is lost.
JoinedHeaderless(b, n) == [b EXCEPT !.size = b.size + n.size, !.next = n.next]

Joined(b, n) == [b EXCEPT !.size = b.size + n.size + HEADER_SIZE, !.next = n.next]

\* Block a takes in the block that follows it, whose header becomes payload:
\* whatever callers write there is meaningless to the heap.
Absorb(h, a) ==
  LET n == h[a].next
  IN  Relink([h EXCEPT ![a] = Joined(h[a], h[n]), ![n] = Blank], a)

FreeAt(h, a) == a # Null /\ ~h[a].used

\* Mutant: only the next block is looked at.
FreeForwardOnly(r) ==
  LET b == r.at - HEADER_SIZE
      h1 == SetUsed(hdr, b, FALSE)
      n == h1[b].next
      h2 == IF FreeAt(h1, n) THEN Absorb(h1, b) ELSE h1
  IN  /\ Idle /\ hdr[b].magic
      /\ hdr' = h2
      /\ blocks' = blocks \ (IF FreeAt(h1, n) THEN {n} ELSE {})
      /\ live' = live \ {r}
      /\ UNCHANGED <<it, want, asked>>

\* The next block is absorbed first, then the result by the previous one.
Free(r) ==
  LET b == r.at - HEADER_SIZE
      h1 == SetUsed(hdr, b, FALSE)
      n == h1[b].next
      h2 == IF FreeAt(h1, n) THEN Absorb(h1, b) ELSE h1
      p == h2[b].prev
  IN  /\ Idle /\ hdr[b].magic
      /\ hdr' = IF FreeAt(h2, p) THEN Absorb(h2, p) ELSE h2
      /\ blocks' = blocks \ ((IF FreeAt(h1, n) THEN {n} ELSE {}) \cup
                             (IF FreeAt(h2, p) THEN {b} ELSE {}))
      /\ live' = live \ {r}
      /\ UNCHANGED <<it, want, asked>>

Next ==
  \/ \E size \in Requests : Alloc(size)
  \/ AllocSkip \/ AllocWhole \/ AllocSplit \/ AllocFails
  \/ \E r \in live : Free(r)

Spec == Init /\ [][Next]_vars

-----------------------------------------------------------------------------
(* Properties *)

TypeOK ==
  /\ hdr \in [Addrs -> Header]
  /\ it \in Addrs \cup {Null} /\ want \in (0 .. W - 1) \cup {NoAlloc} /\ asked \in 0 .. W - 1
  /\ blocks \subseteq Addrs
  /\ live \subseteq [at : heapStart .. heapEnd, size : 0 .. W - 1]

\* The list and the memory agree, after any number of splits and merges in any
\* order: every block ends where the next one starts and is its predecessor, the
\* first starts and the last ends the heap, and every header is valid, so that
\* block_iter never panics over a corrupted heap.
ListTilesHeap ==
  \A b \in blocks :
    /\ hdr[b].magic
    /\ IF EndOfBlock(b) = heapEnd THEN hdr[b].next = Null
       ELSE /\ hdr[b].next = EndOfBlock(b) /\ EndOfBlock(b) \in blocks
            /\ hdr[EndOfBlock(b)].prev = b
    /\ IF b = heapStart THEN hdr[b].prev = Null
       ELSE hdr[b].prev \in blocks /\ hdr[hdr[b].prev].next = b

\* Blocks never overlap.
BlocksApart ==
  \A b, c \in blocks : b < c => EndOfBlock(b) <= c

\* Every block in use belongs to one allocation that was not freed, and every
\* allocation has a block with room for it: nothing leaks and nothing is handed
\* out twice.
UsedIsLive ==
  /\ \A b \in blocks : hdr[b].used <=> \E r \in live : r.at = b + HEADER_SIZE
  /\ \A r, s \in live : r # s => r.at # s.at
  /\ \A r \in live : r.at - HEADER_SIZE \in blocks

\* Free memory does not stay fragmented: no two free blocks are neighbours.
Coalesced ==
  \A b \in blocks : ~hdr[b].used /\ hdr[b].next # Null => hdr[hdr[b].next].used

\* An allocation only fails when no free block has room for what the caller
\* asked for, wherever it is in the list and however the size was rounded.
FailsOnlyWhenFull ==
  ~Idle /\ it = Null => \A b \in blocks : hdr[b].used \/ hdr[b].size < asked

\* The allocator keeps the promise of Memory: what it hands out lies in the heap,
\* has the size that was asked for and overlaps nothing in use.
Store == INSTANCE Memory WITH
  Low <- heapStart, High <- heapEnd, Sizes <- Requests, owned <- live
ImplementsMemory == Store!Spec
=============================================================================
