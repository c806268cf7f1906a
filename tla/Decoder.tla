------------------------------- MODULE Decoder -------------------------------
(***************************************************************************)
(* The page cache of the emulator's instruction decoder (decoder.rs):      *)
(* instructions are decoded a page at a time, for every halfword that one  *)
(* may begin at, and stay decoded whatever is stored over them until a     *)
(* FENCE.I or their eviction.  What an instruction is decoded from is the  *)
(* halfword it begins at and the next one, which for the last of a page is *)
(* the first of the page behind it.                                        *)
(*                                                                         *)
(* A page is known by its number in the address space (page.base in the    *)
(* code), and page_lut has an entry for each page of RAM, then of ROM.     *)
(***************************************************************************)
EXTENDS Integers, Sequences

CONSTANTS
  RamBase, RamPages, RomBase, RomPages,   \* first page and number of pages of RAM and ROM
  PageLen,      \* PAGE_LEN_OP, halfwords in a page
  CacheMax,     \* PAGE_CACHE_MAX, decoded pages
  HeadStart,    \* score of a new page, in pages (1 << 4)
  MaxBias,      \* largest bias that the eviction adds to a score (0x1f)
  MaxFetches,   \* bound: instructions fetched between two calls of expire_pages
  MaxScore,     \* largest u32
  Halfword,
  Erased        \* the halfword read beyond the end of a memory

LargerOf(a, b) == IF a > b THEN a ELSE b

ASSUME DecoderAssumption ==
  /\ {RamBase, RomBase} \subseteq Nat /\ {RamPages, RomPages} \subseteq Nat \ {0}
  /\ RamBase + RamPages < RomBase
  /\ {PageLen, CacheMax, HeadStart} \subseteq Nat \ {0} /\ {MaxBias, MaxFetches, MaxScore} \subseteq Nat
  /\ PageLen * (LargerOf(HeadStart, MaxFetches) + MaxFetches) + MaxBias <= MaxScore
  /\ Erased \in Halfword

Ram == RamBase .. RamBase + RamPages - 1
Executable == Ram \cup (RomBase .. RomBase + RomPages - 1)
Slots == 0 .. PageLen - 1
Places == Executable \X Slots

VARIABLES
  mem,          \* RAM and ROM, by place
  pages,        \* pages: what is decoded
  pageLut,      \* page_lut: where in pages, None if nowhere
  lastUsed,     \* last_used_page
  fetched,      \* the last instruction fetched
  fetches,      \* how many since expire_pages
  seen          \* history: what each place has held since the last FENCE.I

vars == <<mem, pages, pageLut, lastUsed, fetched, fetches, seen>>

None == 0
NoPage == [base |-> -1, idx |-> None]

PageTotal == RamPages + RomPages
LutEntries == 0 .. PageTotal - 1

LutIdx(page) == IF page \in Ram THEN page - RamBase ELSE page - RomBase + RamPages

LutIdxToBase(i) ==
  IF i >= LutIdx(RomBase) THEN i - RamPages + RomBase ELSE i + RamBase

-----------------------------------------------------------------------------
(* Decoding a page *)

PlaceAfter(a) == IF a[2] + 1 < PageLen THEN <<a[1], a[2] + 1>> ELSE <<a[1] + 1, 0>>
HalfwordAt(a) == IF a \in Places THEN mem[a] ELSE Erased

\* What is decoded at a place: the 32 bits from there on.
CodeAt(a) == <<HalfwordAt(a), HalfwordAt(PlaceAfter(a))>>

NewPage(i) ==
  [ base |-> LutIdxToBase(i), score |-> HeadStart * PageLen,
    code |-> [s \in Slots |-> CodeAt(<<LutIdxToBase(i), s>>)] ]

\* evict_page takes the first page whose score is the lowest, each being raised by a
\* pseudorandom bias of its own.
Evictable ==
  { ip \in DOMAIN pages : \E bias \in [DOMAIN pages -> 0 .. MaxBias] :
      LET key(j) == pages[j].score + bias[j]
      IN  \A j \in DOMAIN pages : IF j < ip THEN key(ip) < key(j) ELSE key(ip) <= key(j) }

\* Mutant: the entry of the page that goes is left.
ForgetNothing(ip) == pageLut

\* The places page_lut keeps for the pages that remain.
Forget(ip) == [pageLut EXCEPT ![LutIdx(pages[ip].base)] = None]

-----------------------------------------------------------------------------
(* fetch_instruction, at slot s of a page *)

\* The end of it, once the page is known to be decoded as number i of decoded, last being
\* what last_used_page is by then.
UsePage(page, s, decoded, i, last) ==
  /\ pages' = [decoded EXCEPT ![i].score = @ + PageLen]
  /\ IF decoded[i].base = page
     THEN /\ lastUsed' = [base |-> page, idx |-> i]
          /\ fetched' = [place |-> <<page, s>>, code |-> decoded[i].code[s]]
     ELSE /\ lastUsed' = last
          /\ fetched' = [place |-> <<page, s>>, code |-> <<"InvalidAddress">>]

Counted == fetches < MaxFetches /\ fetches' = fetches + 1 /\ UNCHANGED <<mem, seen>>

FetchSamePage(page, s) ==
  /\ lastUsed.base = page
  /\ fetched' = [place |-> <<page, s>>, code |-> pages[lastUsed.idx].code[s]]
  /\ Counted /\ UNCHANGED <<pages, pageLut, lastUsed>>

FetchDecodedPage(page, s) ==
  LET i == pageLut[LutIdx(page)]
  IN  /\ lastUsed.base # page /\ i # None
      /\ UsePage(page, s, pages, i, lastUsed)
      /\ Counted /\ UNCHANGED pageLut

FetchNewPage(page, s) ==
  LET i == LutIdx(page)
  IN  /\ lastUsed.base # page /\ pageLut[i] = None /\ Len(pages) < CacheMax
      /\ pageLut' = [pageLut EXCEPT ![i] = Len(pages) + 1]
      /\ UsePage(page, s, Append(pages, NewPage(i)), Len(pages) + 1, lastUsed)
      /\ Counted

FetchEvicting(page, s) ==
  LET i == LutIdx(page)
  IN  /\ lastUsed.base # page /\ pageLut[i] = None /\ Len(pages) >= CacheMax
      /\ \E ip \in Evictable :
           /\ pageLut' = [Forget(ip) EXCEPT ![i] = ip]
           /\ UsePage(page, s, [pages EXCEPT ![ip] = NewPage(i)], ip, NoPage)
      /\ Counted

FetchInstruction(page, s) ==
  \/ FetchSamePage(page, s) \/ FetchDecodedPage(page, s)
  \/ FetchNewPage(page, s) \/ FetchEvicting(page, s)

-----------------------------------------------------------------------------
(* The other operations *)

\* Stores and DMA transfers write to RAM, and leave what is decoded alone.
Write(cells) ==
  /\ mem' = [a \in Places |-> IF a \in DOMAIN cells THEN cells[a] ELSE mem[a]]
  /\ seen' = [a \in Places |-> seen[a] \cup {mem'[a]}]
  /\ UNCHANGED <<pages, pageLut, lastUsed, fetched, fetches>>

\* Mutant: the last page used is kept.
InvalidateKeepsLast ==
  /\ pages' = <<>> /\ pageLut' = [i \in LutEntries |-> None]
  /\ seen' = [a \in Places |-> {mem[a]}]
  /\ UNCHANGED <<mem, lastUsed, fetched, fetches>>

\* FENCE.I
Invalidate ==
  /\ pages' = <<>> /\ pageLut' = [i \in LutEntries |-> None] /\ lastUsed' = NoPage
  /\ seen' = [a \in Places |-> {mem[a]}]
  /\ UNCHANGED <<mem, fetched, fetches>>

\* Mutant: frames go by and scores only grow.
ExpireNothing == fetches' = 0 /\ UNCHANGED <<mem, pages, pageLut, lastUsed, fetched, seen>>

\* At the end of a frame.
ExpirePages ==
  /\ pages' = [i \in DOMAIN pages |-> [pages[i] EXCEPT !.score = @ \div 2]]
  /\ fetches' = 0
  /\ UNCHANGED <<mem, pageLut, lastUsed, fetched, seen>>

Init ==
  /\ mem \in [Places -> Halfword]
  /\ pages = <<>> /\ pageLut = [i \in LutEntries |-> None] /\ lastUsed = NoPage
  /\ fetched = <<>> /\ fetches = 0
  /\ seen = [a \in Places |-> {mem[a]}]

Next ==
  \/ \E page \in Executable, s \in Slots : FetchInstruction(page, s)
  \/ \E cells \in UNION {[S -> Halfword] : S \in SUBSET (Ram \X Slots)} : Write(cells)
  \/ Invalidate
  \/ ExpirePages

Spec == Init /\ [][Next]_vars

-----------------------------------------------------------------------------
(* Properties *)

Page == [base : Executable, score : Nat, code : [Slots -> Halfword \X Halfword]]

\* fetched is a fetch's answer or nothing yet; InvalidAddress, which would stop the
\* emulator, is no answer for a page of RAM or ROM.
TypeOK ==
  /\ mem \in [Places -> Halfword]
  /\ pages \in Seq(Page) /\ Len(pages) <= CacheMax
  /\ pageLut \in [LutEntries -> 0 .. CacheMax]
  /\ lastUsed \in [base : Executable \cup {-1}, idx : 0 .. CacheMax]
  /\ fetched = <<>> \/ fetched \in [place : Places, code : Halfword \X Halfword]
  /\ fetches \in 0 .. MaxFetches
  /\ seen \in [Places -> SUBSET Halfword]

\* The three ways to find a page agree, through every eviction and flush: a page is
\* decoded once at most, page_lut leads to each decoded page and to no other, and the
\* short cut to the last page leads where page_lut does.
LutIsExact ==
  /\ \A i \in LutEntries : pageLut[i] # None =>
       pageLut[i] \in DOMAIN pages /\ pages[pageLut[i]].base = LutIdxToBase(i)
  /\ \A j \in DOMAIN pages : pageLut[LutIdx(pages[j].base)] = j
  /\ lastUsed # NoPage => lastUsed.base \in Executable /\ lastUsed.idx = pageLut[LutIdx(lastUsed.base)]
                          /\ lastUsed.idx # None

\* fetch_instruction's "Should never overflow in practice", and evict_page's sum: with as
\* many fetches in a frame as the processor has cycles, a score and its bias fit a u32.
ScoreFits == \A j \in DOMAIN pages : pages[j].score + MaxBias <= MaxScore

\* A program that fetches through the cache sees what the architecture promises: a store
\* may go unnoticed until the next FENCE.I but never after it, whatever was evicted,
\* decoded again and kept, and also for an instruction that spans two pages.
Memory == INSTANCE InstructionMemory WITH After <- [a \in Places |-> PlaceAfter(a)]
FetchFollowsMemory == Memory!Spec
=============================================================================
