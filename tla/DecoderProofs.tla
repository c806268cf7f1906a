--------------------------- MODULE DecoderProofs ---------------------------
(***************************************************************************)
(* Proofs about Decoder, for memories, pages and a cache of any size: the  *)
(* ways to find a page always agree, a score always fits, and what is      *)
(* fetched through the cache is what InstructionMemory allows.             *)
(***************************************************************************)
EXTENDS Decoder, SequenceTheorems, TLAPS

Bound(n) == PageLen * (LargerOf(HeadStart, MaxFetches) + n)

\* A page found in the cache may be fetched from: its halfwords have been in memory since
\* the last FENCE.I.
SeenIn(sn, a) == IF a \in Places THEN sn[a] ELSE {Erased}
CodeSeen(sn, page, s, code) ==
  code[1] \in SeenIn(sn, <<page, s>>) /\ code[2] \in SeenIn(sn, PlaceAfter(<<page, s>>))

\* The parts of the inductive invariant, over any pages ps, any page_lut and any history.
Decoded(ps, n, sn) ==
  /\ ps \in Seq(Page) /\ Len(ps) <= CacheMax
  /\ \A j \in DOMAIN ps : ps[j].score <= Bound(n) /\ \A s \in Slots : CodeSeen(sn, ps[j].base, s, ps[j].code[s])

Exact(ps, lut) ==
  /\ \A i \in LutEntries : lut[i] # None => lut[i] \in DOMAIN ps /\ ps[lut[i]].base = LutIdxToBase(i)
  /\ \A j \in DOMAIN ps : lut[LutIdx(ps[j].base)] = j

LastExact(last, lut) ==
  last # NoPage => last.base \in Executable /\ last.idx = lut[LutIdx(last.base)] /\ last.idx # None

MemorySeen == \A a \in Places : mem[a] \in seen[a]

IInv ==
  /\ TypeOK
  /\ Decoded(pages, fetches, seen)
  /\ Exact(pages, pageLut)
  /\ LastExact(lastUsed, pageLut)
  /\ MemorySeen

-----------------------------------------------------------------------------
(* Numbers and pages *)

LEMMA Constants ==
  /\ RamBase \in Nat /\ RomBase \in Nat /\ RamPages \in Nat \ {0} /\ RomPages \in Nat \ {0}
  /\ RamBase + RamPages < RomBase
  /\ PageLen \in Nat \ {0} /\ CacheMax \in Nat \ {0} /\ HeadStart \in Nat \ {0}
  /\ MaxBias \in Nat /\ MaxFetches \in Nat /\ MaxScore \in Nat
  /\ Erased \in Halfword
BY DecoderAssumption

\* The bound on a score grows by a page for each fetch, holds for a new page, and is back
\* to what it was before the first fetch once it is halved.
LEMMA Bounds ==
  ASSUME NEW n \in 0 .. MaxFetches
  PROVE  /\ Bound(n) \in Nat
         /\ Bound(n + 1) = Bound(n) + PageLen
         /\ HeadStart * PageLen <= Bound(n)
         /\ \A v \in Nat : v <= Bound(n) => v \div 2 \in Nat /\ v \div 2 <= Bound(0)
         /\ Bound(n) + MaxBias <= MaxScore
<1> DEFINE top == LargerOf(HeadStart, MaxFetches)
<1>1. top \in Nat /\ HeadStart <= top /\ n <= top /\ n <= MaxFetches /\ n \in Nat
  BY Constants DEF LargerOf
<1>2. PageLen * (top + n) = PageLen * top + PageLen * n
  BY <1>1, Constants
<1>3. PageLen * (top + (n + 1)) = PageLen * (top + n) + PageLen
  BY <1>1, Constants
<1>4. /\ PageLen * HeadStart <= PageLen * top /\ PageLen * n <= PageLen * top
      /\ PageLen * n <= PageLen * MaxFetches
      /\ PageLen * top \in Nat /\ PageLen * n \in Nat /\ PageLen * MaxFetches \in Nat
      /\ HeadStart * PageLen = PageLen * HeadStart
  BY <1>1, Constants
<1>5. PageLen * (top + MaxFetches) = PageLen * top + PageLen * MaxFetches
  BY <1>1, Constants
<1>6. PageLen * (top + MaxFetches) + MaxBias <= MaxScore
  BY DecoderAssumption
<1>7. PageLen * (top + 0) = PageLen * top
  BY <1>1, Constants
<1>8. \A v \in Nat : v <= PageLen * (top + n) => v \div 2 \in Nat /\ v \div 2 <= PageLen * top
  <2> SUFFICES ASSUME NEW v \in Nat, v <= PageLen * (top + n)
               PROVE  v \div 2 \in Nat /\ v \div 2 <= PageLen * top
    OBVIOUS
  <2>1. v <= 2 * (PageLen * top)
    BY <1>2, <1>4
  <2> QED
    BY <2>1, <1>4
<1> QED
  <2> HIDE DEF top
  <2> QED
    BY <1>1, <1>2, <1>3, <1>4, <1>5, <1>6, <1>7, <1>8, Constants DEF Bound, top

\* LutIdx and LutIdxToBase are inverses between the pages and the entries of page_lut.
LEMMA LutIdxInverse ==
  /\ \A page \in Executable : LutIdx(page) \in LutEntries /\ LutIdxToBase(LutIdx(page)) = page
  /\ \A i \in LutEntries : LutIdxToBase(i) \in Executable /\ LutIdx(LutIdxToBase(i)) = i
BY Constants DEF Executable, Ram, LutEntries, PageTotal, LutIdx, LutIdxToBase

LEMMA PageFields ==
  ASSUME NEW ps \in Seq(Page), NEW j \in DOMAIN ps
  PROVE  /\ ps[j] \in Page /\ ps[j].base \in Executable /\ ps[j].score \in Nat
         /\ \A s \in Slots : ps[j].code[s] \in Halfword \X Halfword
         /\ Len(ps) \in Nat /\ DOMAIN ps = 1 .. Len(ps)
<1>1. ps[j] \in Page
  BY ElementOfSeq
<1> QED
  BY <1>1 DEF Page

LEMMA Rescored ==
  ASSUME NEW q \in Page, NEW v \in Nat
  PROVE  /\ [q EXCEPT !.score = v] \in Page
         /\ [q EXCEPT !.score = v].base = q.base /\ [q EXCEPT !.score = v].code = q.code
         /\ [q EXCEPT !.score = v].score = v
BY DEF Page

\* A page decoded now may be fetched from.
LEMMA NewPageSeen ==
  ASSUME IInv, NEW i \in LutEntries
  PROVE  /\ NewPage(i) \in Page
         /\ NewPage(i).base = LutIdxToBase(i) /\ NewPage(i).score = HeadStart * PageLen
         /\ \A s \in Slots : CodeSeen(seen, NewPage(i).base, s, NewPage(i).code[s])
<1>1. \A a : HalfwordAt(a) \in Halfword /\ HalfwordAt(a) \in SeenIn(seen, a)
  BY Constants DEF IInv, TypeOK, MemorySeen, HalfwordAt, SeenIn
<1>2. LutIdxToBase(i) \in Executable /\ HeadStart * PageLen \in Nat
  BY LutIdxInverse, Constants
<1>3. \A s \in Slots : CodeAt(<<LutIdxToBase(i), s>>) \in Halfword \X Halfword
  BY <1>1 DEF CodeAt
<1>4. \A s \in Slots : CodeSeen(seen, LutIdxToBase(i), s, CodeAt(<<LutIdxToBase(i), s>>))
  BY <1>1 DEF CodeAt, CodeSeen
<1> QED
  BY <1>2, <1>3, <1>4 DEF NewPage, Page

-----------------------------------------------------------------------------
(* A fetch *)

FetchSeen(page, s) ==
  /\ fetched' = [place |-> <<page, s>>, code |-> fetched'.code]
  /\ fetched'.code \in Halfword \X Halfword
  /\ CodeSeen(seen, page, s, fetched'.code)

\* What a fetch of an instruction that may be fetched from there is to memory.
LEMMA FetchAllowed ==
  ASSUME NEW page \in Executable, NEW s \in Slots, FetchSeen(page, s), UNCHANGED <<mem, seen>>
  PROVE  Memory!Fetch /\ fetched' \in [place : Places, code : Halfword \X Halfword]
<1> DEFINE a == <<page, s>>
<1>1. a \in Places
  BY DEF Places
<1>2. PICK low \in Halfword, high \in Halfword : fetched'.code = <<low, high>>
  BY DEF FetchSeen
<1>3. low \in SeenIn(seen, a) /\ high \in SeenIn(seen, PlaceAfter(a))
  BY <1>2 DEF FetchSeen, CodeSeen
<1>4. fetched' = [place |-> a, code |-> <<low, high>>]
  BY <1>2 DEF FetchSeen
<1>5. [b \in Places |-> PlaceAfter(b)][a] = PlaceAfter(a)
  BY <1>1
<1> QED
  BY <1>1, <1>3, <1>4, <1>5 DEF Memory!Fetch, Memory!SeenAt, SeenIn

\* The end of fetch_instruction, at a page that is decoded.
LEMMA UsePageKeeps ==
  ASSUME IInv, Counted, NEW page \in Executable, NEW s \in Slots,
         NEW ps, NEW i \in DOMAIN ps, NEW last, UsePage(page, s, ps, i, last),
         Decoded(ps, fetches, seen), ps[i].base = page,
         Exact(ps, pageLut'), pageLut' \in [LutEntries -> 0 .. CacheMax], pageLut'[LutIdx(page)] = i
  PROVE  IInv' /\ Memory!Fetch
<1> DEFINE p == [ps[i] EXCEPT !.score = @ + PageLen]
<1>1. /\ ps \in Seq(Page) /\ Len(ps) \in Nat /\ DOMAIN ps = 1 .. Len(ps) /\ Len(ps) <= CacheMax
      /\ ps[i] \in Page /\ ps[i].score \in Nat
  BY PageFields DEF Decoded
<1>2. /\ p \in Page /\ p.base = ps[i].base /\ p.score = ps[i].score + PageLen /\ p.code = ps[i].code
  <2>1. ps[i].score + PageLen \in Nat
    BY <1>1, Constants
  <2> QED
    BY <2>1, <1>1, Rescored, Zenon
<1>3. pages' = [ps EXCEPT ![i] = p]
  BY DEF UsePage
<1> HIDE DEF p
<1>4. /\ pages' \in Seq(Page) /\ Len(pages') = Len(ps) /\ DOMAIN pages' = DOMAIN ps
      /\ \A j \in DOMAIN ps : pages'[j] = IF j = i THEN p ELSE ps[j]
  BY <1>1, <1>2, <1>3, ExceptSeq
<1>5. fetches \in 0 .. MaxFetches /\ fetches' = fetches + 1 /\ fetches' \in 0 .. MaxFetches
  BY Constants DEF IInv, TypeOK, Counted
<1>6. Bound(fetches') = Bound(fetches) + PageLen /\ Bound(fetches) \in Nat
  BY <1>5, Bounds
<1>8. seen' = seen
  BY DEF Counted
<1>9. Decoded(pages, fetches, seen)'
  <2>1. ASSUME NEW j \in DOMAIN ps
        PROVE  /\ pages'[j].score <= Bound(fetches')
               /\ \A t \in Slots : CodeSeen(seen, pages'[j].base, t, pages'[j].code[t])
    <3>1. ps[j].score \in Nat /\ ps[j].score <= Bound(fetches)
      BY <1>1, PageFields DEF Decoded
    <3>2. \A t \in Slots : CodeSeen(seen, ps[j].base, t, ps[j].code[t])
      BY DEF Decoded
    <3>3. pages'[j].base = ps[j].base /\ pages'[j].code = ps[j].code
      BY <1>2, <1>4
    <3>4. pages'[j].score <= Bound(fetches')
      BY <1>2, <1>4, <1>6, <3>1, Constants
    <3> QED
      BY <3>2, <3>3, <3>4
  <2> QED
    BY <2>1, <1>1, <1>4, <1>8 DEF Decoded, Bound
<1>10. Exact(pages, pageLut)'
  BY <1>2, <1>4 DEF Exact
<1>11. lastUsed' = [base |-> page, idx |-> i]
  BY DEF UsePage
<1>12. LastExact(lastUsed, pageLut)'
  BY <1>1, <1>11 DEF LastExact, None
<1>13. FetchSeen(page, s)
  <2>1. fetched' = [place |-> <<page, s>>, code |-> ps[i].code[s]]
    BY DEF UsePage
  <2>2. ps[i].code[s] \in Halfword \X Halfword
    BY <1>1, PageFields
  <2>3. CodeSeen(seen, page, s, ps[i].code[s])
    BY DEF Decoded
  <2> QED
    BY <2>1, <2>2, <2>3 DEF FetchSeen
<1>14. Memory!Fetch /\ fetched' \in [place : Places, code : Halfword \X Halfword]
  BY <1>13, FetchAllowed DEF Counted
<1>15. mem' = mem /\ seen' = seen
  BY DEF Counted
<1>16. TypeOK'
  <2>1. pages' \in Seq(Page) /\ Len(pages') <= CacheMax
    BY <1>1, <1>4
  <2>2. lastUsed' \in [base : Executable \cup {-1}, idx : 0 .. CacheMax]
    BY <1>1, <1>11, Constants
  <2> QED
    BY <2>1, <2>2, <1>5, <1>14, <1>15 DEF TypeOK, IInv
<1>17. MemorySeen'
  BY <1>15 DEF MemorySeen, IInv
<1> QED
  BY <1>9, <1>10, <1>12, <1>14, <1>16, <1>17 DEF IInv

LEMMA SamePageKeeps ==
  ASSUME IInv, NEW page \in Executable, NEW s \in Slots, FetchSamePage(page, s)
  PROVE  IInv' /\ Memory!Fetch
<1> DEFINE i == lastUsed.idx
<1>1. lastUsed # NoPage
  BY Constants DEF FetchSamePage, NoPage, Executable, Ram
<1>2. i = pageLut[LutIdx(page)] /\ i # None /\ LutIdx(page) \in LutEntries
  BY <1>1, LutIdxInverse DEF IInv, LastExact, FetchSamePage
<1>3. i \in DOMAIN pages /\ pages[i].base = page
  BY <1>2, LutIdxInverse DEF IInv, Exact
<1>4. pages[i].code[s] \in Halfword \X Halfword /\ CodeSeen(seen, page, s, pages[i].code[s])
  BY <1>3, PageFields DEF IInv, Decoded
<1>5. FetchSeen(page, s)
  BY <1>4 DEF FetchSamePage, FetchSeen
<1>6. Memory!Fetch /\ fetched' \in [place : Places, code : Halfword \X Halfword]
  BY <1>5, FetchAllowed DEF FetchSamePage, Counted
<1>7. /\ fetches \in 0 .. MaxFetches /\ fetches' = fetches + 1 /\ fetches' \in 0 .. MaxFetches
      /\ UNCHANGED <<mem, pages, pageLut, lastUsed, seen>>
  BY Constants DEF IInv, TypeOK, FetchSamePage, Counted
<1>8. Decoded(pages, fetches, seen)'
  <2>1. Bound(fetches') = Bound(fetches) + PageLen /\ Bound(fetches) \in Nat
    BY <1>7, Bounds
  <2>2. \A j \in DOMAIN pages : pages[j].score <= Bound(fetches')
    BY <2>1, PageFields, Constants DEF IInv, Decoded
  <2> QED
    BY <2>2, <1>7 DEF IInv, Decoded, Bound
<1> QED
  BY <1>6, <1>7, <1>8 DEF IInv, TypeOK, Exact, LastExact, MemorySeen

LEMMA DecodedPageKeeps ==
  ASSUME IInv, NEW page \in Executable, NEW s \in Slots, FetchDecodedPage(page, s)
  PROVE  IInv' /\ Memory!Fetch
<1> DEFINE i == pageLut[LutIdx(page)]
<1>1. pageLut' = pageLut /\ Counted /\ UsePage(page, s, pages, i, lastUsed) /\ i # None
  BY DEF FetchDecodedPage
<1>2. i \in DOMAIN pages /\ pages[i].base = page
  BY <1>1, LutIdxInverse DEF IInv, Exact
<1>3. /\ Decoded(pages, fetches, seen) /\ Exact(pages, pageLut')
      /\ pageLut' \in [LutEntries -> 0 .. CacheMax]
  BY <1>1 DEF IInv, TypeOK
<1> QED
  BY <1>1, <1>2, <1>3, UsePageKeeps

LEMMA NewPageKeeps ==
  ASSUME IInv, NEW page \in Executable, NEW s \in Slots, FetchNewPage(page, s)
  PROVE  IInv' /\ Memory!Fetch
<1> DEFINE e == LutIdx(page)
           n == Len(pages) + 1
           new == NewPage(e)
           ps == Append(pages, new)
<1>1. /\ Counted /\ UsePage(page, s, ps, n, lastUsed) /\ pageLut[e] = None /\ Len(pages) < CacheMax
      /\ pageLut' = [pageLut EXCEPT ![e] = n]
  BY DEF FetchNewPage
<1>2. /\ e \in LutEntries /\ LutIdxToBase(e) = page /\ pages \in Seq(Page) /\ Len(pages) \in Nat
      /\ DOMAIN pages = 1 .. Len(pages) /\ pageLut \in [LutEntries -> 0 .. CacheMax]
      /\ fetches \in 0 .. MaxFetches
  BY LutIdxInverse, LenProperties DEF IInv, TypeOK
<1>3. /\ new \in Page /\ new.base = page /\ new.score = HeadStart * PageLen
      /\ \A t \in Slots : CodeSeen(seen, new.base, t, new.code[t])
  BY <1>2, NewPageSeen
<1> HIDE DEF new, e
<1>4. /\ ps \in Seq(Page) /\ Len(ps) = n /\ DOMAIN ps = 1 .. n /\ ps[n] = new
      /\ \A j \in DOMAIN pages : ps[j] = pages[j]
  BY <1>2, <1>3, AppendProperties, LenProperties
<1> HIDE DEF ps
<1>5. pageLut' \in [LutEntries -> 0 .. CacheMax] /\ pageLut'[e] = n
  BY <1>1, <1>2, Constants
<1>6. Decoded(ps, fetches, seen)
  <2>1. new.score <= Bound(fetches)
    BY <1>2, <1>3, Bounds
  <2>2. ASSUME NEW j \in DOMAIN ps
        PROVE  ps[j].score <= Bound(fetches) /\ \A t \in Slots : CodeSeen(seen, ps[j].base, t, ps[j].code[t])
    <3>1. CASE j = n
      BY <3>1, <2>1, <1>3, <1>4
    <3>2. CASE j # n
      <4>1. j \in DOMAIN pages /\ ps[j] = pages[j]
        BY <3>2, <1>2, <1>4
      <4> QED
        BY <4>1 DEF IInv, Decoded
    <3> QED
      BY <3>1, <3>2
  <2> QED
    BY <2>2, <1>1, <1>2, <1>4, Constants DEF Decoded
<1>7. Exact(ps, pageLut')
  <2>1. ASSUME NEW i \in LutEntries, pageLut'[i] # None
        PROVE  pageLut'[i] \in DOMAIN ps /\ ps[pageLut'[i]].base = LutIdxToBase(i)
    <3>1. CASE i = e
      BY <3>1, <1>2, <1>3, <1>4, <1>5
    <3>2. CASE i # e
      <4>1. pageLut'[i] = pageLut[i]
        BY <3>2, <1>1, <1>2
      <4>2. pageLut[i] \in DOMAIN pages /\ pages[pageLut[i]].base = LutIdxToBase(i)
        BY <2>1, <4>1 DEF IInv, Exact
      <4> QED
        BY <4>1, <4>2, <1>2, <1>4
    <3> QED
      BY <3>1, <3>2
  <2>2. ASSUME NEW j \in DOMAIN ps
        PROVE  pageLut'[LutIdx(ps[j].base)] = j
    <3>1. CASE j = n
      BY <3>1, <1>3, <1>4, <1>5 DEF e
    <3>2. CASE j # n
      <4>1. j \in DOMAIN pages /\ ps[j] = pages[j]
        BY <3>2, <1>2, <1>4
      <4>2. pageLut[LutIdx(pages[j].base)] = j /\ j # None
        BY <4>1, <1>2 DEF IInv, Exact, None
      <4>3. LutIdx(pages[j].base) # e
        BY <4>2, <1>1
      <4>4. pageLut'[LutIdx(pages[j].base)] = pageLut[LutIdx(pages[j].base)]
        BY <4>1, <4>3, <1>1, <1>2, PageFields, LutIdxInverse
      <4> QED
        BY <4>1, <4>2, <4>4
    <3> QED
      BY <3>1, <3>2
  <2> QED
    BY <2>1, <2>2 DEF Exact
<1>8. n \in DOMAIN ps /\ ps[n].base = page /\ pageLut'[LutIdx(page)] = n
  BY <1>2, <1>3, <1>4, <1>5 DEF e
<1> QED
  BY <1>1, <1>5, <1>6, <1>7, <1>8, UsePageKeeps

LEMMA EvictingKeeps ==
  ASSUME IInv, NEW page \in Executable, NEW s \in Slots, FetchEvicting(page, s)
  PROVE  IInv' /\ Memory!Fetch
<1> DEFINE e == LutIdx(page)
           new == NewPage(e)
<1>1. PICK ip \in Evictable :
        /\ pageLut' = [Forget(ip) EXCEPT ![e] = ip]
        /\ UsePage(page, s, [pages EXCEPT ![ip] = new], ip, NoPage)
  BY DEF FetchEvicting
<1> DEFINE old == LutIdx(pages[ip].base)
           ps == [pages EXCEPT ![ip] = new]
<1>2. Counted /\ pageLut[e] = None /\ ip \in DOMAIN pages
  BY DEF FetchEvicting, Evictable
<1>3. /\ e \in LutEntries /\ LutIdxToBase(e) = page /\ pages \in Seq(Page) /\ Len(pages) \in Nat
      /\ Len(pages) <= CacheMax
      /\ DOMAIN pages = 1 .. Len(pages) /\ pageLut \in [LutEntries -> 0 .. CacheMax]
      /\ fetches \in 0 .. MaxFetches
  BY LutIdxInverse, LenProperties DEF IInv, TypeOK
<1>4. /\ new \in Page /\ new.base = page /\ new.score = HeadStart * PageLen
      /\ \A t \in Slots : CodeSeen(seen, new.base, t, new.code[t])
  BY <1>3, NewPageSeen
<1>5. old \in LutEntries /\ pageLut[old] = ip /\ ip # None /\ old # e
  BY <1>2, <1>3, PageFields, LutIdxInverse DEF IInv, Exact, None
<1>6. pageLut' = [[pageLut EXCEPT ![old] = None] EXCEPT ![e] = ip]
  BY <1>1 DEF Forget
<1>7. UsePage(page, s, ps, ip, NoPage)
  BY <1>1
<1> HIDE DEF new, e, old
<1>8. /\ ps \in Seq(Page) /\ Len(ps) = Len(pages) /\ DOMAIN ps = DOMAIN pages
      /\ \A j \in DOMAIN pages : ps[j] = IF j = ip THEN new ELSE pages[j]
  BY <1>2, <1>3, <1>4, ExceptSeq, LenProperties
<1> HIDE DEF ps
<1>9. /\ pageLut' \in [LutEntries -> 0 .. CacheMax] /\ pageLut'[e] = ip /\ pageLut'[old] = None
      /\ \A i \in LutEntries \ {e, old} : pageLut'[i] = pageLut[i]
  BY <1>2, <1>3, <1>5, <1>6, Constants DEF None
<1>10. Decoded(ps, fetches, seen)
  <2>1. new.score <= Bound(fetches)
    BY <1>3, <1>4, Bounds
  <2>2. ASSUME NEW j \in DOMAIN ps
        PROVE  ps[j].score <= Bound(fetches) /\ \A t \in Slots : CodeSeen(seen, ps[j].base, t, ps[j].code[t])
    <3>1. CASE j = ip
      BY <3>1, <2>1, <1>4, <1>8
    <3>2. CASE j # ip
      BY <3>2, <1>8 DEF IInv, Decoded
    <3> QED
      BY <3>1, <3>2
  <2> QED
    BY <2>2, <1>3, <1>8 DEF Decoded
<1>11. Exact(ps, pageLut')
  <2>1. ASSUME NEW i \in LutEntries, pageLut'[i] # None
        PROVE  pageLut'[i] \in DOMAIN ps /\ ps[pageLut'[i]].base = LutIdxToBase(i)
    <3>1. CASE i = e
      BY <3>1, <1>2, <1>3, <1>4, <1>8, <1>9
    <3>2. CASE i # e
      <4>1. i # old /\ pageLut'[i] = pageLut[i]
        BY <3>2, <2>1, <1>9
      <4>2. pageLut[i] \in DOMAIN pages /\ pages[pageLut[i]].base = LutIdxToBase(i)
        BY <2>1, <4>1 DEF IInv, Exact
      <4>3. pageLut[i] # ip
        BY <4>1, <4>2, LutIdxInverse DEF old
      <4> QED
        BY <4>1, <4>2, <4>3, <1>8
    <3> QED
      BY <3>1, <3>2
  <2>2. ASSUME NEW j \in DOMAIN ps
        PROVE  pageLut'[LutIdx(ps[j].base)] = j
    <3>1. CASE j = ip
      BY <3>1, <1>4, <1>8, <1>9 DEF e
    <3>2. CASE j # ip
      <4>1. j \in DOMAIN pages /\ ps[j] = pages[j]
        BY <3>2, <1>8
      <4>2. pageLut[LutIdx(pages[j].base)] = j /\ j # None
        BY <4>1, <1>3 DEF IInv, Exact, None
      <4>3. LutIdx(pages[j].base) \in LutEntries \ {e, old}
        BY <4>1, <4>2, <3>2, <1>2, <1>3, <1>5, PageFields, LutIdxInverse
      <4> QED
        BY <4>1, <4>2, <4>3, <1>9
    <3> QED
      BY <3>1, <3>2
  <2> QED
    BY <2>1, <2>2 DEF Exact
<1>12. ip \in DOMAIN ps /\ ps[ip].base = page /\ pageLut'[LutIdx(page)] = ip
  BY <1>2, <1>4, <1>8, <1>9 DEF e
<1> QED
  BY <1>2, <1>7, <1>9, <1>10, <1>11, <1>12, UsePageKeeps

-----------------------------------------------------------------------------
(* The other operations *)

LEMMA WriteKeeps ==
  ASSUME IInv, NEW S \in SUBSET (Ram \X Slots), NEW cells \in [S -> Halfword], Write(cells)
  PROVE  IInv' /\ Memory!Write
<1>1. mem' \in [Places -> Halfword] /\ seen' = [a \in Places |-> seen[a] \cup {mem'[a]}]
  BY DEF Write, IInv, TypeOK
<1>2. \A a \in Places : mem'[a] \in seen'[a] /\ seen[a] \subseteq seen'[a] /\ seen'[a] \in SUBSET Halfword
  BY <1>1 DEF IInv, TypeOK
<1>3. UNCHANGED <<pages, pageLut, lastUsed, fetched, fetches>>
  BY DEF Write
<1>4. \A page, s, code : CodeSeen(seen, page, s, code) => CodeSeen(seen', page, s, code)
  BY <1>2 DEF CodeSeen, SeenIn
<1>5. Decoded(pages, fetches, seen)'
  BY <1>3, <1>4 DEF IInv, Decoded, Bound
<1>6. TypeOK'
  BY <1>1, <1>2, <1>3 DEF IInv, TypeOK
<1> QED
  BY <1>1, <1>2, <1>3, <1>5, <1>6 DEF IInv, Exact, LastExact, MemorySeen, Memory!Write

LEMMA InvalidateKeeps ==
  ASSUME IInv, Invalidate
  PROVE  IInv' /\ Memory!Fence
<1>1. /\ pages' = <<>> /\ pageLut' = [i \in LutEntries |-> None] /\ lastUsed' = NoPage
      /\ seen' = [a \in Places |-> {mem[a]}] /\ UNCHANGED <<mem, fetched, fetches>>
  BY DEF Invalidate
<1>2. <<>> \in Seq(Page) /\ Len(<<>>) = 0 /\ DOMAIN <<>> = {}
  BY EmptySeq
<1>3. TypeOK'
  BY <1>1, <1>2, Constants DEF IInv, TypeOK, None, NoPage
<1>4. Decoded(pages, fetches, seen)' /\ Exact(pages, pageLut)' /\ LastExact(lastUsed, pageLut)'
  BY <1>1, <1>2, Constants DEF Decoded, Exact, LastExact, None
<1> QED
  BY <1>1, <1>3, <1>4 DEF IInv, TypeOK, MemorySeen, Memory!Fence

LEMMA ExpireKeeps ==
  ASSUME IInv, ExpirePages
  PROVE  IInv' /\ UNCHANGED Memory!vars
<1> DEFINE Halved(j) == [pages[j] EXCEPT !.score = pages[j].score \div 2]
<1>1. /\ pages \in Seq(Page) /\ Len(pages) \in Nat /\ DOMAIN pages = 1 .. Len(pages)
      /\ fetches \in 0 .. MaxFetches /\ Len(pages) <= CacheMax
  BY LenProperties DEF IInv, TypeOK
<1>2. fetches' = 0 /\ UNCHANGED <<mem, pageLut, lastUsed, fetched, seen>>
  BY DEF ExpirePages
<1>3. pages' = [j \in 1 .. Len(pages) |-> Halved(j)]
  BY <1>1 DEF ExpirePages
<1>4. ASSUME NEW j \in DOMAIN pages
      PROVE  /\ Halved(j) \in Page /\ Halved(j).base = pages[j].base /\ Halved(j).code = pages[j].code
             /\ Halved(j).score <= Bound(0)
  <2>1. pages[j] \in Page /\ pages[j].score \in Nat /\ pages[j].score <= Bound(fetches)
    BY <1>1, PageFields DEF IInv, Decoded
  <2>2. pages[j].score \div 2 \in Nat /\ pages[j].score \div 2 <= Bound(0)
    BY <1>1, <2>1, Bounds
  <2>3. /\ Halved(j) \in Page /\ Halved(j).base = pages[j].base /\ Halved(j).code = pages[j].code
        /\ Halved(j).score = pages[j].score \div 2
    BY <2>1, <2>2, Rescored, Zenon
  <2> HIDE DEF Halved
  <2> QED
    BY <2>2, <2>3
<1> HIDE DEF Halved
<1>5. pages' \in Seq(Page) /\ Len(pages') = Len(pages) /\ DOMAIN pages' = DOMAIN pages
  BY <1>1, <1>3, <1>4, IsASeq, LenProperties
<1>6. \A j \in DOMAIN pages : pages'[j] = Halved(j)
  BY <1>1, <1>3
<1>7. Decoded(pages, fetches, seen)'
  BY <1>1, <1>2, <1>4, <1>5, <1>6 DEF IInv, Decoded, Bound
<1>8. Exact(pages, pageLut)'
  BY <1>2, <1>4, <1>5, <1>6 DEF IInv, Exact
<1>9. TypeOK'
  BY <1>1, <1>2, <1>5, Constants DEF IInv, TypeOK
<1> QED
  BY <1>2, <1>7, <1>8, <1>9 DEF IInv, LastExact, MemorySeen, Memory!vars

-----------------------------------------------------------------------------
(* The theorems *)

LEMMA InitKeeps == Init => IInv /\ Memory!Init
<1> SUFFICES ASSUME Init PROVE IInv /\ Memory!Init
  OBVIOUS
<1>1. <<>> \in Seq(Page) /\ Len(<<>>) = 0 /\ DOMAIN <<>> = {}
  BY EmptySeq
<1>2. TypeOK
  BY <1>1, Constants DEF Init, TypeOK, None, NoPage
<1>3. Decoded(pages, fetches, seen) /\ Exact(pages, pageLut) /\ LastExact(lastUsed, pageLut)
  BY <1>1, Constants DEF Init, Decoded, Exact, LastExact, None
<1> QED
  BY <1>2, <1>3 DEF Init, IInv, MemorySeen, Memory!Init

LEMMA NextKeeps == IInv /\ [Next]_vars => IInv' /\ [Memory!Next]_Memory!vars
<1> SUFFICES ASSUME IInv, [Next]_vars PROVE IInv' /\ [Memory!Next]_Memory!vars
  OBVIOUS
<1>1. ASSUME NEW page \in Executable, NEW s \in Slots, FetchInstruction(page, s)
      PROVE  IInv' /\ Memory!Fetch
  BY <1>1, SamePageKeeps, DecodedPageKeeps, NewPageKeeps, EvictingKeeps DEF FetchInstruction
<1>2. ASSUME NEW S \in SUBSET (Ram \X Slots), NEW cells \in [S -> Halfword], Write(cells)
      PROVE  IInv' /\ Memory!Write
  BY <1>2, WriteKeeps
<1>3. CASE Invalidate
  BY <1>3, InvalidateKeeps DEF Memory!Next
<1>4. CASE ExpirePages
  BY <1>4, ExpireKeeps
<1>5. CASE UNCHANGED vars
  BY <1>5 DEF vars, IInv, TypeOK, Decoded, Exact, LastExact, MemorySeen, Memory!vars
<1>6. ASSUME NEW cells \in UNION {[S -> Halfword] : S \in SUBSET (Ram \X Slots)}, Write(cells)
      PROVE  IInv' /\ Memory!Write
  <2>1. PICK S \in SUBSET (Ram \X Slots) : cells \in [S -> Halfword]
    OBVIOUS
  <2> QED
    BY <2>1, <1>6, <1>2
<1> QED
  BY <1>1, <1>3, <1>4, <1>5, <1>6 DEF Next, Memory!Next

LEMMA AlwaysIInv == Spec => []IInv
<1>1. Init => IInv
  BY InitKeeps
<1>2. IInv /\ [Next]_vars => IInv'
  BY NextKeeps
<1> QED
  BY <1>1, <1>2, PTL DEF Spec

\* The cache holds pages of memory and page_lut their numbers.
THEOREM DecoderTypeCorrect == Spec => []TypeOK
<1>1. IInv => TypeOK
  BY DEF IInv
<1> QED
  BY <1>1, AlwaysIInv, PTL

\* last_used_page, page_lut and the pages always agree: no eviction and no flush leaves a
\* number behind that leads to another page.
THEOREM LutAlwaysExact == Spec => []LutIsExact
<1>1. IInv => LutIsExact
  BY DEF IInv, Exact, LastExact, LutIsExact
<1> QED
  BY <1>1, AlwaysIInv, PTL

\* fetch_instruction's "Should never overflow in practice", for any number of fetches in a
\* frame that DecoderAssumption allows: halving every frame is enough.
THEOREM ScoreAlwaysFits == Spec => []ScoreFits
<1>1. IInv => ScoreFits
  <2> SUFFICES ASSUME IInv, NEW j \in DOMAIN pages PROVE pages[j].score + MaxBias <= MaxScore
    BY DEF ScoreFits
  <2>1. pages \in Seq(Page) /\ fetches \in 0 .. MaxFetches /\ pages[j].score <= Bound(fetches)
    BY DEF IInv, TypeOK, Decoded
  <2>2. pages[j].score \in Nat /\ Bound(fetches) \in Nat /\ Bound(fetches) + MaxBias <= MaxScore
    BY <2>1, PageFields, Bounds
  <2> QED
    BY <2>1, <2>2, Constants
<1> QED
  BY <1>1, AlwaysIInv, PTL

\* Fetching through the cache is what InstructionMemory promises, with decoded pages of any
\* number and size, whichever are evicted.
THEOREM CacheIsTransparent == Spec => FetchFollowsMemory
<1>1. Init => Memory!Init
  BY InitKeeps
<1>2. IInv /\ [Next]_vars => [Memory!Next]_Memory!vars
  BY NextKeeps
<1> QED
  BY <1>1, <1>2, AlwaysIInv, PTL DEF Spec, FetchFollowsMemory, Memory!Spec
=============================================================================
