----------------------------- MODULE HeapProofs -----------------------------
(***************************************************************************)
(* Proofs about Heap, for any heap, alignment and sizes: the list always   *)
(* tiles the heap, and allocations never overlap.                          *)
(***************************************************************************)
EXTENDS Heap, TLAPS

End(h, b) == b + HEADER_SIZE + h[b].size

\* The parts of ListTilesHeap and BlocksApart, over any memory h and blocks B.
NextOK(h, B, b) ==
  IF End(h, b) = heapEnd THEN h[b].next = Null
  ELSE h[b].next = End(h, b) /\ End(h, b) \in B /\ h[End(h, b)].prev = b
PrevOK(h, B, b) ==
  IF b = heapStart THEN h[b].prev = Null
  ELSE h[b].prev \in B /\ h[h[b].prev].next = b
LinksOK(h, B) == \A b \in B : h[b].magic /\ NextOK(h, B, b) /\ PrevOK(h, B, b)
Ordered(h, B) == \A b, c \in B : b < c => End(h, b) <= c

Headers == [Addrs -> Header]
Sound(h, B) == h \in Headers /\ B \subseteq Addrs /\ LinksOK(h, B) /\ Ordered(h, B)

-----------------------------------------------------------------------------
(* Numbers *)

\* What the proofs need of the constants.
LEMMA Constants ==
  /\ heapStart \in Nat /\ heapStart > 0 /\ heapEnd \in Nat /\ heapEnd < W /\ W \in Nat
  /\ heapStart + HEADER_SIZE <= heapEnd
  /\ HEADER_SIZE \in Nat /\ HEADER_SIZE > 0 /\ ALIGN \in Nat /\ ALIGN > 0
  /\ Addrs \subseteq Nat /\ 0 \notin Addrs
  /\ \A a \in Nat : a \in Addrs <=> heapStart <= a /\ a < heapEnd
BY HeapAssumption DEF heapEnd, Addrs, Null

\* A rounded request is a number of the machine, no less than the request.
LEMMA AlignUpGrows ==
  ASSUME NEW s \in Requests
  PROVE  AlignUp(s) \in 0 .. W - 1 /\ s <= AlignUp(s)
<1>1. s \in Nat /\ s + ALIGN - 1 \in 0 .. W - 1 /\ ALIGN \in Nat \ {0} /\ W \in Nat \ {0}
  BY HeapAssumption
<1>2. (s + ALIGN - 1) % W = s + ALIGN - 1
  BY <1>1
<1>3. (s + ALIGN - 1) % ALIGN \in 0 .. ALIGN - 1 /\ (s + ALIGN - 1) % ALIGN <= s + ALIGN - 1
  BY <1>1
<1> QED
  BY <1>1, <1>2, <1>3 DEF AlignUp, AlignDown

\* The fields of a header.
LEMMA Fields ==
  ASSUME NEW h \in Headers, NEW a \in Addrs
  PROVE  /\ h[a].size \in Nat /\ h[a].size < W
         /\ h[a].next \in Addrs \cup {Null} /\ h[a].prev \in Addrs \cup {Null}
         /\ h[a].used \in BOOLEAN /\ h[a].magic \in BOOLEAN
         /\ h[a] \in Header
         /\ End(h, a) \in Nat /\ End(h, a) > a
BY Constants DEF Headers, Header, End

\* A block ends in the heap.
LEMMA EndInHeap ==
  ASSUME NEW h, NEW B, Sound(h, B), NEW b \in B
  PROVE  End(h, b) <= heapEnd
BY Constants, Fields DEF Sound, LinksOK, NextOK

-----------------------------------------------------------------------------
(* What the steps of the calls do to a sound list *)

\* The list does not depend on which blocks are in use.
LEMMA SameListSound ==
  ASSUME NEW h, NEW B, Sound(h, B), NEW g \in Headers,
         \A a \in Addrs : /\ g[a].size = h[a].size /\ g[a].next = h[a].next
                          /\ g[a].prev = h[a].prev /\ g[a].magic = h[a].magic
  PROVE  Sound(g, B)
<1>1. B \subseteq Addrs /\ \A a \in Addrs : End(g, a) = End(h, a)
  BY DEF End, Sound
<1>2. Ordered(g, B)
  BY <1>1 DEF Sound, Ordered
<1>3. LinksOK(g, B)
  <2> SUFFICES ASSUME NEW a \in B PROVE g[a].magic /\ NextOK(g, B, a) /\ PrevOK(g, B, a)
    BY DEF LinksOK
  <2>1. h[a].magic /\ NextOK(h, B, a) /\ PrevOK(h, B, a) /\ a \in Addrs
    BY <1>1 DEF Sound, LinksOK
  <2>2. NextOK(g, B, a)
    BY <1>1, <2>1 DEF NextOK
  <2>3. PrevOK(g, B, a)
    BY <1>1, <2>1 DEF PrevOK
  <2> QED
    BY <2>1, <2>2, <2>3
<1> QED
  BY <1>1, <1>2, <1>3 DEF Sound

\* A block that takes in its successor: the list loses that block and no other.
LEMMA AbsorbSound ==
  ASSUME NEW h, NEW B, Sound(h, B), NEW a \in B, h[a].next # Null
  PROVE  /\ h[a].next \in B /\ h[a].next # a /\ h[h[a].next].prev = a /\ h[a].prev # h[a].next
         /\ Sound(Absorb(h, a), B \ {h[a].next})
         /\ \A x \in B \ {h[a].next} :
              Absorb(h, a)[x].used = h[x].used /\ Absorb(h, a)[x].size >= h[x].size
         /\ \A x \in B \ {h[a].next} : x # a => Absorb(h, a)[x].next = h[x].next
         /\ Absorb(h, a)[a].prev = h[a].prev /\ Absorb(h, a)[a].next = h[h[a].next].next
<1> DEFINE g == Absorb(h, a)
           n == h[a].next
           C == B \ {n}
<1>1. h \in Headers /\ a \in Addrs /\ B \subseteq Addrs
  BY DEF Sound
<1>2. n = End(h, a) /\ n \in B /\ h[n].prev = a /\ End(h, a) # heapEnd
  BY DEF Sound, LinksOK, NextOK
<1>3. n \in Addrs /\ n # a /\ a < n
  BY <1>1, <1>2, Constants, Fields
<1>4. /\ End(h, n) <= heapEnd
      /\ IF End(h, n) = heapEnd THEN h[n].next = Null
         ELSE h[n].next = End(h, n) /\ End(h, n) \in B /\ h[End(h, n)].prev = n
  BY <1>2, EndInHeap DEF Sound, LinksOK, NextOK
<1>5. /\ h[n].next # a /\ h[n].next # n /\ h[a].prev # n /\ h[a].prev # a
      /\ h[n].next = h[a].prev => h[n].next = Null
  <2>1. h[n].next = Null \/ h[n].next > n
    BY <1>1, <1>3, <1>4, Fields
  <2>2. h[a].prev = Null \/ h[a].prev < a
    <3>1. CASE a = heapStart
      BY <3>1 DEF Sound, LinksOK, PrevOK
    <3>2. CASE a # heapStart
      <4>1. h[a].prev \in B /\ h[h[a].prev].next = a
        BY <3>2 DEF Sound, LinksOK, PrevOK
      <4>2. h[a].prev \in Addrs /\ NextOK(h, B, h[a].prev)
        BY <1>1, <4>1 DEF Sound, LinksOK
      <4>3. a # Null /\ a = End(h, h[a].prev)
        BY <1>1, <4>1, <4>2, Constants DEF NextOK, Null
      <4>4. End(h, h[a].prev) > h[a].prev
        BY <1>1, <4>2, Fields
      <4> QED
        BY <4>3, <4>4
    <3> QED
      BY <3>1, <3>2
  <2>3. /\ a \in Nat /\ n \in Nat /\ a # 0 /\ n # 0 /\ a < n
        /\ h[n].next \in Nat /\ h[a].prev \in Nat
    <3>1. h[n].next \in Addrs \cup {0} /\ h[a].prev \in Addrs \cup {0}
      BY <1>1, <1>3, Fields DEF Null
    <3>2. a \in Nat /\ n \in Nat /\ a # 0 /\ n # 0 /\ Addrs \subseteq Nat
      BY <1>1, <1>3, Constants
    <3>3. \A v : v \in Addrs \cup {0} => v \in Nat
      BY <3>2
    <3>4. h[n].next \in Nat /\ h[a].prev \in Nat
      BY <3>1, <3>3
    <3> QED
      BY <1>3, <3>2, <3>4
  <2> QED
    BY <2>1, <2>2, <2>3 DEF Null
<1>6. \A x \in Addrs :
        /\ g[x] \in Header
        /\ x = a => /\ g[x].size = h[a].size + h[n].size + HEADER_SIZE
                    /\ g[x].next = h[n].next /\ g[x].prev = h[a].prev
        /\ x # n => g[x].used = h[x].used /\ g[x].magic = h[x].magic
        /\ x # n /\ x # a =>
             /\ g[x].size = h[x].size
             /\ g[x].prev = IF x = h[n].next THEN a ELSE h[x].prev
             /\ g[x].next = IF x = h[a].prev THEN a ELSE h[x].next
  <2> DEFINE k == [h EXCEPT ![a] = Joined(h[a], h[n]), ![n] = Blank]
  <2>1. Joined(h[a], h[n]) \in Header
        /\ Joined(h[a], h[n]).size = h[a].size + h[n].size + HEADER_SIZE
        /\ Joined(h[a], h[n]).next = h[n].next /\ Joined(h[a], h[n]).prev = h[a].prev
        /\ Joined(h[a], h[n]).used = h[a].used /\ Joined(h[a], h[n]).magic = h[a].magic
    <3>1. h[a].size + h[n].size + HEADER_SIZE \in 0 .. W - 1
      BY <1>1, <1>2, <1>3, <1>4, Constants, Fields DEF End
    <3>2. h[a] \in Header /\ h[n] \in Header
      BY <1>1, <1>3, Fields
    <3> QED
      BY <3>1, <3>2 DEF Joined, Header
  <2>2. Blank \in Header
    BY Constants DEF Blank, Header, Null
  <2>3. \A x \in Addrs : k[x] = IF x = n THEN Blank ELSE IF x = a THEN Joined(h[a], h[n]) ELSE h[x]
    BY <1>1, <1>3 DEF Headers
  <2>4. \A x \in Addrs : k[x] \in Header
    <3> TAKE x \in Addrs
    <3>1. h[x] \in Header
      BY <1>1, Fields
    <3>2. k[x] = Blank \/ k[x] = Joined(h[a], h[n]) \/ k[x] = h[x]
      BY <2>3
    <3> QED
      BY <2>1, <2>2, <3>1, <3>2
  <2>5. k[a] = Joined(h[a], h[n]) /\ k[a].next = h[n].next /\ k[a].prev = h[a].prev
    BY <1>1, <1>3, <2>1, <2>3
  <2> HIDE DEF k
  <2>6. g = Relink(k, a)
    BY DEF Absorb, k
  <2>7. \A x \in Addrs : g[x] = IF x = h[n].next THEN [k[x] EXCEPT !.prev = a]
                                 ELSE IF x = h[a].prev THEN [k[x] EXCEPT !.next = a]
                                 ELSE k[x]
    BY <2>5, <2>6 DEF Relink
  <2> HIDE DEF g
  <2> TAKE x \in Addrs
  <2>8. /\ [k[x] EXCEPT !.prev = a] \in Header /\ [k[x] EXCEPT !.next = a] \in Header
        /\ [k[x] EXCEPT !.prev = a].prev = a /\ [k[x] EXCEPT !.prev = a].next = k[x].next
        /\ [k[x] EXCEPT !.prev = a].size = k[x].size /\ [k[x] EXCEPT !.prev = a].used = k[x].used
        /\ [k[x] EXCEPT !.prev = a].magic = k[x].magic
        /\ [k[x] EXCEPT !.next = a].next = a /\ [k[x] EXCEPT !.next = a].prev = k[x].prev
        /\ [k[x] EXCEPT !.next = a].size = k[x].size /\ [k[x] EXCEPT !.next = a].used = k[x].used
        /\ [k[x] EXCEPT !.next = a].magic = k[x].magic
    <3>1. k[x] \in Header
      BY <2>4
    <3> QED
      BY <1>1, <3>1 DEF Header
  <2>9. g[x] \in Header
    BY <2>4, <2>7, <2>8
  <2>10. CASE x = a
    <3>1. g[x] = k[a]
      BY <1>5, <2>7, <2>10
    <3> QED
      BY <1>3, <2>1, <2>5, <2>9, <2>10, <3>1
  <2>11. CASE x # a /\ x # n
    <3>1. k[x] = h[x]
      BY <2>3, <2>11
    <3>2. CASE x = h[n].next
      <4>1. x # h[a].prev
        BY <1>5, <3>2, Constants DEF Null
      <4> QED
        BY <2>7, <2>8, <2>9, <2>11, <3>1, <3>2, <4>1
    <3>3. CASE x # h[n].next /\ x = h[a].prev
      BY <2>7, <2>8, <2>9, <2>11, <3>1, <3>3
    <3>4. CASE x # h[n].next /\ x # h[a].prev
      BY <2>7, <2>9, <2>11, <3>1, <3>4
    <3> QED
      BY <3>2, <3>3, <3>4
  <2>12. CASE x = n
    BY <1>3, <2>9, <2>12
  <2> QED
    BY <2>10, <2>11, <2>12
<1>7. g \in Headers
  <2>1. g = [x \in Addrs |-> g[x]]
    BY DEF Absorb, Relink
  <2> QED
    BY <1>6, <2>1 DEF Headers
<1> HIDE DEF g
<1>8. End(g, a) = End(h, n) /\ \A x \in C : x # a => End(g, x) = End(h, x)
  BY <1>1, <1>2, <1>3, <1>6, Constants, Fields DEF End
<1>9. Ordered(g, C)
  <2> SUFFICES ASSUME NEW x \in C, NEW y \in C, x < y PROVE End(g, x) <= y
    BY DEF Ordered
  <2>1. x \in Addrs /\ y \in Addrs /\ x \in B /\ y \in B /\ x # n /\ y # n
    BY <1>1
  <2>2. CASE x # a
    BY <1>8, <2>1, <2>2 DEF Sound, Ordered
  <2>3. CASE x = a
    <3>1. End(h, a) <= y
      BY <2>1, <2>3 DEF Sound, Ordered
    <3>2. n < y
      <4>1. n \in Nat /\ y \in Nat /\ y # n /\ n <= y
        BY <1>2, <1>3, <2>1, <3>1, Constants
      <4> QED
        BY <4>1
    <3> QED
      BY <1>2, <1>8, <2>1, <2>3, <3>2 DEF Sound, Ordered
  <2> QED
    BY <2>2, <2>3
<1>10. LinksOK(g, C)
  <2> SUFFICES ASSUME NEW x \in C PROVE g[x].magic /\ NextOK(g, C, x) /\ PrevOK(g, C, x)
    BY DEF LinksOK
  <2>1. x \in Addrs /\ x \in B /\ x # n /\ h[x].magic /\ NextOK(h, B, x) /\ PrevOK(h, B, x)
    BY <1>1 DEF Sound, LinksOK
  <2>2. NextOK(g, C, x)
    <3>1. CASE x = a
      <4>1. CASE End(h, n) = heapEnd
        BY <1>4, <1>6, <1>8, <2>1, <3>1, <4>1 DEF NextOK
      <4>2. CASE End(h, n) # heapEnd
        <5>1. /\ h[n].next = End(h, n) /\ End(h, n) \in C /\ End(h, n) \in Addrs
              /\ End(h, n) # a
          BY <1>1, <1>4, <1>5, <4>2
        <5>2. g[End(h, n)].prev = a
          BY <1>6, <5>1
        <5> QED
          BY <1>6, <1>8, <2>1, <3>1, <4>2, <5>1, <5>2 DEF NextOK
      <4> QED
        BY <4>1, <4>2
    <3>2. CASE x # a
      <4>1. End(g, x) = End(h, x)
        BY <1>8, <3>2
      <4>2. CASE End(h, x) = heapEnd
        <5>1. h[x].next = Null
          BY <2>1, <4>2 DEF NextOK
        <5>2. x # h[a].prev
          <6>1. h[a].prev = x => a # heapStart /\ h[x].next = a
            BY <1>1, <2>1, Constants DEF Sound, LinksOK, PrevOK, Null
          <6> QED
            BY <1>1, <5>1, <6>1, Constants DEF Null
        <5> QED
          BY <1>6, <2>1, <3>2, <4>1, <4>2, <5>1, <5>2 DEF NextOK
      <4>3. CASE End(h, x) # heapEnd
        <5>1. h[x].next = End(h, x) /\ End(h, x) \in B /\ h[End(h, x)].prev = x
          BY <2>1, <4>3 DEF NextOK
        <5>2. End(h, x) # n /\ End(h, x) \in Addrs /\ End(h, x) \in C
          BY <1>1, <1>2, <3>2, <5>1
        <5>3. x = h[a].prev => End(h, x) = a
          <6>1. h[a].prev = x => a # heapStart /\ h[x].next = a
            BY <1>1, <2>1, Constants DEF Sound, LinksOK, PrevOK, Null
          <6> QED
            BY <5>1, <6>1
        <5>4. g[x].next = End(h, x)
          BY <1>6, <2>1, <3>2, <5>1, <5>3
        <5>5. g[End(h, x)].prev = x
          <6>1. CASE End(h, x) = a
            BY <1>6, <5>1, <5>2, <6>1
          <6>2. CASE End(h, x) # a
            <7>1. End(h, x) # h[n].next
              BY <1>1, <1>4, <2>1, <5>1, <5>2, Constants DEF Null
            <7> QED
              BY <1>6, <5>1, <5>2, <6>2, <7>1
          <6> QED
            BY <6>1, <6>2
        <5> QED
          BY <4>1, <4>3, <5>2, <5>4, <5>5 DEF NextOK
      <4> QED
        BY <4>2, <4>3
    <3> QED
      BY <3>1, <3>2
  <2>3. PrevOK(g, C, x)
    <3>1. CASE x = heapStart
      <4>1. h[x].prev = Null
        BY <2>1, <3>1 DEF PrevOK
      <4>2. x # h[n].next
        BY <1>1, <1>2, <1>3, <1>4, <2>1, <3>1, <4>1, Constants, Fields DEF Null
      <4> QED
        BY <1>6, <2>1, <3>1, <4>1, <4>2 DEF PrevOK
    <3>2. CASE x # heapStart
      <4>1. h[x].prev \in B /\ h[h[x].prev].next = x /\ h[x].prev \in Addrs
        BY <1>1, <2>1, <3>2 DEF PrevOK
      <4>2. CASE x = h[n].next
        <5>1. x # a /\ g[x].prev = a /\ g[a].next = x /\ a \in C
          BY <1>1, <1>3, <1>5, <1>6, <2>1, <4>2
        <5> QED
          BY <3>2, <5>1 DEF PrevOK
      <4>3. CASE x # h[n].next
        <5>1. h[x].prev # n
          BY <4>1, <4>3
        <5>2. g[x].prev = h[x].prev
          BY <1>6, <2>1, <4>3
        <5>3. g[h[x].prev].next = x
          <6>1. CASE h[x].prev = a
            BY <1>2, <2>1, <4>1, <6>1
          <6>2. CASE h[x].prev # a /\ h[x].prev = h[a].prev
            <7>1. a # heapStart
              BY <1>1, <4>1, <6>2, Constants DEF Sound, LinksOK, PrevOK, Null
            <7>2. h[h[a].prev].next = a
              BY <7>1 DEF Sound, LinksOK, PrevOK
            <7> QED
              BY <1>6, <4>1, <5>1, <6>2, <7>2
          <6>3. CASE h[x].prev # a /\ h[x].prev # h[a].prev
            BY <1>6, <4>1, <5>1, <6>3
          <6> QED
            BY <6>1, <6>2, <6>3
        <5> QED
          BY <3>2, <4>1, <5>1, <5>2, <5>3 DEF PrevOK
      <4> QED
        BY <4>2, <4>3
    <3> QED
      BY <3>1, <3>2
  <2> QED
    BY <1>6, <2>1, <2>2, <2>3
<1>11. Sound(g, C)
  BY <1>1, <1>7, <1>9, <1>10 DEF Sound
<1>12. \A x \in C : g[x].used = h[x].used /\ g[x].size >= h[x].size
  <2> TAKE x \in C
  <2>1. x \in Addrs /\ x # n
    BY <1>1
  <2> QED
    BY <1>1, <1>3, <1>6, <2>1, Constants, Fields
<1>13. \A x \in C : x # a => g[x].next = h[x].next
  <2> TAKE x \in C
  <2>1. x \in Addrs /\ x # n
    BY <1>1
  <2>2. x = h[a].prev => a # heapStart /\ h[x].next = a
    BY <1>1, Constants DEF Sound, LinksOK, PrevOK, Null
  <2> QED
    BY <1>6, <2>1, <2>2
<1> QED
  BY <1>1, <1>2, <1>3, <1>5, <1>6, <1>11, <1>12, <1>13 DEF g

\* The same of a successor n and the memory g that results.
LEMMA AbsorbStep ==
  ASSUME NEW h, NEW B, Sound(h, B), NEW a \in B, h[a].next # Null,
         NEW n, n = h[a].next, NEW g, g = Absorb(h, a)
  PROVE  /\ n \in B /\ n # a /\ h[n].prev = a /\ h[a].prev # n
         /\ Sound(g, B \ {n})
         /\ \A x \in B \ {n} : g[x].used = h[x].used /\ g[x].size >= h[x].size
         /\ \A x \in B \ {n} : x # a => g[x].next = h[x].next
         /\ g[a].prev = h[a].prev /\ g[a].next = h[n].next
BY AbsorbSound, SMT

\* A block that is split: the remainder joins the list right after it.
LEMMA SplitSound ==
  ASSUME Sound(hdr, blocks), it \in blocks, want \in Nat, hdr[it].size - want > MIN_SIZE
  PROVE  LET nb == it + HEADER_SIZE + want
             g == Relink([hdr EXCEPT ![it] = Cut(it), ![nb] = Remainder(it)], nb)
         IN  /\ nb \in Addrs /\ nb \notin blocks
             /\ Sound(g, blocks \cup {nb})
             /\ \A x \in blocks : x # it => g[x].used = hdr[x].used /\ g[x].size = hdr[x].size
             /\ g[it].used /\ g[it].size = want /\ ~g[nb].used
             /\ g[nb].next = hdr[it].next
             /\ \A x \in blocks : x # it => g[x].next = hdr[x].next
<1> DEFINE nb == it + HEADER_SIZE + want
           m == hdr[it].next
           g == Relink([hdr EXCEPT ![it] = Cut(it), ![nb] = Remainder(it)], nb)
           C == blocks \cup {nb}
<1>1. hdr \in Headers /\ it \in Addrs /\ it \in Nat /\ blocks \subseteq Addrs
  BY Constants DEF Sound
<1>2. /\ End(hdr, it) <= heapEnd /\ nb \in Nat /\ it < nb
      /\ nb + HEADER_SIZE < End(hdr, it)
      /\ hdr[it].size - want - HEADER_SIZE \in 0 .. W - 1 /\ want \in 0 .. W - 1
  BY <1>1, EndInHeap, Constants, Fields DEF MIN_SIZE, End
<1>3. nb \in Addrs
  BY <1>1, <1>2, Constants, Fields
<1>4. nb \notin blocks
  <2> SUFFICES ASSUME nb \in blocks PROVE FALSE
    OBVIOUS
  <2>1. End(hdr, it) <= nb
    BY <1>2 DEF Sound, Ordered
  <2>2. End(hdr, it) \in Nat /\ HEADER_SIZE \in Nat
    BY <1>1, Constants, Fields
  <2> QED
    BY <1>2, <2>1, <2>2
<1>5. NextOK(hdr, blocks, it) /\ PrevOK(hdr, blocks, it) /\ hdr[it].magic
  BY DEF Sound, LinksOK
<1>6. m # it /\ m # nb /\ m \in Addrs \cup {Null}
  <2>1. End(hdr, it) # it /\ End(hdr, it) # nb
    BY <1>1, <1>2, Constants, Fields
  <2>2. it # Null /\ nb # Null
    BY <1>1, <1>3, Constants DEF Null
  <2> QED
    BY <1>1, <1>5, <2>1, <2>2, Fields DEF NextOK
<1> HIDE DEF nb
<1>7. \A x \in Addrs :
        /\ g[x] \in Header
        /\ x = it => /\ g[x].size = want /\ g[x].next = nb /\ g[x].prev = hdr[it].prev
                     /\ g[x].used /\ g[x].magic
        /\ x = nb => /\ g[x].size = hdr[it].size - want - HEADER_SIZE /\ g[x].next = m
                     /\ g[x].prev = it /\ ~g[x].used /\ g[x].magic
        /\ x # nb /\ x # it =>
             /\ g[x].size = hdr[x].size /\ g[x].used = hdr[x].used /\ g[x].magic = hdr[x].magic
             /\ g[x].next = hdr[x].next
             /\ g[x].prev = IF x = m THEN nb ELSE hdr[x].prev
  <2> DEFINE k == [hdr EXCEPT ![it] = Cut(it), ![nb] = Remainder(it)]
  <2>1. /\ Cut(it) \in Header /\ Cut(it).size = want /\ Cut(it).next = m
        /\ Cut(it).prev = hdr[it].prev /\ Cut(it).used /\ Cut(it).magic
    <3>1. hdr[it] \in Header
      BY <1>1, Fields
    <3> QED
      BY <1>2, <1>5, <3>1 DEF Cut, Header
  <2>2. /\ Remainder(it) \in Header /\ Remainder(it).size = hdr[it].size - want - HEADER_SIZE
        /\ Remainder(it).next = m /\ Remainder(it).prev = it /\ ~Remainder(it).used
        /\ Remainder(it).magic
    BY <1>1, <1>2, <1>6 DEF Remainder, Header
  <2>3. \A x \in Addrs : k[x] = IF x = nb THEN Remainder(it) ELSE IF x = it THEN Cut(it) ELSE hdr[x]
    BY <1>1, <1>3 DEF Headers
  <2>4. k[nb].next = m /\ k[nb].prev = it /\ nb # it
    BY <1>1, <1>3, <1>4, <2>2, <2>3
  <2> HIDE DEF k
  <2>5. g = Relink(k, nb)
    BY DEF k
  <2> HIDE DEF g
  <2>6. \A x \in Addrs : g[x] = IF x = m THEN [k[x] EXCEPT !.prev = nb]
                                ELSE IF x = it THEN [k[x] EXCEPT !.next = nb]
                                ELSE k[x]
    BY <2>4, <2>5 DEF Relink
  <2> TAKE x \in Addrs
  <2>7. k[x] \in Header
    <3>1. hdr[x] \in Header
      BY <1>1, Fields
    <3> QED
      BY <2>1, <2>2, <2>3, <3>1
  <2>8. /\ [k[x] EXCEPT !.prev = nb] \in Header /\ [k[x] EXCEPT !.next = nb] \in Header
        /\ [k[x] EXCEPT !.prev = nb].prev = nb /\ [k[x] EXCEPT !.prev = nb].next = k[x].next
        /\ [k[x] EXCEPT !.prev = nb].size = k[x].size
        /\ [k[x] EXCEPT !.prev = nb].used = k[x].used
        /\ [k[x] EXCEPT !.prev = nb].magic = k[x].magic
        /\ [k[x] EXCEPT !.next = nb].next = nb /\ [k[x] EXCEPT !.next = nb].prev = k[x].prev
        /\ [k[x] EXCEPT !.next = nb].size = k[x].size
        /\ [k[x] EXCEPT !.next = nb].used = k[x].used
        /\ [k[x] EXCEPT !.next = nb].magic = k[x].magic
    BY <1>3, <2>7 DEF Header
  <2>9. g[x] \in Header
    BY <2>6, <2>7, <2>8
  <2>10. CASE x = it
    <3>1. k[x] = Cut(it) /\ g[x] = [k[x] EXCEPT !.next = nb]
      BY <1>6, <2>3, <2>4, <2>6, <2>10
    <3> QED
      BY <2>1, <2>4, <2>8, <2>9, <2>10, <3>1
  <2>11. CASE x = nb
    <3>1. g[x] = Remainder(it)
      BY <1>6, <2>3, <2>4, <2>6, <2>11
    <3> QED
      BY <2>2, <2>4, <2>9, <2>11, <3>1
  <2>12. CASE x # it /\ x # nb
    <3>1. k[x] = hdr[x]
      BY <2>3, <2>12
    <3> QED
      BY <2>6, <2>8, <2>9, <2>12, <3>1
  <2> QED
    BY <2>10, <2>11, <2>12
<1>8. g \in Headers
  <2>1. g = [x \in Addrs |-> g[x]]
    BY DEF Relink
  <2> QED
    BY <1>7, <2>1 DEF Headers
<1> HIDE DEF g
<1>9. /\ End(g, nb) = End(hdr, it) /\ End(g, it) = nb
      /\ \A x \in blocks : x # it => End(g, x) = End(hdr, x)
  <2>1. End(g, it) = nb
    BY <1>1, <1>7 DEF End, nb
  <2>2. \A x \in blocks : x # it => End(g, x) = End(hdr, x)
    BY <1>1, <1>4, <1>7 DEF End
  <2>3. End(g, nb) = nb + HEADER_SIZE + (hdr[it].size - want - HEADER_SIZE)
    BY <1>3, <1>7 DEF End
  <2>4. hdr[it].size \in Nat /\ want \in Nat /\ HEADER_SIZE \in Nat /\ it \in Nat
    BY <1>1, Constants, Fields
  <2>5. End(g, nb) = End(hdr, it)
    BY <2>3, <2>4 DEF End, nb
  <2> QED
    BY <2>1, <2>2, <2>5
<1>10. Ordered(g, C)
  <2> SUFFICES ASSUME NEW x \in C, NEW y \in C, x < y PROVE End(g, x) <= y
    BY DEF Ordered
  <2>1. Ordered(hdr, blocks) /\ x \in Nat /\ y \in Nat /\ x \in Addrs /\ y \in Addrs
        /\ End(hdr, x) \in Nat /\ End(hdr, it) \in Nat
    BY <1>1, <1>3, Constants, Fields DEF Sound
  <2>2. CASE x = it
    <3>1. y # nb => End(hdr, it) <= y
      BY <2>1, <2>2 DEF Ordered
    <3> QED
      BY <1>2, <1>9, <2>1, <2>2, <3>1, Constants
  <2>3. CASE x = nb
    <3>1. y \in blocks /\ it < y
      BY <1>2, <2>1, <2>3, <1>1
    <3> QED
      BY <1>9, <2>1, <2>3, <3>1 DEF Ordered
  <2>4. CASE x # it /\ x # nb /\ y # nb
    BY <1>9, <2>1, <2>4 DEF Ordered
  <2>5. CASE x # it /\ x # nb /\ y = nb
    <3>1. x \in blocks
      BY <2>5
    <3>2. CASE x < it
      <4>1. End(hdr, x) <= it
        BY <2>1, <3>1, <3>2 DEF Ordered
      <4> QED
        BY <1>1, <1>2, <1>9, <2>1, <2>5, <3>1, <4>1
    <3>3. CASE it < x
      <4>1. End(hdr, it) <= x
        BY <2>1, <3>1, <3>3 DEF Ordered
      <4> QED
        BY <1>1, <1>2, <2>1, <2>5, <4>1, Constants
    <3> QED
      BY <1>1, <2>1, <2>5, <3>2, <3>3
  <2> QED
    BY <2>2, <2>3, <2>4, <2>5
<1>11. LinksOK(g, C)
  <2>1. g[it].magic /\ NextOK(g, C, it) /\ PrevOK(g, C, it)
    <3>1. g[it].magic /\ g[it].next = nb /\ g[it].prev = hdr[it].prev /\ g[nb].prev = it
      BY <1>1, <1>3, <1>7
    <3>2. NextOK(g, C, it)
      <4>1. nb # heapEnd
        BY <1>2, Constants, <1>1, Fields
      <4> QED
        BY <1>9, <3>1, <4>1 DEF NextOK
    <3>3. PrevOK(g, C, it)
      <4>1. CASE it = heapStart
        BY <1>5, <3>1, <4>1 DEF PrevOK
      <4>2. CASE it # heapStart
        <5>1. hdr[it].prev \in blocks /\ hdr[hdr[it].prev].next = it
          BY <1>5, <4>2 DEF PrevOK
        <5>2. hdr[it].prev # it
          BY <1>6, <5>1
        <5>3. g[hdr[it].prev].next = it
          BY <1>1, <1>4, <1>7, <5>1, <5>2
        <5> QED
          BY <3>1, <4>2, <5>1, <5>3 DEF PrevOK
      <4> QED
        BY <4>1, <4>2
    <3> QED
      BY <3>1, <3>2, <3>3
  <2>2. g[nb].magic /\ NextOK(g, C, nb) /\ PrevOK(g, C, nb)
    <3>1. /\ g[nb].magic /\ g[nb].next = m /\ g[nb].prev = it /\ g[it].next = nb
      BY <1>1, <1>3, <1>7
    <3>2. nb # heapStart
      BY <1>1, <1>2, Constants
    <3>3. PrevOK(g, C, nb)
      BY <3>1, <3>2 DEF PrevOK
    <3>4. NextOK(g, C, nb)
      <4>1. CASE End(hdr, it) = heapEnd
        BY <1>5, <1>9, <3>1, <4>1 DEF NextOK
      <4>2. CASE End(hdr, it) # heapEnd
        <5>1. m = End(hdr, it) /\ m \in blocks /\ m \in Addrs
          BY <1>1, <1>5, <4>2 DEF NextOK
        <5>2. g[m].prev = nb
          BY <1>6, <1>7, <5>1
        <5> QED
          BY <1>9, <3>1, <4>2, <5>1, <5>2 DEF NextOK
      <4> QED
        BY <4>1, <4>2
    <3> QED
      BY <3>1, <3>3, <3>4
  <2>3. ASSUME NEW x \in blocks, x # it
        PROVE  g[x].magic /\ NextOK(g, C, x) /\ PrevOK(g, C, x)
    <3>1. x \in Addrs /\ x # nb /\ hdr[x].magic /\ NextOK(hdr, blocks, x) /\ PrevOK(hdr, blocks, x)
      BY <1>1, <1>4 DEF Sound, LinksOK
    <3>2. /\ g[x].magic /\ g[x].next = hdr[x].next
          /\ g[x].prev = IF x = m THEN nb ELSE hdr[x].prev
      BY <1>7, <2>3, <3>1
    <3>3. NextOK(g, C, x)
      <4>1. CASE End(hdr, x) = heapEnd
        BY <1>9, <2>3, <3>1, <3>2, <4>1 DEF NextOK
      <4>2. CASE End(hdr, x) # heapEnd
        <5>1. hdr[x].next = End(hdr, x) /\ End(hdr, x) \in blocks /\ hdr[End(hdr, x)].prev = x
          BY <3>1, <4>2 DEF NextOK
        <5>2. End(hdr, x) # m
          <6>1. m \in blocks => hdr[m].prev = it
            BY <1>1, <1>5, Constants DEF NextOK, Null
          <6> QED
            BY <2>3, <5>1, <6>1
        <5>3. g[End(hdr, x)].prev = x
          <6>1. End(hdr, x) \in Addrs /\ End(hdr, x) # nb
            BY <1>1, <1>4, <5>1
          <6>2. CASE End(hdr, x) = it
            BY <1>1, <1>7, <5>1, <6>2
          <6>3. CASE End(hdr, x) # it
            BY <1>7, <5>1, <5>2, <6>1, <6>3
          <6> QED
            BY <6>2, <6>3
        <5> QED
          BY <1>9, <2>3, <3>2, <4>2, <5>1, <5>3 DEF NextOK
      <4> QED
        BY <4>1, <4>2
    <3>4. PrevOK(g, C, x)
      <4>1. CASE x = m
        <5>1. x # heapStart
          <6>1. hdr[x].prev = it /\ it # Null
            BY <1>1, <1>5, <3>1, <4>1, Constants DEF NextOK, Null
          <6> QED
            BY <3>1, <6>1 DEF PrevOK
        <5>2. g[x].prev = nb /\ g[nb].next = x
          BY <1>3, <1>7, <3>2, <4>1
        <5> QED
          BY <5>1, <5>2 DEF PrevOK
      <4>2. CASE x # m /\ x = heapStart
        BY <3>1, <3>2, <4>2 DEF PrevOK
      <4>3. CASE x # m /\ x # heapStart
        <5>1. hdr[x].prev \in blocks /\ hdr[hdr[x].prev].next = x
          BY <3>1, <4>3 DEF PrevOK
        <5>2. hdr[x].prev # it
          BY <4>3, <5>1
        <5>3. g[hdr[x].prev].next = x
          BY <1>1, <1>4, <1>7, <5>1, <5>2
        <5> QED
          BY <3>2, <4>3, <5>1, <5>3 DEF PrevOK
      <4> QED
        BY <4>1, <4>2, <4>3
    <3> QED
      BY <3>2, <3>3, <3>4
  <2> QED
    BY <2>1, <2>2, <2>3 DEF LinksOK
<1>12. Sound(g, C)
  BY <1>1, <1>3, <1>8, <1>10, <1>11 DEF Sound
<1>13. \A x \in blocks : x # it => g[x].used = hdr[x].used /\ g[x].size = hdr[x].size
  BY <1>1, <1>4, <1>7
<1>14. g[it].used /\ g[it].size = want /\ ~g[nb].used
  BY <1>1, <1>3, <1>7
<1>15. g[nb].next = hdr[it].next /\ \A x \in blocks : x # it => g[x].next = hdr[x].next
  BY <1>1, <1>3, <1>4, <1>7
<1> QED
  BY <1>3, <1>4, <1>12, <1>13, <1>14, <1>15 DEF g, nb

-----------------------------------------------------------------------------
(* Who owns what *)

\* The blocks of B in use are those of the allocations L, and have room for them.
Owned(h, B, L) ==
  /\ L \subseteq [at : Nat, size : Requests]
  /\ \A b \in B : h[b].used <=> \E r \in L : r.at = b + HEADER_SIZE
  /\ \A r, s \in L : r # s => r.at # s.at
  /\ \A r \in L : r.at - HEADER_SIZE \in B /\ r.size <= h[r.at - HEADER_SIZE].size

\* Absorbing a free block takes nothing from an owner.
LEMMA AbsorbOwned ==
  ASSUME NEW h, NEW B, NEW L, Sound(h, B), Owned(h, B, L), heapStart \in B,
         NEW a \in B, h[a].next # Null, ~h[h[a].next].used
  PROVE  Owned(Absorb(h, a), B \ {h[a].next}, L) /\ heapStart \in B \ {h[a].next}
<1> DEFINE g == Absorb(h, a)
           n == h[a].next
<1>1. /\ n \in B /\ Sound(g, B \ {n}) /\ h[n].prev = a /\ n # a
      /\ \A x \in B \ {n} : g[x].used = h[x].used /\ g[x].size >= h[x].size
  BY AbsorbStep
<1>2. heapStart # n
  <2>1. PrevOK(h, B, n) /\ a # Null
    BY <1>1, Constants DEF Sound, LinksOK, Null
  <2> QED
    BY <1>1, <2>1 DEF PrevOK
<1>3. ASSUME NEW r \in L
      PROVE  r.at - HEADER_SIZE \in B \ {n} /\ r.size <= g[r.at - HEADER_SIZE].size
  <2> DEFINE b == r.at - HEADER_SIZE
  <2>1. b \in B /\ r.size <= h[b].size /\ r.at = b + HEADER_SIZE /\ r.size \in Nat
    <3>1. r \in [at : Nat, size : Requests]
      BY DEF Owned
    <3>2. r.at \in Nat /\ r.size \in Nat /\ HEADER_SIZE \in Nat
      BY <3>1, HeapAssumption
    <3>3. b \in B /\ r.size <= h[b].size
      BY DEF Owned
    <3> QED
      BY <3>2, <3>3
  <2>2. h[b].used
    BY <2>1 DEF Owned
  <2>3. b \in B \ {n}
    BY <2>1, <2>2
  <2>4. b \in Addrs /\ h[b].size \in Nat /\ g[b].size \in Nat
    BY <1>1, <2>3, Fields DEF Sound
  <2>5. g[b].size >= h[b].size
    BY <1>1, <2>3
  <2> QED
    BY <2>1, <2>3, <2>4, <2>5
<1> QED
  BY <1>1, <1>2, <1>3 DEF Owned

-----------------------------------------------------------------------------
(* The inductive invariant: the list is sound, its blocks in use are those of
   the allocations, and a scan looks for no less than it was asked for, from a
   block of the list. *)

Scanning ==
  /\ it \in blocks \cup {Null}
  /\ IF want = NoAlloc THEN it = Null /\ asked = 0
     ELSE want \in 0 .. W - 1 /\ asked \in Requests /\ asked <= want

IInv == Sound(hdr, blocks) /\ heapStart \in blocks /\ Owned(hdr, blocks, live) /\ Scanning

\* A heap that was just made is one free block.
LEMMA InitIInv == Init => IInv
<1> SUFFICES ASSUME Init PROVE IInv
  OBVIOUS
<1>1. /\ heapStart \in Addrs /\ heapSize - HEADER_SIZE \in 0 .. W - 1
      /\ heapStart + HEADER_SIZE + (heapSize - HEADER_SIZE) = heapEnd
  BY Constants, HeapAssumption DEF heapEnd
<1> DEFINE first == [Blank EXCEPT !.size = heapSize - HEADER_SIZE, !.magic = TRUE]
<1>2. /\ first \in Header /\ Blank \in Header /\ first.size = heapSize - HEADER_SIZE
      /\ first.next = Null /\ first.prev = Null /\ first.magic /\ ~first.used
  <2>1. /\ Blank \in Header /\ Blank.next = Null /\ Blank.prev = Null /\ ~Blank.used
    BY Constants DEF Blank, Header
  <2>2. /\ first.size = heapSize - HEADER_SIZE /\ first.next = Blank.next
        /\ first.prev = Blank.prev /\ first.used = Blank.used /\ first.magic
        /\ first \in Header
    BY <1>1, <2>1 DEF Header
  <2> QED
    BY <2>1, <2>2
<1>3. hdr[heapStart] = first /\ hdr \in Headers
  BY <1>1, <1>2 DEF Init, Headers
<1> HIDE DEF first
<1>4. End(hdr, heapStart) = heapEnd /\ hdr[heapStart].magic /\ ~hdr[heapStart].used
      /\ hdr[heapStart].next = Null /\ hdr[heapStart].prev = Null
  BY <1>1, <1>2, <1>3 DEF End
<1>5. LinksOK(hdr, blocks)
  BY <1>4 DEF LinksOK, NextOK, PrevOK, Init
<1>6. Ordered(hdr, blocks)
  BY Constants DEF Ordered, Init
<1>7. Owned(hdr, blocks, live)
  BY <1>4 DEF Owned, Init
<1> QED
  BY <1>1, <1>3, <1>5, <1>6, <1>7 DEF IInv, Sound, Scanning, Init

\* A call starts to scan.
LEMMA AllocIInv ==
  ASSUME IInv, NEW size \in Requests, Alloc(size)
  PROVE  IInv'
<1>1. want' \in 0 .. W - 1 /\ asked' <= want' /\ asked' \in Requests /\ want' # NoAlloc
  BY AlignUpGrows, HeapAssumption DEF Alloc, NoAlloc
<1>2. Sound(hdr, blocks)' /\ Owned(hdr, blocks, live)' /\ (heapStart \in blocks)'
  BY DEF IInv, Alloc, Sound, LinksOK, NextOK, PrevOK, Ordered, End, Owned
<1> QED
  BY <1>1, <1>2 DEF IInv, Scanning, Alloc

\* The scan goes on, or fails: the heap is as it was.
LEMMA ScanIInv ==
  ASSUME IInv, AllocSkip \/ AllocFails
  PROVE  IInv'
<1>1. Sound(hdr, blocks)' /\ Owned(hdr, blocks, live)' /\ (heapStart \in blocks)'
  BY DEF IInv, AllocSkip, AllocFails, Sound, LinksOK, NextOK, PrevOK, Ordered, End, Owned
<1>2. CASE AllocSkip
  <2>1. it \in blocks
    BY <1>2 DEF IInv, Scanning, AllocSkip
  <2>2. NextOK(hdr, blocks, it)
    BY <2>1 DEF IInv, Sound, LinksOK
  <2>3. it' \in blocks \cup {Null}
    BY <1>2, <2>2 DEF NextOK, AllocSkip
  <2> QED
    BY <1>1, <1>2, <2>3 DEF IInv, Scanning, AllocSkip
<1>3. CASE AllocFails
  BY <1>1, <1>3 DEF IInv, Scanning, AllocFails
<1> QED
  BY <1>2, <1>3

\* A block that starts to be used gets one owner.
LEMMA ReturnOwned ==
  ASSUME IInv, NEW h, NEW B, it \in blocks, ~hdr[it].used, want # NoAlloc,
         blocks \subseteq B, h[it].used, asked <= h[it].size,
         \A x \in B : x \notin blocks => ~h[x].used,
         \A x \in blocks : x # it => h[x].used = hdr[x].used /\ h[x].size = hdr[x].size,
         B \subseteq Nat
  PROVE  Owned(h, B, live \cup {[at |-> it + HEADER_SIZE, size |-> asked]})
<1> DEFINE new == [at |-> it + HEADER_SIZE, size |-> asked]
           L == live \cup {new}
<1>1. Owned(hdr, blocks, live) /\ HEADER_SIZE \in Nat /\ it \in Nat /\ asked \in Requests
  BY Constants DEF IInv, Scanning
<1>2. new \in [at : Nat, size : Requests] /\ new.at = it + HEADER_SIZE /\ new.size = asked
  BY <1>1
<1>3. \A r \in live : r.at \in Nat /\ r.at - HEADER_SIZE \in blocks /\ r.at - HEADER_SIZE # it
  <2> TAKE r \in live
  <2>1. r.at \in Nat /\ r.at - HEADER_SIZE \in blocks
    BY <1>1 DEF Owned
  <2>2. r.at = (r.at - HEADER_SIZE) + HEADER_SIZE
    BY <1>1, <2>1
  <2>3. hdr[r.at - HEADER_SIZE].used
    BY <1>1, <2>1, <2>2 DEF Owned
  <2> QED
    BY <2>1, <2>3
<1> HIDE DEF new
<1>4. \A b \in B : h[b].used <=> \E r \in L : r.at = b + HEADER_SIZE
  <2> TAKE b \in B
  <2>1. CASE b = it
    BY <1>2, <2>1
  <2>2. CASE b # it
    <3>1. new.at # b + HEADER_SIZE
      BY <1>1, <1>2, <2>2
    <3>2. CASE b \in blocks
      BY <1>1, <2>2, <3>1, <3>2 DEF Owned
    <3>3. CASE b \notin blocks
      <4>1. \A r \in live : r.at # b + HEADER_SIZE
        BY <1>1, <1>3, <3>3
      <4> QED
        BY <3>1, <3>3, <4>1
    <3> QED
      BY <3>2, <3>3
  <2> QED
    BY <2>1, <2>2
<1>5. \A r, s \in L : r # s => r.at # s.at
  BY <1>1, <1>2, <1>3 DEF Owned
<1>6. \A r \in L : r.at - HEADER_SIZE \in B /\ r.size <= h[r.at - HEADER_SIZE].size
  <2> TAKE r \in L
  <2>1. CASE r = new
    <3>1. r.at - HEADER_SIZE = it /\ r.size = asked
      BY <1>1, <1>2, <2>1
    <3> QED
      BY <3>1
  <2>2. CASE r \in live
    BY <1>1, <1>3, <2>2 DEF Owned
  <2> QED
    BY <2>1, <2>2
<1>7. L \subseteq [at : Nat, size : Requests]
  BY <1>1, <1>2 DEF Owned
<1> QED
  BY <1>4, <1>5, <1>6, <1>7 DEF Owned, new

\* The block found is handed out as it is.
LEMMA WholeIInv ==
  ASSUME IInv, AllocWhole
  PROVE  IInv'
<1>1. /\ it \in blocks /\ it \in Addrs /\ blocks \subseteq Addrs /\ ~hdr[it].used /\ want # NoAlloc
      /\ hdr \in Headers /\ want <= hdr[it].size
      /\ want \in Nat /\ asked \in Nat /\ asked <= want
  <2>1. it # Null /\ want # NoAlloc /\ ~hdr[it].used /\ hdr[it].size >= want
    BY DEF AllocWhole, Idle, Fits
  <2>2. it \in blocks /\ want \in 0 .. W - 1 /\ asked \in Requests /\ asked <= want
    BY <2>1 DEF IInv, Scanning
  <2>3. it \in Addrs /\ blocks \subseteq Addrs /\ hdr \in Headers
    BY <2>2 DEF IInv, Sound
  <2>4. want \in Nat /\ asked \in Nat /\ hdr[it].size \in Nat
    BY <2>2, <2>3, HeapAssumption, Fields
  <2> QED
    BY <2>1, <2>2, <2>3, <2>4
<1>2. /\ Sound(hdr', blocks)
      /\ \A a \in Addrs : /\ hdr'[a].size = hdr[a].size
                          /\ hdr'[a].used = IF a = it THEN TRUE ELSE hdr[a].used
  <2>1. hdr' = SetUsed(hdr, it, TRUE) /\ Sound(hdr, blocks)
    BY DEF AllocWhole, IInv
  <2>2. hdr[it] \in Header /\ [hdr[it] EXCEPT !.used = TRUE] \in Header
    <3>1. hdr[it] \in Header
      BY <1>1, Fields
    <3> QED
      BY <3>1 DEF Header
  <2>3. hdr' \in Headers
    BY <1>1, <2>1, <2>2 DEF SetUsed, Headers
  <2>4. \A a \in Addrs : /\ hdr'[a].size = hdr[a].size /\ hdr'[a].next = hdr[a].next
                         /\ hdr'[a].prev = hdr[a].prev /\ hdr'[a].magic = hdr[a].magic
                         /\ hdr'[a].used = IF a = it THEN TRUE ELSE hdr[a].used
    BY <1>1, <2>1, <2>2 DEF SetUsed, Headers, Header
  <2> QED
    BY <2>1, <2>3, <2>4, SameListSound
<1>3. asked <= hdr'[it].size
  <2>1. hdr[it].size \in Nat /\ hdr'[it].size = hdr[it].size
    BY <1>1, <1>2, Fields
  <2> QED
    BY <1>1, <2>1
<1>4. Owned(hdr', blocks, live \cup {[at |-> it + HEADER_SIZE, size |-> asked]})
  <2>1. \A x \in blocks : x # it => hdr'[x].used = hdr[x].used /\ hdr'[x].size = hdr[x].size
    BY <1>1, <1>2
  <2>2. hdr'[it].used /\ blocks \subseteq Nat
    BY <1>1, <1>2, Constants
  <2> QED
    BY <1>1, <1>3, <2>1, <2>2, ReturnOwned
<1> QED
  BY <1>2, <1>4 DEF AllocWhole, Return, IInv, Scanning

\* The block found is split.
LEMMA SplitIInv ==
  ASSUME IInv, AllocSplit
  PROVE  IInv'
<1> DEFINE nb == it + HEADER_SIZE + want
           C == blocks \cup {nb}
<1>1. /\ it \in blocks /\ blocks \subseteq Addrs /\ ~hdr[it].used /\ want # NoAlloc
      /\ want \in Nat /\ asked \in Nat /\ asked <= want /\ hdr[it].size - want > MIN_SIZE
  <2>1. it # Null /\ want # NoAlloc /\ ~hdr[it].used /\ hdr[it].size - want > MIN_SIZE
    BY DEF AllocSplit, Idle, Fits, Splits
  <2>2. it \in blocks /\ want \in 0 .. W - 1 /\ asked \in Requests /\ asked <= want
    BY <2>1 DEF IInv, Scanning
  <2>3. blocks \subseteq Addrs
    BY DEF IInv, Sound
  <2>4. want \in Nat /\ asked \in Nat
    BY <2>2, HeapAssumption
  <2> QED
    BY <2>1, <2>2, <2>3, <2>4
<1>2. hdr' = Relink([hdr EXCEPT ![it] = Cut(it), ![nb] = Remainder(it)], nb)
      /\ blocks' = C /\ Return(it)
  BY DEF AllocSplit
<1>3. /\ nb \in Addrs /\ nb \notin blocks /\ Sound(hdr', C)
      /\ \A x \in blocks : x # it => hdr'[x].used = hdr[x].used /\ hdr'[x].size = hdr[x].size
      /\ hdr'[it].used /\ hdr'[it].size = want /\ ~hdr'[nb].used
  BY <1>1, <1>2, SplitSound DEF IInv
<1> HIDE DEF nb
<1>4. Owned(hdr', C, live \cup {[at |-> it + HEADER_SIZE, size |-> asked]})
  <2>1. /\ asked <= hdr'[it].size /\ blocks \subseteq C /\ C \subseteq Nat
        /\ \A x \in C : x \notin blocks => ~hdr'[x].used
    BY <1>1, <1>3, Constants
  <2> QED
    BY <1>1, <1>3, <2>1, ReturnOwned
<1> QED
  BY <1>2, <1>3, <1>4 DEF Return, IInv, Scanning

\* A free block is merged with the free blocks around it.
LEMMA FreeIInv ==
  ASSUME IInv, NEW r \in live, Free(r)
  PROVE  IInv'
<1> DEFINE b == r.at - HEADER_SIZE
           h1 == SetUsed(hdr, b, FALSE)
           n == h1[b].next
           h2 == IF FreeAt(h1, n) THEN Absorb(h1, b) ELSE h1
           p == h2[b].prev
           L == live \ {r}
           B2 == blocks \ (IF FreeAt(h1, n) THEN {n} ELSE {})
<1>1. b \in blocks /\ b \in Addrs /\ hdr \in Headers /\ r.at \in Nat
      /\ Sound(hdr, blocks) /\ Owned(hdr, blocks, live) /\ heapStart \in blocks
  BY DEF IInv, Sound, Owned
<1>2. /\ hdr' = IF FreeAt(h2, p) THEN Absorb(h2, p) ELSE h2
      /\ blocks' = B2 \ (IF FreeAt(h2, p) THEN {b} ELSE {})
      /\ live' = L /\ UNCHANGED <<it, want, asked>> /\ want = NoAlloc
  BY DEF Free, Idle
<1>3. h1 \in Headers
      /\ \A a \in Addrs : /\ h1[a].size = hdr[a].size /\ h1[a].next = hdr[a].next
                          /\ h1[a].prev = hdr[a].prev /\ h1[a].magic = hdr[a].magic
                          /\ h1[a].used = IF a = b THEN FALSE ELSE hdr[a].used
  <2>1. hdr[b] \in Header /\ [hdr[b] EXCEPT !.used = FALSE] \in Header
    <3>1. hdr[b] \in Header
      BY <1>1, Fields
    <3> QED
      BY <3>1 DEF Header
  <2> QED
    BY <1>1, <2>1 DEF SetUsed, Headers, Header
<1> HIDE DEF h1
<1>4. Sound(h1, blocks) /\ ~h1[b].used
  BY <1>1, <1>3, SameListSound
<1>5. Owned(h1, blocks, L)
  <2>1. \A s \in L : s.at \in Nat /\ s.at - HEADER_SIZE \in blocks /\ s.at # r.at
                     /\ s.size <= h1[s.at - HEADER_SIZE].size
    BY <1>1, <1>3 DEF Owned, Sound
  <2>2. r.at = b + HEADER_SIZE /\ HEADER_SIZE \in Nat
    BY <1>1, Constants
  <2>3. \A c \in blocks : h1[c].used <=> \E s \in L : s.at = c + HEADER_SIZE
    <3> TAKE c \in blocks
    <3>1. CASE c = b
      BY <1>4, <2>1, <2>2, <3>1
    <3>2. CASE c # b
      <4>1. h1[c].used <=> \E s \in live : s.at = c + HEADER_SIZE
        BY <1>1, <1>3, <3>2 DEF Owned, Sound
      <4>2. c \in Nat /\ b \in Nat
        BY <1>1, Constants DEF Sound
      <4>3. r.at # c + HEADER_SIZE
        BY <2>2, <3>2, <4>2
      <4> QED
        BY <4>1, <4>3
    <3> QED
      BY <3>1, <3>2
  <2> QED
    BY <1>1, <2>1, <2>3 DEF Owned
<1>6. Sound(h2, B2) /\ Owned(h2, B2, L) /\ heapStart \in B2 /\ b \in B2 /\ ~h2[b].used
  <2>1. CASE FreeAt(h1, n)
    <3>1. h1[b].next # Null /\ ~h1[h1[b].next].used
      BY <2>1 DEF FreeAt
    <3>2. h2 = Absorb(h1, b) /\ B2 = blocks \ {h1[b].next}
      BY <2>1
    <3>3. Owned(Absorb(h1, b), blocks \ {h1[b].next}, L) /\ heapStart \in blocks \ {h1[b].next}
      BY <1>1, <1>4, <1>5, <3>1, AbsorbOwned
    <3>4. /\ Sound(Absorb(h1, b), blocks \ {h1[b].next}) /\ h1[b].next # b
          /\ \A x \in blocks \ {h1[b].next} :
               Absorb(h1, b)[x].used = h1[x].used /\ Absorb(h1, b)[x].size >= h1[x].size
      <4>1. Sound(h1, blocks) /\ b \in blocks /\ h1[b].next # Null
        BY <1>1, <1>4, <3>1
      <4> HIDE DEF b
      <4> QED
        BY <4>1, AbsorbStep
    <3>5. b \in blocks \ {h1[b].next} /\ ~Absorb(h1, b)[b].used
      BY <1>1, <1>4, <3>4
    <3> QED
      BY <3>2, <3>3, <3>4, <3>5
  <2>2. CASE ~FreeAt(h1, n)
    <3>1. h2 = h1 /\ B2 = blocks
      BY <2>2
    <3> QED
      BY <1>1, <1>4, <1>5, <3>1
  <2> QED
    BY <2>1, <2>2
<1> HIDE DEF h2, B2, b, n
<1>7. Sound(hdr', blocks') /\ Owned(hdr', blocks', L) /\ heapStart \in blocks'
  <2>1. CASE FreeAt(h2, p)
    <3>1. p # Null /\ ~h2[p].used /\ PrevOK(h2, B2, b)
      BY <1>6, <2>1 DEF FreeAt, Sound, LinksOK
    <3>2. p \in B2 /\ h2[p].next = b
      BY <3>1 DEF PrevOK
    <3>3. b # Null /\ h2[p].next # Null /\ ~h2[h2[p].next].used
      BY <1>1, <1>6, <3>2, Constants DEF Null
    <3>4. hdr' = Absorb(h2, p) /\ blocks' = B2 \ {h2[p].next}
      BY <1>2, <2>1, <3>2
    <3>5. Owned(Absorb(h2, p), B2 \ {h2[p].next}, L) /\ heapStart \in B2 \ {h2[p].next}
      BY <1>6, <3>2, <3>3, AbsorbOwned
    <3>6. Sound(Absorb(h2, p), B2 \ {h2[p].next})
      BY <1>6, <3>2, <3>3, AbsorbStep
    <3> QED
      BY <3>4, <3>5, <3>6
  <2>2. CASE ~FreeAt(h2, p)
    <3>1. hdr' = h2 /\ blocks' = B2
      BY <1>2, <2>2
    <3> QED
      BY <1>6, <3>1
  <2> QED
    BY <2>1, <2>2
<1>8. it' = Null /\ want' = NoAlloc /\ asked' = 0
  <2>1. it = Null /\ asked = 0
    BY <1>2 DEF IInv, Scanning
  <2> QED
    BY <1>2, <2>1
<1> QED
  BY <1>2, <1>7, <1>8 DEF IInv, Scanning

\* Every step keeps the invariant.
LEMMA StepIInv == IInv /\ [Next]_vars => IInv'
<1> SUFFICES ASSUME IInv, [Next]_vars PROVE IInv'
  OBVIOUS
<1>1. CASE UNCHANGED vars
  BY <1>1 DEF vars, IInv, Scanning, Sound, LinksOK, NextOK, PrevOK, Ordered, End, Owned
<1>2. CASE Next
  BY <1>2, AllocIInv, ScanIInv, WholeIInv, SplitIInv, FreeIInv DEF Next
<1> QED
  BY <1>1, <1>2

LEMMA AlwaysIInv == Spec => []IInv
BY InitIInv, StepIInv, PTL DEF Spec

-----------------------------------------------------------------------------
(* What the invariant says of the allocations *)

\* An allocation lies in the payload of its block.
LEMMA InsideBlock ==
  ASSUME NEW h, NEW B, NEW L, Sound(h, B), Owned(h, B, L), NEW r \in L
  PROVE  LET b == r.at - HEADER_SIZE
         IN  /\ b \in B /\ b \in Nat /\ r.at \in Nat /\ r.size \in Nat /\ r.size \in Requests
             /\ heapStart <= b /\ r.at = b + HEADER_SIZE
             /\ End(h, b) \in Nat /\ r.at + r.size <= End(h, b) /\ End(h, b) <= heapEnd
<1> DEFINE b == r.at - HEADER_SIZE
<1>1. b \in B /\ r.size <= h[b].size /\ r \in [at : Nat, size : Requests]
  BY DEF Owned
<1>2. r.at \in Nat /\ r.size \in Nat /\ r.size \in Requests /\ HEADER_SIZE \in Nat
  BY <1>1, HeapAssumption
<1>3. r.at = b + HEADER_SIZE
  BY <1>2
<1> HIDE DEF b
<1>4. b \in Addrs /\ b \in Nat /\ heapStart <= b /\ h[b].size \in Nat /\ End(h, b) \in Nat
      /\ End(h, b) <= heapEnd
  BY <1>1, Constants, Fields, EndInHeap DEF Sound
<1>5. r.at + r.size <= End(h, b)
  BY <1>1, <1>2, <1>3, <1>4 DEF End
<1> QED
  BY <1>1, <1>2, <1>3, <1>4, <1>5 DEF b

\* Two allocations never overlap.
LEMMA AllocationsApart ==
  ASSUME NEW h, NEW B, NEW L, Sound(h, B), Owned(h, B, L), NEW r \in L, NEW s \in L, r # s
  PROVE  r.at + r.size <= s.at \/ s.at + s.size <= r.at
<1> DEFINE b == r.at - HEADER_SIZE
           c == s.at - HEADER_SIZE
<1>1. /\ b \in B /\ b \in Nat /\ r.at \in Nat /\ r.size \in Nat /\ r.at = b + HEADER_SIZE
      /\ End(h, b) \in Nat /\ r.at + r.size <= End(h, b)
  BY InsideBlock
<1>2. /\ c \in B /\ c \in Nat /\ s.at \in Nat /\ s.size \in Nat /\ s.at = c + HEADER_SIZE
      /\ End(h, c) \in Nat /\ s.at + s.size <= End(h, c)
  BY InsideBlock
<1>3. r.at # s.at
  BY DEF Owned
<1> HIDE DEF b, c
<1>4. HEADER_SIZE \in Nat
  BY Constants
<1>5. CASE b < c
  <2>1. End(h, b) <= c
    BY <1>1, <1>2, <1>5 DEF Sound, Ordered
  <2> QED
    BY <1>1, <1>2, <1>4, <2>1
<1>6. CASE c < b
  <2>1. End(h, c) <= b
    BY <1>1, <1>2, <1>6 DEF Sound, Ordered
  <2> QED
    BY <1>1, <1>2, <1>4, <2>1
<1> QED
  BY <1>1, <1>2, <1>3, <1>5, <1>6

-----------------------------------------------------------------------------
(* Free neighbours.  Between the two merges of a call to raw_free the freed
   block and the one before it may both be free: Merged leaves out a set P. *)

Merged(h, B, P) ==
  \A b \in B \ P : ~h[b].used /\ h[b].next # Null => h[h[b].next].used

\* The block after a block of the list is of the list, and knows it.
LEMMA Neighbours ==
  ASSUME NEW h, NEW B, Sound(h, B), NEW b \in B, h[b].next # Null
  PROVE  h[b].next \in B /\ h[h[b].next].prev = b
BY DEF Sound, LinksOK, NextOK

\* A free block absorbed by the block before it: that one is no longer excused.
LEMMA AbsorbMerged ==
  ASSUME NEW h, NEW B, Sound(h, B), NEW a \in B, h[a].next # Null, ~h[h[a].next].used,
         NEW P, Merged(h, B, P), h[a].next \notin P
  PROVE  Merged(Absorb(h, a), B \ {h[a].next}, P \ {a})
<1> PICK g, n : g = Absorb(h, a) /\ n = h[a].next
  OBVIOUS
<1> DEFINE C == B \ {n}
<1>1. /\ n \in B /\ n # a /\ h[n].prev = a /\ g[a].next = h[n].next
      /\ Sound(g, B \ {n})
      /\ \A x \in C : g[x].used = h[x].used
      /\ \A x \in C : x # a => g[x].next = h[x].next
  BY AbsorbStep
<1> SUFFICES ASSUME NEW x \in C \ (P \ {a}), ~g[x].used, g[x].next # Null
             PROVE  g[g[x].next].used
  BY DEF Merged
<1>2. CASE x = a
  <2>1. h[n].next # Null /\ h[h[n].next].used
    BY <1>1, <1>2 DEF Merged
  <2>2. h[n].next \in B /\ h[n].next # n
    BY <1>1, <2>1, Neighbours
  <2> QED
    BY <1>1, <1>2, <2>1, <2>2
<1>3. CASE x # a
  <2>1. x \in B /\ x \notin P /\ ~h[x].used /\ g[x].next = h[x].next
    BY <1>1, <1>3
  <2>2. h[x].next \in B /\ h[h[x].next].prev = x /\ h[h[x].next].used
    BY <2>1, Neighbours DEF Merged
  <2> QED
    BY <1>1, <1>3, <2>1, <2>2
<1> QED
  BY <1>2, <1>3

\* raw_alloc leaves a free remainder only before a block that was the neighbour
\* of a free one.
LEMMA AllocMerged ==
  ASSUME IInv, Merged(hdr, blocks, {}), AllocWhole \/ AllocSplit
  PROVE  Merged(hdr', blocks', {})
<1>1. Sound(hdr, blocks) /\ hdr \in Headers /\ blocks \subseteq Addrs
  BY DEF IInv, Sound
<1>2. CASE AllocWhole
  <2>1. hdr' = SetUsed(hdr, it, TRUE) /\ blocks' = blocks /\ it \in blocks /\ it \in Addrs
    BY <1>1, <1>2 DEF AllocWhole, IInv, Scanning, Idle
  <2>2. \A x \in Addrs : /\ hdr'[x].next = hdr[x].next
                         /\ hdr'[x].used = IF x = it THEN TRUE ELSE hdr[x].used
    BY <1>1, <2>1 DEF SetUsed, Headers, Header
  <2> SUFFICES ASSUME NEW x \in blocks, ~hdr'[x].used, hdr'[x].next # Null
               PROVE  hdr'[hdr'[x].next].used
    BY <2>1 DEF Merged
  <2>3. ~hdr[x].used /\ hdr'[x].next = hdr[x].next /\ hdr[x].next \in blocks
    BY <1>1, <2>2, Neighbours
  <2>4. hdr[hdr[x].next].used
    BY <2>3 DEF Merged
  <2> QED
    BY <1>1, <2>2, <2>3, <2>4
<1>3. CASE AllocSplit
  <2> DEFINE nb == it + HEADER_SIZE + want
  <2>1. /\ it \in blocks /\ want \in Nat /\ hdr[it].size - want > MIN_SIZE /\ ~hdr[it].used
        /\ hdr' = Relink([hdr EXCEPT ![it] = Cut(it), ![nb] = Remainder(it)], nb)
        /\ blocks' = blocks \cup {nb}
    BY <1>3 DEF AllocSplit, IInv, Scanning, Idle, Fits, Splits
  <2>2. /\ nb \notin blocks
        /\ \A x \in blocks : x # it => hdr'[x].used = hdr[x].used /\ hdr'[x].next = hdr[x].next
        /\ hdr'[it].used /\ ~hdr'[nb].used /\ hdr'[nb].next = hdr[it].next
    BY <1>1, <2>1, SplitSound
  <2> HIDE DEF nb
  <2> SUFFICES ASSUME NEW x \in blocks \cup {nb}, ~hdr'[x].used, hdr'[x].next # Null
               PROVE  hdr'[hdr'[x].next].used
    BY <2>1 DEF Merged
  <2> DEFINE y == IF x = nb THEN it ELSE x
  <2>3. y \in blocks /\ ~hdr[y].used /\ hdr'[x].next = hdr[y].next
    BY <2>1, <2>2
  <2> HIDE DEF y
  <2>4. hdr[y].next \in blocks /\ hdr[hdr[y].next].used
    BY <1>1, <2>3, Neighbours DEF Merged
  <2> QED
    BY <2>1, <2>2, <2>3, <2>4
<1> QED
  BY <1>2, <1>3

\* raw_free merges the block with a free successor, then with a free predecessor.
LEMMA FreeMerged ==
  ASSUME IInv, Merged(hdr, blocks, {}), NEW r \in live, Free(r)
  PROVE  Merged(hdr', blocks', {})
<1> DEFINE b == r.at - HEADER_SIZE
           h1 == SetUsed(hdr, b, FALSE)
           n == h1[b].next
           h2 == IF FreeAt(h1, n) THEN Absorb(h1, b) ELSE h1
           p == h2[b].prev
           B2 == blocks \ (IF FreeAt(h1, n) THEN {n} ELSE {})
<1>1. b \in blocks /\ b \in Addrs /\ hdr \in Headers /\ Sound(hdr, blocks)
  BY DEF IInv, Sound, Owned
<1>2. /\ hdr' = IF FreeAt(h2, p) THEN Absorb(h2, p) ELSE h2
      /\ blocks' = B2 \ (IF FreeAt(h2, p) THEN {b} ELSE {})
  BY DEF Free
<1>3. h1 \in Headers
      /\ \A a \in Addrs : /\ h1[a].size = hdr[a].size /\ h1[a].next = hdr[a].next
                          /\ h1[a].prev = hdr[a].prev /\ h1[a].magic = hdr[a].magic
                          /\ h1[a].used = IF a = b THEN FALSE ELSE hdr[a].used
  <2>1. hdr[b] \in Header /\ [hdr[b] EXCEPT !.used = FALSE] \in Header
    <3>1. hdr[b] \in Header
      BY <1>1, Fields
    <3> QED
      BY <3>1 DEF Header
  <2> QED
    BY <1>1, <2>1 DEF SetUsed, Headers, Header
<1> HIDE DEF h1, b
<1>4. Sound(h1, blocks) /\ ~h1[b].used /\ blocks \subseteq Addrs
  BY <1>1, <1>3, SameListSound DEF Sound
<1>5. Merged(h1, blocks, {b, h1[b].prev})
  <2> SUFFICES ASSUME NEW x \in blocks, x # b, x # h1[b].prev, ~h1[x].used, h1[x].next # Null
               PROVE  h1[h1[x].next].used
    BY DEF Merged
  <2>1. h1[x].next \in blocks /\ h1[h1[x].next].prev = x
    BY <1>4, Neighbours
  <2>2. x \in Addrs /\ h1[x].next \in Addrs /\ h1[x].next # b
    BY <1>4, <2>1
  <2>3. hdr[h1[x].next].used
    BY <1>3, <2>2 DEF Merged
  <2> QED
    BY <1>3, <2>2, <2>3
<1>6. Sound(h2, B2) /\ b \in B2 /\ ~h2[b].used /\ Merged(h2, B2, {p})
  <2>1. CASE FreeAt(h1, n)
    <3>1. n # Null /\ ~h1[n].used /\ h2 = Absorb(h1, b) /\ B2 = blocks \ {n}
      BY <2>1 DEF FreeAt
    <3>2. /\ Sound(h2, B2) /\ n # b /\ p = h1[b].prev /\ n # p
          /\ \A x \in B2 : h2[x].used = h1[x].used
      <4>1. Sound(h1, blocks) /\ b \in blocks /\ h1[b].next # Null
        BY <1>1, <1>4, <3>1
      <4>2. /\ Sound(Absorb(h1, b), blocks \ {h1[b].next}) /\ h1[b].next # b
            /\ h1[b].prev # h1[b].next /\ Absorb(h1, b)[b].prev = h1[b].prev
            /\ \A x \in blocks \ {h1[b].next} : Absorb(h1, b)[x].used = h1[x].used
        BY <4>1, AbsorbStep
      <4> QED
        BY <3>1, <4>2
    <3>3. Merged(h2, B2, {b, h1[b].prev} \ {b})
      <4>1. /\ Sound(h1, blocks) /\ b \in blocks /\ h1[b].next # Null /\ ~h1[h1[b].next].used
            /\ h1[b].next \notin {b, h1[b].prev}
        BY <1>1, <1>4, <3>1, <3>2
      <4>2. Merged(Absorb(h1, b), blocks \ {h1[b].next}, {b, h1[b].prev} \ {b})
        BY <1>5, <4>1, AbsorbMerged, Zenon
      <4> QED
        BY <3>1, <4>2
    <3>4. b \in B2 /\ ~h2[b].used
      BY <1>1, <1>4, <3>1, <3>2
    <3>5. Merged(h2, B2, {p})
      BY <3>2, <3>3 DEF Merged
    <3> QED
      BY <3>2, <3>4, <3>5
  <2>2. CASE ~FreeAt(h1, n)
    <3>1. h2 = h1 /\ B2 = blocks /\ (n = Null \/ h1[n].used)
      BY <2>2 DEF FreeAt
    <3>2. Merged(h1, blocks, {h1[b].prev})
      BY <1>5, <3>1 DEF Merged
    <3> QED
      BY <1>1, <1>4, <3>1, <3>2
  <2> QED
    BY <2>1, <2>2
<1> HIDE DEF h2, B2, n
<1>7. CASE FreeAt(h2, p)
  <2>1. p # Null /\ ~h2[p].used /\ PrevOK(h2, B2, b)
    BY <1>6, <1>7 DEF FreeAt, Sound, LinksOK
  <2>2. p \in B2 /\ h2[p].next = b /\ b # Null
    BY <1>1, <2>1, Constants DEF PrevOK, Null
  <2>3. b # p
    <3>1. h2[p].next # Null /\ Sound(h2, B2)
      BY <1>6, <2>2
    <3> PICK n2, g : n2 = h2[p].next /\ g = Absorb(h2, p)
      OBVIOUS
    <3>2. n2 # p /\ Sound(g, B2 \ {n2})
      BY <2>2, <3>1, AbsorbStep
    <3> QED
      BY <2>2, <3>2
  <2>4. Merged(Absorb(h2, p), B2 \ {b}, {p} \ {p})
    <3>1. h2[p].next # Null /\ ~h2[h2[p].next].used /\ h2[p].next \notin {p}
      BY <1>6, <2>2, <2>3
    <3>2. Merged(Absorb(h2, p), B2 \ {h2[p].next}, {p} \ {p})
      BY <1>6, <2>2, <3>1, AbsorbMerged
    <3> QED
      BY <2>2, <3>2
  <2>5. hdr' = Absorb(h2, p) /\ blocks' = B2 \ {b}
    BY <1>2, <1>7
  <2> QED
    <3>1. Merged(hdr', blocks', {p} \ {p}) /\ {p} \ {p} = {}
      BY <2>4, <2>5
    <3> QED
      BY <3>1
<1>8. CASE ~FreeAt(h2, p)
  <2>1. hdr' = h2 /\ blocks' = B2 /\ (p = Null \/ h2[p].used)
    BY <1>2, <1>8 DEF FreeAt
  <2>2. Null \notin B2
    BY <1>6, Constants DEF Sound, Null
  <2>3. Merged(h2, B2, {})
    BY <1>6, <2>1, <2>2 DEF Merged
  <2> QED
    BY <2>1, <2>3
<1> QED
  BY <1>7, <1>8

-----------------------------------------------------------------------------
(* Alignment: blocks start at multiples of ALIGN, so that their sizes are
   multiples of it too, and so is the size a scan looks for. *)

Multiple(x) == \E k \in Int : x = k * ALIGN

LEMMA Multiples ==
  ASSUME NEW x \in Int, NEW y \in Int, Multiple(x), Multiple(y)
  PROVE  /\ Multiple(x + y) /\ Multiple(x - y)
         /\ x < y => x + ALIGN <= y
<1>1. PICK j \in Int, k \in Int : x = j * ALIGN /\ y = k * ALIGN
  BY DEF Multiple
<1>2. ALIGN \in Nat /\ ALIGN > 0
  BY Constants
<1>3. x + y = (j + k) * ALIGN /\ x - y = (j - k) * ALIGN
  BY <1>1, <1>2
<1>4. j + k \in Int /\ j - k \in Int
  BY <1>1
<1>5. x < y => x + ALIGN <= y
  <2> SUFFICES ASSUME x < y PROVE x + ALIGN <= y
    OBVIOUS
  <2>1. j < k
    <3> SUFFICES ASSUME k <= j PROVE FALSE
      BY <1>1
    <3>1. k * ALIGN <= j * ALIGN
      BY <1>2
    <3> QED
      BY <1>1, <3>1
  <2>2. (j + 1) * ALIGN <= k * ALIGN
    <3>1. j + 1 <= k /\ j + 1 \in Int
      BY <2>1
    <3> PICK i \in Int : i = j + 1
      BY <3>1
    <3>2. i * ALIGN <= k * ALIGN
      BY <1>2, <3>1
    <3> QED
      BY <3>2
  <2>3. (j + 1) * ALIGN = x + ALIGN
    BY <1>1, <1>2
  <2> QED
    BY <1>1, <2>2, <2>3
<1> QED
  BY <1>3, <1>4, <1>5 DEF Multiple

\* What the rounding gives, and where it starts from.
LEMMA DownIsMultiple ==
  ASSUME NEW x \in Int
  PROVE  /\ Multiple(AlignDown(x)) /\ AlignDown(x) \in Int
         /\ x % ALIGN = 0 => Multiple(x)
         /\ x - ALIGN < AlignDown(x) /\ AlignDown(x) <= x
<1>1. ALIGN \in Nat \ {0}
  BY Constants
<1>2. /\ x = ALIGN * (x \div ALIGN) + (x % ALIGN) /\ x \div ALIGN \in Int
      /\ x % ALIGN \in 0 .. ALIGN - 1
  BY <1>1
<1>3. AlignDown(x) = (x \div ALIGN) * ALIGN
  BY <1>1, <1>2 DEF AlignDown
<1>4. x % ALIGN = 0 => x = (x \div ALIGN) * ALIGN
  BY <1>1, <1>2
<1>5. AlignDown(x) \in Int /\ x - ALIGN < AlignDown(x) /\ AlignDown(x) <= x
  BY <1>1, <1>2 DEF AlignDown
<1> QED
  BY <1>2, <1>3, <1>4, <1>5 DEF Multiple

\* The heap starts and ends aligned, and so does a header.
LEMMA HeapAligned == Multiple(heapStart) /\ Multiple(heapEnd) /\ Multiple(HEADER_SIZE)
<1>1. (StartAddr + ALIGN - 1) % W \in Int /\ heapStart \in Int /\ heapSize \in Int
  BY Constants, HeapAssumption
<1>2. Length - (heapStart - StartAddr) \in Int /\ HEADER_SIZE \in Int /\ HEADER_SIZE % ALIGN = 0
  BY <1>1, HeapAssumption
<1>3. Multiple(heapStart) /\ Multiple(heapSize)
  BY <1>1, <1>2, DownIsMultiple DEF heapStart, heapSize, AlignUp
<1> QED
  BY <1>1, <1>2, <1>3, Multiples, DownIsMultiple DEF heapEnd

Aligned ==
  /\ \A b \in blocks : Multiple(b)
  /\ want # NoAlloc => Multiple(want) /\ want < asked + ALIGN

LEMMA StepAligned == IInv /\ Aligned /\ [Next]_vars => Aligned'
<1> SUFFICES ASSUME IInv, Aligned, [Next]_vars PROVE Aligned'
  OBVIOUS
<1>1. CASE UNCHANGED <<want, asked, blocks>>
  BY <1>1 DEF Aligned
<1>2. ASSUME NEW size \in Requests, Alloc(size) PROVE Aligned'
  <2>1. size \in Nat /\ size + ALIGN - 1 \in 0 .. W - 1 /\ W \in Nat \ {0} /\ ALIGN \in Nat \ {0}
    BY HeapAssumption
  <2>2. (size + ALIGN - 1) % W = size + ALIGN - 1
    BY <2>1
  <2>3. Multiple(AlignUp(size)) /\ AlignUp(size) < size + ALIGN
    <3>1. AlignUp(size) = AlignDown(size + ALIGN - 1) /\ size + ALIGN - 1 \in Int
      BY <2>1, <2>2 DEF AlignUp
    <3>2. Multiple(AlignUp(size)) /\ AlignUp(size) <= size + ALIGN - 1 /\ AlignUp(size) \in Int
      BY <3>1, DownIsMultiple
    <3> QED
      BY <2>1, <3>2
  <2> QED
    BY <1>2, <2>3 DEF Aligned, Alloc
<1>3. CASE AllocSplit
  <2>1. /\ want \in Nat /\ it \in Nat /\ Multiple(want) /\ Multiple(it) /\ want' = NoAlloc
        /\ blocks' = blocks \cup {it + HEADER_SIZE + want}
    <3>1. it \in blocks /\ blocks \subseteq Addrs /\ want # NoAlloc
      BY <1>3 DEF IInv, Scanning, Sound, AllocSplit, Idle
    <3> QED
      BY <1>3, <3>1, Constants DEF IInv, Scanning, Aligned, AllocSplit, Return
  <2>2. HEADER_SIZE \in Nat /\ it + HEADER_SIZE \in Nat
    BY <2>1, Constants
  <2>3. Multiple(it + HEADER_SIZE)
    BY <2>1, <2>2, HeapAligned, Multiples
  <2>4. Multiple((it + HEADER_SIZE) + want)
    BY <2>1, <2>2, <2>3, Multiples
  <2> QED
    BY <2>1, <2>4 DEF Aligned
<1>4. ASSUME NEW r \in live, Free(r) PROVE Aligned'
  <2>1. blocks' \subseteq blocks /\ UNCHANGED <<want, asked>>
    BY <1>4 DEF Free
  <2> QED
    BY <2>1 DEF Aligned
<1>5. CASE AllocWhole \/ AllocFails
  BY <1>5 DEF Aligned, AllocWhole, AllocFails, Return
<1> QED
  BY <1>1, <1>2, <1>3, <1>4, <1>5 DEF Next, vars, AllocSkip

\* A block ends at a block or at the end of the heap, so its size is a multiple.
LEMMA SizesAligned ==
  ASSUME IInv, Aligned, NEW b \in blocks
  PROVE  Multiple(hdr[b].size) /\ hdr[b].size \in Nat
<1>1. /\ hdr \in Headers /\ b \in Addrs /\ b \in Nat /\ HEADER_SIZE \in Nat /\ hdr[b].size \in Nat
      /\ NextOK(hdr, blocks, b)
  BY Constants, Fields DEF IInv, Sound, LinksOK
<1>2. Multiple(End(hdr, b)) /\ Multiple(b) /\ End(hdr, b) \in Nat
  BY <1>1, Constants, HeapAligned, Fields DEF NextOK, Aligned
<1>3. Multiple(End(hdr, b) - b)
  BY <1>1, <1>2, Multiples
<1>4. Multiple((End(hdr, b) - b) - HEADER_SIZE)
  BY <1>1, <1>2, <1>3, HeapAligned, Multiples
<1>5. (End(hdr, b) - b) - HEADER_SIZE = hdr[b].size
  BY <1>1 DEF End
<1> QED
  BY <1>1, <1>4, <1>5

LEMMA AlwaysAligned == Spec => []Aligned
<1>1. Init => Aligned
  BY HeapAligned DEF Init, Aligned
<1> QED
  BY <1>1, StepAligned, AlwaysIInv, PTL DEF Spec

-----------------------------------------------------------------------------
(* A scan that goes on has passed over every block before the one it is at. *)

PassedOver ==
  want # NoAlloc =>
    \A b \in blocks : it = Null \/ b < it => hdr[b].used \/ hdr[b].size < want

\* No block lies between one and the next.
LEMMA SkipPasses ==
  ASSUME IInv, PassedOver, AllocSkip
  PROVE  PassedOver'
<1>1. /\ it \in blocks /\ it' = hdr[it].next /\ want # NoAlloc /\ ~Fits(it)
      /\ UNCHANGED <<hdr, want, blocks>>
  BY DEF AllocSkip, IInv, Scanning, Idle
<1>2. Sound(hdr, blocks) /\ hdr \in Headers /\ blocks \subseteq Addrs /\ it \in Addrs
  BY <1>1 DEF IInv, Sound
<1>3. want \in Nat /\ hdr[it].size \in Nat
  BY <1>1, <1>2, Fields, Constants DEF IInv, Scanning
<1> SUFFICES ASSUME NEW b \in blocks, hdr[it].next = Null \/ b < hdr[it].next
             PROVE  hdr[b].used \/ hdr[b].size < want
  BY <1>1 DEF PassedOver
<1>4. b \in Addrs /\ b \in Nat /\ it \in Nat /\ b < heapEnd /\ End(hdr, it) \in Nat
      /\ heapEnd \in Nat /\ it # Null
  BY <1>2, Constants, Fields DEF Null
<1>5. End(hdr, it) = heapEnd \/ (hdr[it].next = End(hdr, it) /\ hdr[it].next # Null)
  <2>1. NextOK(hdr, blocks, it)
    BY <1>1, <1>2 DEF Sound, LinksOK
  <2>2. Null \notin blocks
    BY <1>2, Constants DEF Null
  <2> QED
    BY <2>1, <2>2 DEF NextOK
<1>6. ~(it < b)
  <2> SUFFICES ASSUME it < b PROVE FALSE
    OBVIOUS
  <2>1. End(hdr, it) <= b
    BY <1>1, <1>2 DEF Sound, Ordered
  <2> QED
    BY <1>4, <1>5, <2>1
<1>7. CASE b = it
  BY <1>1, <1>3, <1>7 DEF Fits
<1>8. CASE b < it
  BY <1>1, <1>8 DEF PassedOver
<1> QED
  BY <1>4, <1>6, <1>7, <1>8

-----------------------------------------------------------------------------
(* The theorems *)

\* The headers and the allocations stay within their ranges: no size wraps.
THEOREM TypeCorrect == Spec => []TypeOK
<1>1. IInv => TypeOK
  <2> SUFFICES ASSUME IInv PROVE TypeOK
    OBVIOUS
  <2>1. hdr \in [Addrs -> Header] /\ blocks \subseteq Addrs /\ it \in Addrs \cup {Null}
    BY DEF IInv, Sound, Scanning, Headers
  <2>2. want \in (0 .. W - 1) \cup {NoAlloc} /\ asked \in 0 .. W - 1
    <3>1. W \in Nat /\ 0 < W
      BY Constants
    <3>2. CASE want = NoAlloc
      BY <3>1, <3>2 DEF IInv, Scanning
    <3>3. CASE want # NoAlloc
      <4>1. want \in 0 .. W - 1 /\ asked \in Requests /\ asked <= want
        BY <3>3 DEF IInv, Scanning
      <4>2. asked \in Nat
        BY <4>1, HeapAssumption
      <4> QED
        BY <3>1, <4>1, <4>2
    <3> QED
      BY <3>2, <3>3
  <2>3. live \subseteq [at : heapStart .. heapEnd, size : 0 .. W - 1]
    <3> SUFFICES ASSUME NEW r \in live
                 PROVE  r \in [at : heapStart .. heapEnd, size : 0 .. W - 1]
      OBVIOUS
    <3>1. r \in [at : Nat, size : Requests] /\ Sound(hdr, blocks) /\ Owned(hdr, blocks, live)
      BY DEF IInv, Owned
    <3> DEFINE b == r.at - HEADER_SIZE
    <3>2. /\ b \in Nat /\ r.at \in Nat /\ r.size \in Nat /\ heapStart <= b
          /\ r.at = b + HEADER_SIZE /\ End(hdr, b) \in Nat
          /\ r.at + r.size <= End(hdr, b) /\ End(hdr, b) <= heapEnd
      BY <3>1, InsideBlock
    <3> HIDE DEF b
    <3>3. r.at \in heapStart .. heapEnd /\ r.size \in 0 .. W - 1
      BY <3>2, Constants
    <3> QED
      BY <3>1, <3>3
  <2> QED
    BY <2>1, <2>2, <2>3 DEF TypeOK
<1> QED
  BY <1>1, AlwaysIInv, PTL

\* Whatever is allocated and freed, in whatever order, the list of blocks tiles
\* the heap and its headers are valid.
THEOREM ListNeverBreaks == Spec => []ListTilesHeap
<1>1. IInv => ListTilesHeap
  <2> SUFFICES ASSUME Sound(hdr, blocks) PROVE ListTilesHeap
    BY DEF IInv
  <2>1. \A b \in blocks : hdr[b].magic /\ NextOK(hdr, blocks, b) /\ PrevOK(hdr, blocks, b)
    BY DEF Sound, LinksOK
  <2> QED
    BY <2>1 DEF ListTilesHeap, NextOK, PrevOK, EndOfBlock, End
<1> QED
  BY <1>1, AlwaysIInv, PTL

\* Blocks never overlap.
THEOREM BlocksNeverOverlap == Spec => []BlocksApart
<1>1. IInv => BlocksApart
  BY DEF IInv, Sound, Ordered, BlocksApart, EndOfBlock, End
<1> QED
  BY <1>1, AlwaysIInv, PTL

\* Nothing leaks and nothing is handed out twice.
THEOREM BlocksBelongToAllocations == Spec => []UsedIsLive
<1>1. IInv => UsedIsLive
  BY DEF IInv, Owned, UsedIsLive
<1> QED
  BY <1>1, AlwaysIInv, PTL

\* raw_alloc and raw_free keep the promise of Memory: they implement it.
THEOREM HeapImplementsMemory == Spec => ImplementsMemory
<1>1. Init => Store!Init
  BY DEF Init, Store!Init
<1>2. IInv /\ IInv' /\ [Next]_vars => [Store!Next]_live
  <2> SUFFICES ASSUME IInv, IInv', [Next]_vars, live' # live PROVE Store!Next
    OBVIOUS
  <2>1. ASSUME AllocWhole \/ AllocSplit PROVE Store!Next
    <3> DEFINE new == [at |-> it + HEADER_SIZE, size |-> asked]
    <3>1. live' = live \cup {new}
      BY <2>1 DEF AllocWhole, AllocSplit, Return
    <3>2. new \notin live
      BY <2>1, <3>1
    <3>3. Sound(hdr', blocks') /\ Owned(hdr', blocks', live') /\ new \in live'
      BY <3>1 DEF IInv
    <3>4. \A a \in live : new.at + new.size <= a.at \/ a.at + a.size <= new.at
      <4> TAKE a \in live
      <4>1. a \in live' /\ a # new
        BY <3>1, <3>2
      <4> QED
        BY <3>3, <4>1, AllocationsApart
    <3>5. new.at \in heapStart .. heapEnd /\ new.size \in Requests /\ new.at + new.size <= heapEnd
      <4> DEFINE b == new.at - HEADER_SIZE
      <4>1. /\ b \in Nat /\ new.at \in Nat /\ new.size \in Nat /\ new.size \in Requests
            /\ heapStart <= b /\ new.at = b + HEADER_SIZE /\ End(hdr', b) \in Nat
            /\ new.at + new.size <= End(hdr', b) /\ End(hdr', b) <= heapEnd
        BY <3>3, InsideBlock
      <4> HIDE DEF b, new
      <4> QED
        BY <4>1, Constants
    <3>6. new.at = it + HEADER_SIZE /\ new.size = asked
      OBVIOUS
    <3>7. Store!Allocate
      BY <3>1, <3>2, <3>4, <3>5, <3>6 DEF Store!Allocate, Store!Apart
    <3> QED
      BY <3>7 DEF Store!Next
  <2>2. ASSUME NEW r \in live, Free(r) PROVE Store!Next
    BY <2>2 DEF Free, Store!Next, Store!Release
  <2>3. CASE UNCHANGED vars
    BY <2>3 DEF vars
  <2>4. CASE Next
    BY <2>1, <2>2, <2>4 DEF Next, Alloc, AllocSkip, AllocFails
  <2> QED
    BY <2>3, <2>4
<1> QED
  BY <1>1, <1>2, AlwaysIInv, PTL DEF Spec, ImplementsMemory, Store!Spec

\* Free memory does not stay fragmented: whatever the order of the calls, no two
\* free blocks are ever neighbours.
THEOREM FreeBlocksAreMerged == Spec => []Coalesced
<1>1. Coalesced <=> Merged(hdr, blocks, {})
  BY DEF Coalesced, Merged
<1>2. Init => Coalesced
  <2> SUFFICES ASSUME Init PROVE Coalesced
    OBVIOUS
  <2>1. IInv /\ blocks = {heapStart}
    BY InitIInv DEF Init
  <2>2. \A b \in blocks : hdr[b].next # Null => hdr[b].next \in blocks /\ hdr[hdr[b].next].prev = b
    BY <2>1, Neighbours DEF IInv
  <2>3. hdr[heapStart].prev = Null /\ heapStart # Null
    BY <2>1, Constants DEF IInv, Sound, LinksOK, PrevOK, Null
  <2> QED
    BY <2>1, <2>2, <2>3 DEF Coalesced
<1>3. IInv /\ Coalesced /\ [Next]_vars => Coalesced'
  <2> SUFFICES ASSUME IInv, Coalesced, [Next]_vars PROVE Coalesced'
    OBVIOUS
  <2>1. CASE UNCHANGED <<hdr, blocks>>
    BY <2>1 DEF Coalesced
  <2>2. CASE AllocWhole \/ AllocSplit
    BY <1>1, <2>2, AllocMerged DEF Coalesced, Merged
  <2>3. ASSUME NEW r \in live, Free(r) PROVE Coalesced'
    BY <1>1, <2>3, FreeMerged DEF Coalesced, Merged
  <2> QED
    BY <2>1, <2>2, <2>3 DEF Next, vars, Alloc, AllocSkip, AllocFails
<1> QED
  BY <1>2, <1>3, AlwaysIInv, PTL DEF Spec

\* An allocation fails only when no free block has room for what was asked.
THEOREM AllocationsFailOnlyWhenFull == Spec => []FailsOnlyWhenFull
<1>1. Init => PassedOver
  BY DEF Init, PassedOver
<1>2. IInv /\ PassedOver /\ [Next]_vars => PassedOver'
  <2> SUFFICES ASSUME IInv, PassedOver, [Next]_vars PROVE PassedOver'
    OBVIOUS
  <2>1. ASSUME NEW size \in Requests, Alloc(size) PROVE PassedOver'
    <3>1. it' = heapStart /\ blocks' = blocks /\ heapStart # Null
      BY <2>1, Constants DEF Alloc, Null
    <3>2. \A b \in blocks : ~(b < heapStart)
      <4>1. blocks \subseteq Addrs
        BY DEF IInv, Sound
      <4> QED
        BY <4>1, Constants
    <3> QED
      BY <3>1, <3>2 DEF PassedOver
  <2>2. CASE AllocSkip
    BY <2>2, SkipPasses
  <2>3. ASSUME AllocWhole \/ AllocSplit \/ AllocFails PROVE PassedOver'
    BY <2>3 DEF AllocWhole, AllocSplit, AllocFails, Return, PassedOver
  <2>4. ASSUME NEW r \in live, Free(r) PROVE PassedOver'
    BY <2>4 DEF Free, Idle, PassedOver
  <2>5. CASE UNCHANGED vars
    BY <2>5 DEF vars, PassedOver
  <2> QED
    BY <2>1, <2>2, <2>3, <2>4, <2>5 DEF Next
<1>3. IInv /\ Aligned /\ PassedOver => FailsOnlyWhenFull
  <2> SUFFICES ASSUME IInv, Aligned, PassedOver, ~Idle, it = Null, NEW b \in blocks, ~hdr[b].used
               PROVE  hdr[b].size < asked
    BY DEF FailsOnlyWhenFull
  <2>1. hdr[b].size < want /\ want # NoAlloc /\ Multiple(want) /\ want < asked + ALIGN
    BY DEF Idle, PassedOver, Aligned
  <2>2. want \in Nat /\ asked \in Nat /\ ALIGN \in Nat
    <3>1. want \in 0 .. W - 1 /\ asked \in Requests
      BY <2>1 DEF IInv, Scanning
    <3> QED
      BY <3>1, HeapAssumption
  <2>3. hdr[b].size \in Nat /\ hdr[b].size + ALIGN <= want
    <3> PICK v : v = hdr[b].size
      OBVIOUS
    <3>1. v \in Nat /\ Multiple(v)
      BY SizesAligned
    <3>2. v + ALIGN <= want
      <4>1. v \in Int /\ want \in Int /\ Multiple(v) /\ Multiple(want) /\ v < want
        BY <2>1, <2>2, <3>1
      <4> QED
        BY <4>1, Multiples, Zenon
    <3> QED
      BY <3>1, <3>2
  <2> QED
    BY <2>1, <2>2, <2>3
<1> QED
  BY <1>1, <1>2, <1>3, AlwaysIInv, AlwaysAligned, PTL DEF Spec

\* What raw_alloc hands out is aligned to ALIGN, as its callers rely on: any
\* alignment up to that is accepted without a look at the address.
PayloadsAligned == \A r \in live : \E k \in Int : r.at = k * ALIGN

THEOREM PayloadsAreAligned == Spec => []PayloadsAligned
<1>1. IInv /\ Aligned => PayloadsAligned
  <2> SUFFICES ASSUME IInv, Aligned, NEW r \in live PROVE Multiple(r.at)
    BY DEF PayloadsAligned, Multiple
  <2> PICK b \in blocks : b = r.at - HEADER_SIZE
    BY DEF IInv, Owned
  <2>1. r.at \in Nat /\ HEADER_SIZE \in Nat /\ b \in Nat
    BY Constants DEF IInv, Owned, Sound
  <2>2. r.at = b + HEADER_SIZE
    BY <2>1
  <2>3. Multiple(b) /\ Multiple(HEADER_SIZE)
    BY HeapAligned DEF Aligned
  <2>4. Multiple(b + HEADER_SIZE)
    <3>1. b \in Int /\ HEADER_SIZE \in Int
      BY <2>1
    <3> QED
      BY <2>3, <3>1, Multiples, Zenon
  <2> QED
    BY <2>2, <2>4
<1> QED
  BY <1>1, AlwaysIInv, AlwaysAligned, PTL
=============================================================================
