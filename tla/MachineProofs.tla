---------------------------- MODULE MachineProofs ----------------------------
(***************************************************************************)
(* What is proved of the emulated machine: its clocks, its timer, its      *)
(* interrupts and its transfers, for every program, memory, frame length,  *)
(* size of a FIFO and cost of a command.  Each operation of a device is a  *)
(* function of the whole machine: a lemma says which fields it changes and *)
(* that it keeps what Good collects, of which all but one device's part    *)
(* follows from the fields that the operation leaves alone.                *)
(***************************************************************************)
EXTENDS Machine, SequenceTheorems, WellFoundedInduction, TLAPS

-----------------------------------------------------------------------------
(* Numbers *)

LEMMA MaxOfTwo ==
  ASSUME NEW a \in Int, NEW b \in Int
  PROVE  Max({a, b}) = IF a >= b THEN a ELSE b
<1>1. \E x \in {a, b} : \A y \in {a, b} : x >= y
  OBVIOUS
<1>2. Max({a, b}) \in {a, b} /\ \A y \in {a, b} : Max({a, b}) >= y
  BY <1>1 DEF Max
<1> QED BY <1>2

LEMMA MinOfTwo ==
  ASSUME NEW a \in Int, NEW b \in Int
  PROVE  Min({a, b}) = IF a <= b THEN a ELSE b
<1>1. \E x \in {a, b} : \A y \in {a, b} : x <= y
  OBVIOUS
<1>2. Min({a, b}) \in {a, b} /\ \A y \in {a, b} : Min({a, b}) <= y
  BY <1>1 DEF Min
<1> QED BY <1>2

LEMMA DivMod ==
  ASSUME NEW a \in Int, NEW d \in Nat \ {0}
  PROVE  /\ a \div d \in Int /\ a % d \in 0 .. d - 1
         /\ a = (a \div d) * d + (a % d)
OBVIOUS

\* The quotient of a sum whose first term is a multiple.
LEMMA DivIs ==
  ASSUME NEW a \in Int, NEW d \in Nat \ {0}, NEW q \in Int, NEW r \in 0 .. d - 1,
         a = q * d + r
  PROVE  a \div d = q
<1> DEFINE k == a \div d
<1>1. k \in Int /\ a % d \in 0 .. d - 1 /\ a = k * d + (a % d)
  BY DivMod
<1> HIDE DEF k
<1>2. (k - q) * d = r - (a % d)
  BY <1>1
<1>3. ~(k - q >= 1)
  <2>1. SUFFICES ASSUME k - q >= 1 PROVE FALSE
    OBVIOUS
  <2>2. (k - q) * d >= d
    BY <1>1, <2>1
  <2> QED BY <1>1, <1>2, <2>2
<1>4. ~(k - q <= -1)
  <2>1. SUFFICES ASSUME k - q <= -1 PROVE FALSE
    OBVIOUS
  <2>2. (k - q) * d <= -d
    BY <1>1, <2>1
  <2> QED BY <1>1, <1>2, <2>2
<1> QED BY <1>1, <1>3, <1>4 DEF k

LEMMA Smallest ==
  ASSUME NEW T \in SUBSET Nat, T # {}
  PROVE  \E x \in T : \A y \in T : x <= y
<1>1. PICK x \in T : \A y \in T : ~(<<y, x>> \in OpToRel(<, Nat))
  BY NatLessThanWellFounded, WFMin
<1>2. \A y \in T : ~(y < x)
  BY <1>1 DEF OpToRel
<1> QED BY <1>2

-----------------------------------------------------------------------------
(* Sequences, whatever their elements *)

IsSeq(q) == \E S : q \in Seq(S)

LEMMA EmptyIsSeq == IsSeq(<<>>)
<1>1. <<>> \in Seq({})
  OBVIOUS
<1> QED BY <1>1 DEF IsSeq

LEMMA LenOfSeq == ASSUME NEW q, IsSeq(q) PROVE Len(q) \in Nat
BY DEF IsSeq

LEMMA AppendIsSeq ==
  ASSUME NEW q, IsSeq(q), NEW e
  PROVE  IsSeq(Append(q, e)) /\ Len(Append(q, e)) = Len(q) + 1
<1>1. PICK S : q \in Seq(S)
  BY DEF IsSeq
<1>2. q \in Seq(S \cup {e})
  BY <1>1
<1>3. Append(q, e) \in Seq(S \cup {e}) /\ Len(Append(q, e)) = Len(q) + 1
  BY <1>2
<1> QED BY <1>3 DEF IsSeq

LEMMA TailIsSeq ==
  ASSUME NEW q, IsSeq(q), q # <<>>
  PROVE  IsSeq(Tail(q)) /\ Len(Tail(q)) = Len(q) - 1
<1>1. PICK S : q \in Seq(S)
  BY DEF IsSeq
<1>2. Tail(q) \in Seq(S) /\ Len(Tail(q)) = Len(q) - 1
  BY <1>1
<1> QED BY <1>2 DEF IsSeq

\* A sequence cut in two, and in three.
LEMMA CutLemma ==
  ASSUME NEW p, IsSeq(p), NEW n \in 0 .. Len(p)
  PROVE  LET a == SubSeq(p, 1, n)
             b == SubSeq(p, n + 1, Len(p))
         IN  /\ IsSeq(a) /\ IsSeq(b) /\ Len(a) = n /\ Len(b) = Len(p) - n
             /\ a \o b = p
<1>1. PICK S : p \in Seq(S)
  BY DEF IsSeq
<1>2. Len(p) \in Nat /\ \A i \in 1 .. Len(p) : p[i] \in S
  BY <1>1, LenProperties
<1>3. /\ SubSeq(p, 1, n) \in Seq(S) /\ SubSeq(p, n + 1, Len(p)) \in Seq(S)
      /\ Len(SubSeq(p, 1, n)) = n /\ Len(SubSeq(p, n + 1, Len(p))) = Len(p) - n
  BY <1>2, SubSeqProperties
<1>4. SubSeq(p, 1, n) \o SubSeq(p, n + 1, Len(p)) = p
  <2> DEFINE k == Len(p)
  <2>2. 1 \in 1 .. k + 1 /\ n \in 1 - 1 .. k /\ k \in n .. k
    BY <1>2
  <2>1. SubSeq(p, 1, n) \o SubSeq(p, n + 1, k) = SubSeq(p, 1, k)
    BY <1>1, <2>2, ConcatAdjacentSubSeq
  <2> QED BY <1>1, <2>1, SubSeqFull
<1> QED BY <1>3, <1>4 DEF IsSeq

\* The end of a sequence, when one more comes, and when some of it is left out.
LEMMA EndAppended ==
  ASSUME NEW p, IsSeq(p), NEW n \in 0 .. Len(p), NEW e
  PROVE  SubSeq(Append(p, e), n + 1, Len(p) + 1) = Append(SubSeq(p, n + 1, Len(p)), e)
<1>1. PICK S : p \in Seq(S) /\ e \in S
  <2>1. PICK R : p \in Seq(R)
    BY DEF IsSeq
  <2>2. p \in Seq(R \cup {e})
    BY <2>1
  <2> QED BY <2>2
<1> DEFINE k == Len(p)
           a == SubSeq(Append(p, e), n + 1, k + 1)
           b == Append(SubSeq(p, n + 1, k), e)
<1>2. k \in Nat /\ n \in Int /\ 0 <= n /\ n <= k
  BY <1>1
<1>3. Append(p, e) \in Seq(S) /\ Len(Append(p, e)) = k + 1
  BY <1>1
<1>4. SubSeq(p, n + 1, k) \in Seq(S) /\ Len(SubSeq(p, n + 1, k)) = k - n
  BY <1>1, <1>2, SubSeqProperties
<1>5. a \in Seq(S) /\ Len(a) = k + 1 - n
  BY <1>2, <1>3, SubSeqProperties
<1>6. b \in Seq(S) /\ Len(b) = k - n + 1
  BY <1>1, <1>4
<1>7. ASSUME NEW i \in 1 .. Len(a) PROVE a[i] = b[i]
  <2>1. a[i] = Append(p, e)[n + i]
    <3>1. i \in 1 .. (k + 1) - (n + 1) + 1
      BY <1>2, <1>5
    <3> QED BY <1>2, <1>3, <1>5, <3>1
  <2>2. CASE i <= k - n
    <3>1. a[i] = p[n + i]
      BY <1>1, <1>2, <2>1, <2>2
    <3>2. b[i] = SubSeq(p, n + 1, k)[i]
      BY <1>4, <2>2
    <3>3. SubSeq(p, n + 1, k)[i] = p[n + i]
      BY <1>1, <1>2, <1>4, <2>2
    <3> QED BY <3>1, <3>2, <3>3
  <2>3. CASE i > k - n
    <3>1. i = k - n + 1 /\ n + i = k + 1
      BY <1>2, <1>5, <2>3
    <3>2. a[i] = e
      BY <1>1, <2>1, <3>1
    <3>3. b[i] = e
      BY <1>4, <3>1
    <3> QED BY <3>2, <3>3
  <2> QED BY <1>2, <1>5, <2>2, <2>3
<1>8. Len(a) = Len(b)
  BY <1>2, <1>5, <1>6
<1> HIDE DEF a, b
<1> QED BY <1>5, <1>6, <1>7, <1>8, SeqEqual DEF a, b

LEMMA EndOfEnd ==
  ASSUME NEW p, IsSeq(p), NEW h \in 0 .. Len(p), NEW n \in Nat
  PROVE  LET q == SubSeq(p, h + 1, Len(p))
             k == IF n <= Len(q) THEN n ELSE Len(q)
         IN  /\ h + k \in 0 .. Len(p)
             /\ SubSeq(q, n + 1, Len(q)) = SubSeq(p, h + k + 1, Len(p))
<1>1. PICK S : p \in Seq(S)
  BY DEF IsSeq
<1> DEFINE l == Len(p)
           q == SubSeq(p, h + 1, l)
           k == IF n <= Len(q) THEN n ELSE Len(q)
           a == SubSeq(q, n + 1, Len(q))
           b == SubSeq(p, h + k + 1, l)
<1>2. l \in Nat /\ h \in Int /\ 0 <= h /\ h <= l
  BY <1>1
<1>3. q \in Seq(S) /\ Len(q) = l - h
  BY <1>1, <1>2, SubSeqProperties
<1>4. k \in Nat /\ h + k <= l /\ (n <= l - h => k = n) /\ (n > l - h => k = l - h)
  BY <1>2, <1>3
<1> HIDE DEF k
<1>5. ASSUME n > l - h PROVE a = b
  <2> HIDE DEF q
  <2>1. a = <<>>
    BY <1>2, <1>3, <1>5, SubSeqEmpty
  <2>2. b = <<>>
    BY <1>1, <1>2, <1>4, <1>5, SubSeqEmpty
  <2> QED BY <2>1, <2>2
<1>6. ASSUME n <= l - h PROVE a = b
  <2>1. k = n
    BY <1>4, <1>6
  <2>2. a \in Seq(S) /\ Len(a) = l - h - n
    <3> HIDE DEF q
    <3> QED BY <1>2, <1>3, <1>6, SubSeqProperties
  <2>3. b \in Seq(S) /\ Len(b) = l - h - n
    BY <1>1, <1>2, <1>6, <2>1, SubSeqProperties
  <2>4. ASSUME NEW i \in 1 .. Len(a) PROVE a[i] = b[i]
    <3>1. i \in Int /\ 1 <= i /\ i <= l - h - n
      BY <1>2, <2>2
    <3>2. a[i] = q[n + i]
      <4> HIDE DEF q
      <4> QED BY <1>2, <1>3, <1>6, <2>2, <3>1
    <3>3. q[n + i] = p[(h + 1) + (n + i) - 1]
      <4>1. h + 1 \in Int /\ l \in Int /\ n + i \in 1 .. l - (h + 1) + 1
        BY <1>2, <3>1
      <4>2. \A j \in h + 1 .. l : p[j] \in S
        BY <1>1, <1>2
      <4> QED BY <4>1, <4>2, SubSeqProperties
    <3>4. b[i] = p[(h + n + 1) + i - 1]
      <4>1. b = SubSeq(p, h + n + 1, l) /\ h + n + 1 \in Int /\ i \in 1 .. l - (h + n + 1) + 1
        BY <1>2, <2>1, <3>1
      <4>2. \A j \in h + n + 1 .. l : p[j] \in S
        BY <1>1, <1>2
      <4> HIDE DEF b
      <4> QED BY <1>2, <4>1, <4>2, SubSeqProperties
    <3>5. (h + 1) + (n + i) - 1 = (h + n + 1) + i - 1
      BY <1>2, <3>1
    <3> HIDE DEF a, b, q
    <3> QED BY <3>2, <3>3, <3>4, <3>5
  <2> HIDE DEF a, b
  <2> QED BY <2>2, <2>3, <2>4, SeqEqual
<1>7. a = b
  <2> HIDE DEF a, b, q
  <2> QED BY <1>2, <1>5, <1>6
<1>8. h + k \in 0 .. l
  BY <1>2, <1>4
<1> QED BY <1>7, <1>8, Zenon DEF k
LEMMA CutTwiceLemma ==
  ASSUME NEW p, IsSeq(p), NEW n \in 0 .. Len(p), NEW k \in n .. Len(p)
  PROVE  LET a == SubSeq(p, 1, n)
             b == SubSeq(p, n + 1, k)
             d == SubSeq(p, k + 1, Len(p))
         IN  /\ IsSeq(a) /\ IsSeq(b) /\ IsSeq(d) /\ Len(a) = n
             /\ a \o b \o d = p
<1>1. PICK S : p \in Seq(S)
  BY DEF IsSeq
<1>2. Len(p) \in Nat /\ \A i \in 1 .. Len(p) : p[i] \in S
  BY <1>1, LenProperties
<1>3. k \in 0 .. Len(p)
  OBVIOUS
<1>4. IsSeq(SubSeq(p, 1, n)) /\ Len(SubSeq(p, 1, n)) = n
  BY CutLemma
<1>5. /\ IsSeq(SubSeq(p, k + 1, Len(p)))
      /\ SubSeq(p, 1, k) \o SubSeq(p, k + 1, Len(p)) = p
  BY <1>3, CutLemma
<1>6. SubSeq(p, n + 1, k) \in Seq(S)
  BY <1>2, SubSeqProperties
<1>7. SubSeq(p, 1, n) \o SubSeq(p, n + 1, k) = SubSeq(p, 1, k)
  BY <1>1, <1>2, ConcatAdjacentSubSeq
<1> QED BY <1>4, <1>5, <1>6, <1>7 DEF IsSeq

\* What follows a cut in the second of two sequences.
LEMMA CutOfConcat ==
  ASSUME NEW p, NEW q, IsSeq(p), IsSeq(q), NEW n \in 0 .. Len(q)
  PROVE  SubSeq(p \o q, Len(p) + n + 1, Len(p \o q)) = SubSeq(q, n + 1, Len(q))
<1>1. PICK S, T : p \in Seq(S) /\ q \in Seq(T)
  BY DEF IsSeq
<1>2. p \in Seq(S \cup T) /\ q \in Seq(S \cup T)
  BY <1>1
<1>3. Len(p) \in Nat /\ Len(q) \in Nat /\ Len(p \o q) = Len(p) + Len(q)
  BY <1>2
<1>4. CASE n = Len(q)
  <2>1. SubSeq(p \o q, Len(p) + n + 1, Len(p \o q)) = <<>>
    BY <1>3, <1>4, SubSeqEmpty
  <2>2. SubSeq(q, n + 1, Len(q)) = <<>>
    BY <1>3, <1>4, SubSeqEmpty
  <2> QED BY <2>1, <2>2
<1>5. CASE n # Len(q)
  <2>1. PICK i, j : i = Len(p) + n + 1 /\ j = Len(p) + Len(q)
    OBVIOUS
  <2>2. /\ i \in Len(p) + 1 .. Len(p) + Len(q) /\ j \in Len(p) + 1 .. Len(p) + Len(q)
        /\ i - Len(p) = n + 1 /\ j - Len(p) = Len(q)
    BY <1>3, <1>5, <2>1
  <2>3. SubSeq(p \o q, i, j) = SubSeq(q, i - Len(p), j - Len(p))
    BY <1>2, <2>2, SubSeqOfConcat2
  <2> QED BY <1>3, <2>1, <2>2, <2>3
<1> QED BY <1>4, <1>5

\* Concatenation, by a name that keeps its definition from the provers.
Then(p, q) == p \o q

LEMMA ThenIsAssociative ==
  ASSUME NEW p, NEW q, NEW r, IsSeq(p), IsSeq(q), IsSeq(r)
  PROVE  Then(Then(p, q), r) = Then(p, Then(q, r))
<1>1. PICK S, T, U : p \in Seq(S) /\ q \in Seq(T) /\ r \in Seq(U)
  BY DEF IsSeq
<1>2. p \in Seq(S \cup T \cup U) /\ q \in Seq(S \cup T \cup U) /\ r \in Seq(S \cup T \cup U)
  BY <1>1
<1> QED BY <1>2, ConcatAssociative DEF Then

LEMMA NothingAfter == ASSUME NEW p, IsSeq(p) PROVE p \o <<>> = p
<1>1. PICK S : p \in Seq(S)
  BY DEF IsSeq
<1> QED BY <1>1, ConcatEmptySeq

LEMMA ConcatIsSeq ==
  ASSUME NEW p, NEW q, IsSeq(p), IsSeq(q)
  PROVE  IsSeq(p \o q) /\ Len(p \o q) = Len(p) + Len(q)
<1>1. PICK S : p \in Seq(S)
  BY DEF IsSeq
<1>2. PICK T : q \in Seq(T)
  BY DEF IsSeq
<1>3. p \in Seq(S \cup T) /\ q \in Seq(S \cup T)
  BY <1>1, <1>2
<1>4. p \o q \in Seq(S \cup T) /\ Len(p \o q) = Len(p) + Len(q)
  BY <1>3
<1> QED BY <1>4 DEF IsSeq

\* A prefix of two sequences goes after a third, and takes the whole of the first.
MovesPrefix(d, b, q, n) ==
  LET out == SubSeq(b \o q, 1, Len(b) + n)
      rest == SubSeq(q, n + 1, Len(q))
  IN  /\ IsSeq(out) /\ Len(out) = Len(b) + n /\ IsSeq(rest) /\ IsSeq(d \o out)
      /\ (d \o out) \o <<>> \o rest = d \o b \o q

LEMMA MoveLemma ==
  ASSUME NEW d, NEW b, NEW q, IsSeq(d), IsSeq(b), IsSeq(q), NEW n \in 0 .. Len(q)
  PROVE  MovesPrefix(d, b, q, n)
<1> DEFINE line == b \o q
           words == Len(b) + n
           out == SubSeq(line, 1, words)
           rest == SubSeq(q, n + 1, Len(q))
<1>1. Len(b) \in Nat /\ Len(q) \in Nat
  BY LenOfSeq
<1>2. IsSeq(line) /\ Len(line) = Len(b) + Len(q)
  BY ConcatIsSeq
<1>3. words \in 0 .. Len(line)
  BY <1>1, <1>2
<1>4. rest = SubSeq(line, words + 1, Len(line))
  BY <1>1, CutOfConcat
<1> HIDE DEF line, words
<1>5. IsSeq(out) /\ Len(out) = words /\ IsSeq(SubSeq(line, words + 1, Len(line)))
      /\ out \o SubSeq(line, words + 1, Len(line)) = line
  BY <1>2, <1>3, CutLemma
<1> HIDE DEF out, rest
<1>6. IsSeq(rest) /\ out \o rest = line
  BY <1>4, <1>5
<1>7. IsSeq(d \o out)
  BY <1>5, ConcatIsSeq
<1>8. (d \o out) \o <<>> = d \o out
  BY <1>7, NothingAfter
<1>9. (d \o out) \o rest = d \o (out \o rest)
  <2>1. Then(Then(d, out), rest) = Then(d, Then(out, rest))
    BY <1>5, <1>6, ThenIsAssociative
  <2> QED BY <2>1 DEF Then
<1>10. d \o line = d \o b \o q
  <2>1. Then(Then(d, b), q) = Then(d, Then(b, q))
    BY ThenIsAssociative
  <2> QED BY <2>1 DEF Then, line
<1> QED BY <1>5, <1>6, <1>7, <1>8, <1>9, <1>10 DEF out, rest, line, words, MovesPrefix

\* The same prefix, of which the last words are kept between the two.
MovesPart(d, b, q, n, k) ==
  LET line == b \o q
      out == SubSeq(line, 1, n)
      kept == SubSeq(line, n + 1, k)
      rest == SubSeq(line, k + 1, Len(line))
  IN  /\ IsSeq(out) /\ Len(out) = n /\ IsSeq(kept) /\ IsSeq(rest) /\ IsSeq(d \o out)
      /\ (d \o out) \o kept \o rest = d \o b \o q

LEMMA MovePartLemma ==
  ASSUME NEW d, NEW b, NEW q, IsSeq(d), IsSeq(b), IsSeq(q),
         NEW n \in 0 .. Len(b) + Len(q), NEW k \in n .. Len(b) + Len(q)
  PROVE  MovesPart(d, b, q, n, k)
<1> DEFINE line == b \o q
           out == SubSeq(line, 1, n)
           kept == SubSeq(line, n + 1, k)
           rest == SubSeq(line, k + 1, Len(line))
<1>2. IsSeq(line) /\ Len(line) = Len(b) + Len(q)
  BY ConcatIsSeq
<1> HIDE DEF line
<1>3. n \in 0 .. Len(line) /\ k \in n .. Len(line)
  BY <1>2
<1>4. IsSeq(out) /\ Len(out) = n /\ IsSeq(kept) /\ IsSeq(rest) /\ out \o kept \o rest = line
  BY <1>2, <1>3, CutTwiceLemma
<1> HIDE DEF out, kept, rest
<1>5. IsSeq(d \o out) /\ IsSeq(out \o kept)
  BY <1>4, ConcatIsSeq
<1>6. (d \o out) \o kept = d \o (out \o kept)
  <2>1. Then(Then(d, out), kept) = Then(d, Then(out, kept))
    BY <1>4, ThenIsAssociative
  <2> QED BY <2>1 DEF Then
<1>7. (d \o (out \o kept)) \o rest = d \o ((out \o kept) \o rest)
  <2>1. IsSeq(Then(out, kept))
    BY <1>5 DEF Then
  <2>2. Then(Then(d, Then(out, kept)), rest) = Then(d, Then(Then(out, kept), rest))
    BY <1>4, <2>1, ThenIsAssociative
  <2> QED BY <2>2 DEF Then
<1>8. d \o line = d \o b \o q
  <2>1. Then(Then(d, b), q) = Then(d, Then(b, q))
    BY ThenIsAssociative
  <2> QED BY <2>1 DEF Then, line
<1> QED BY <1>4, <1>5, <1>6, <1>7, <1>8 DEF out, kept, rest, line, MovesPart

-----------------------------------------------------------------------------
(* The constants *)

LEMMA ConstantsAreNat ==
  /\ CpuFreq \in Nat \ {0} /\ ClkDiv \in Nat \ {0} /\ AudioDiv \in Nat \ {0}
  /\ DmaStart \in Nat \ {0} /\ DmaPoll \in Nat \ {0} /\ RomCost \in Nat \ {0}
  /\ ByteTime \in Nat \ {0} /\ FifoSize \in Nat \ {0} /\ Word \in Nat \ {0, 1}
  /\ TriangleCycles \in Nat \ {0} /\ MultiplyCycles \in Nat \ {0} /\ EndCycles \in Nat \ {0}
BY MachineAssumption DEF MachineAssumption

LEMMA QueueFacts == Ahead \in Int /\ Queue \in Int /\ Ahead + 3 <= Queue
BY MachineAssumption DEF MachineAssumption

LEMMA ProgramFacts ==
  \A p \in Programs :
    /\ p.frame \in Nat \ {0} /\ Len(p.stores) \in Nat
    /\ \A i \in 1 .. Len(p.stores) : IsStore(p.stores[i])
BY MachineAssumption, Zenon DEF MachineAssumption

\* The longest time between two instants at which the events are looked at.
Reach == Max(Ticks)

LEMMA Proportions ==
  /\ ClkDiv <= CpuFreq /\ AudioDiv <= CpuFreq
  /\ RomCost <= DmaStart /\ RomCost <= DmaPoll
  /\ Reach \in Nat \ {0} /\ Reach \in Ticks /\ \A t \in Ticks : t <= Reach
  /\ \A p \in Programs : Reach <= p.frame
<1>1. PICK t \in Ticks : \A u \in Ticks : u <= t
  BY MachineAssumption DEF MachineAssumption
<1>2. \E x \in Ticks : \A y \in Ticks : x >= y
  <2>1. Ticks \subseteq Nat
    BY MachineAssumption DEF MachineAssumption
  <2> QED BY <1>1, <2>1
<1>3. Reach \in Ticks /\ \A y \in Ticks : Reach >= y
  BY <1>2 DEF Reach, Max
<1>4. Reach \in Nat \ {0} /\ Reach \in Ticks /\ \A u \in Ticks : u <= Reach
  <2>1. Ticks \subseteq Nat \ {0}
    BY MachineAssumption DEF MachineAssumption
  <2> HIDE DEF Reach
  <2> QED BY <1>3, <2>1
<1>5. /\ ClkDiv <= CpuFreq /\ AudioDiv <= CpuFreq
      /\ RomCost <= DmaStart /\ RomCost <= DmaPoll
  BY MachineAssumption DEF MachineAssumption
<1>6. \A p \in Programs : Reach <= p.frame
  <2>1. \A p \in Programs, u \in Ticks : u <= p.frame
    BY MachineAssumption, Zenon DEF MachineAssumption
  <2> HIDE DEF Reach
  <2> QED BY <1>3, <2>1
<1> HIDE DEF Reach
<1> QED BY <1>4, <1>5, <1>6

-----------------------------------------------------------------------------
(* The envelope of a voice: whatever the configuration, an attack rises and a *)
(* release falls.                                                            *)

Phases == {"Attack", "Decay", "Sustain", "Release"}

IsEnvelope(p) == p.low.level \in Int /\ p.high.level \in Int

\* Bounds are stated as inequalities: the provers write out the elements of 1 .. 14336.
Within(x, low, high) == x \in Int /\ low <= x /\ x <= high

IsLevel(x) == Within(x, 0, Max16)

\* Parameters by which the level rises, and those by which it falls.
Rising(p) ==
  ~p.exponential /\ Within(p.low.level, 1, 14336) /\ Within(p.high.level, 1, 14336)
Falling(p) == Within(p.low.level, -16384, -8) /\ p.high.level = p.low.level

ParamsKept(params) ==
  /\ \A phase \in Phases : IsEnvelope(params[phase])
  /\ Rising(params.Attack) /\ Falling(params.Release)

EnvelopeKept(v) ==
  /\ IsLevel(v.level) /\ v.state \in Phases \cup {"Stopped"}
  /\ ParamsKept(v.params)

\* Two voices of the same level and parameters.
LEMMA EnvelopeSame ==
  ASSUME NEW v, NEW w, EnvelopeKept(v), w.level = v.level, w.params = v.params,
         w.state = v.state \/ w.state = "Stopped" \/ w.state \in Phases
  PROVE  EnvelopeKept(w)
<1>1. IsLevel(w.level)
  BY DEF EnvelopeKept
<1>2. ParamsKept(w.params)
  BY DEF EnvelopeKept
<1>3. w.state \in Phases \cup {"Stopped"}
  BY DEF EnvelopeKept
<1> QED
  BY <1>1, <1>2, <1>3 DEF EnvelopeKept

LEMMA PowerOfTwo ==
  ASSUME NEW n \in Int, 1 <= n, n <= 11
  PROVE  Within(2 ^ n, 2, 2048)
<1>1. \/ n = 1 \/ n = 2 \/ n = 3 \/ n = 4 \/ n = 5 \/ n = 6
      \/ n = 7 \/ n = 8 \/ n = 9 \/ n = 10 \/ n = 11
  OBVIOUS
<1>2. CASE n = 1
  BY <1>2 DEF Within
<1>3. CASE n = 2
  BY <1>3 DEF Within
<1>4. CASE n = 3
  BY <1>4 DEF Within
<1>5. CASE n = 4
  BY <1>5 DEF Within
<1>6. CASE n = 5
  BY <1>6 DEF Within
<1>7. CASE n = 6
  BY <1>7 DEF Within
<1>8. CASE n = 7
  BY <1>8 DEF Within
<1>9. CASE n = 8
  BY <1>9 DEF Within
<1>10. CASE n = 9
  BY <1>10 DEF Within
<1>11. CASE n = 10
  BY <1>11 DEF Within
<1>12. CASE n = 11
  BY <1>12 DEF Within
<1> QED
  BY <1>1, <1>2, <1>3, <1>4, <1>5, <1>6, <1>7, <1>8, <1>9, <1>10, <1>11, <1>12

\* EnvelopeParams::steps
LEMMA StepsLemma ==
  ASSUME NEW shift \in Int, 0 <= shift, NEW step \in Int
  PROVE  \E q \in Int : Within(q, 1, 2048) /\ Steps(shift, step).level = step * q
<1>1. CASE shift < 11
  <2>1. Within(2 ^ (11 - shift), 2, 2048)
    <3>1. 11 - shift \in Int /\ 1 <= 11 - shift /\ 11 - shift <= 11
      BY <1>1
    <3> QED
      BY <3>1, PowerOfTwo
  <2>2. PICK q \in Int : Within(q, 2, 2048) /\ q = 2 ^ (11 - shift)
    BY <2>1 DEF Within
  <2>3. Steps(shift, step).level = step * q
    BY <1>1, <2>2 DEF Steps
  <2> QED
    BY <2>2, <2>3 DEF Within
<1>2. CASE shift >= 11
  <2>1. Steps(shift, step).level = step /\ step = step * 1
    BY <1>2 DEF Steps
  <2>2. Within(1, 1, 2048)
    BY DEF Within
  <2> QED
    BY <2>1, <2>2
<1> QED
  BY <1>1, <1>2

\* The steps of an attack, of a release, and of any phase.
LEMMA StepsRange ==
  ASSUME NEW shift \in Int, 0 <= shift
  PROVE  /\ \A step \in Int : Within(step, 4, 7) => Within(Steps(shift, step).level, 4, 14336)
         /\ Within(Steps(shift, -8).level, -16384, -8)
         /\ \A step \in Int : Steps(shift, step).level \in Int
<1>1. ASSUME NEW step \in Int, Within(step, 4, 7)
      PROVE  Within(Steps(shift, step).level, 4, 14336)
  <2>1. PICK q \in Int : Within(q, 1, 2048) /\ Steps(shift, step).level = step * q
    BY StepsLemma
  <2>2. step = 4 \/ step = 5 \/ step = 6 \/ step = 7
    BY <1>1 DEF Within
  <2>3. Within(step * q, 4, 14336)
    BY <2>1, <2>2 DEF Within
  <2> QED
    BY <2>1, <2>3
<1>2. Within(Steps(shift, -8).level, -16384, -8)
  <2>1. PICK step \in Int : step = -8
    OBVIOUS
  <2>2. PICK q \in Int : Within(q, 1, 2048) /\ Steps(shift, step).level = step * q
    BY StepsLemma
  <2>3. Within((-8) * q, -16384, -8)
    BY <2>2 DEF Within
  <2> QED
    BY <2>1, <2>2, <2>3
<1>3. ASSUME NEW step \in Int
      PROVE  Steps(shift, step).level \in Int
  <2>1. PICK q \in Int : Within(q, 1, 2048) /\ Steps(shift, step).level = step * q
    BY StepsLemma
  <2>2. step * q \in Int
    BY <2>1 DEF Within
  <2> QED
    BY <2>1, <2>2
<1> QED
  BY <1>1, <1>2, <1>3

\* Adsr::refresh_params: an attack rises and a release falls in any configuration.
LEMMA ParamsLemma ==
  ASSUME NEW config \in Configs
  PROVE  ParamsKept(Params(config))
<1> DEFINE attack == Steps(config.attackShift, 7 - config.attackStep)
           decay == Steps(config.decayShift, -8)
           down == Steps(config.sustainShift, config.sustainStep - 8)
           up == Steps(config.sustainShift, 7 - config.sustainStep)
           release == Steps(config.releaseShift, -8)
<1>1. Within(attack.level, 4, 14336)
  <2>1. /\ config.attackShift \in Int /\ 0 <= config.attackShift
        /\ 7 - config.attackStep \in Int /\ Within(7 - config.attackStep, 4, 7)
    BY DEF Configs, Within
  <2> QED
    BY <2>1, StepsRange
<1>2. decay.level \in Int /\ Within(release.level, -16384, -8)
  <2>1. /\ config.decayShift \in Int /\ 0 <= config.decayShift
        /\ config.releaseShift \in Int /\ 0 <= config.releaseShift
    BY DEF Configs
  <2> QED
    BY <2>1, StepsRange
<1>3. down.level \in Int /\ up.level \in Int
  <2>1. /\ config.sustainShift \in Int /\ 0 <= config.sustainShift
        /\ config.sustainStep - 8 \in Int /\ 7 - config.sustainStep \in Int
    BY DEF Configs
  <2> QED
    BY <2>1, StepsRange
<1>4. /\ Params(config).Attack = (IF config.attackExp THEN SmoothUp(attack) ELSE Linear(attack))
      /\ Params(config).Decay = Exponential(decay)
      /\ Params(config).Sustain \in {Exponential(down), SmoothUp(up), Linear(down), Linear(up)}
      /\ Params(config).Release
           = (IF config.releaseExp THEN Exponential(release) ELSE Linear(release))
  BY DEF Params
<1> HIDE DEF attack, decay, down, up, release
<1>5. \A s : s.level \in Int => /\ IsEnvelope(Linear(s)) /\ IsEnvelope(Exponential(s))
                          /\ ~Linear(s).exponential
                          /\ Linear(s).low = s /\ Linear(s).high = s
                          /\ Exponential(s).low = s /\ Exponential(s).high = s
  BY DEF IsEnvelope, Linear, Exponential
<1>6. SmoothUp(attack).low = attack /\ ~SmoothUp(attack).exponential
  BY DEF SmoothUp
<1>7. IsEnvelope(SmoothUp(attack)) /\ Within(SmoothUp(attack).high.level, 1, 14336)
  <2>1. SmoothUp(attack).high.level = attack.level \div 4
    BY DEF SmoothUp, attack, Steps
  <2> QED
    BY <1>1, <1>6, <2>1 DEF IsEnvelope, Within
<1>8. IsEnvelope(SmoothUp(up))
  <2>1. SmoothUp(up).high.level = up.level \div 4 /\ SmoothUp(up).low = up
    BY DEF SmoothUp, up, Steps
  <2> QED
    BY <1>3, <2>1 DEF IsEnvelope
<1>9. Rising(Params(config).Attack) /\ Falling(Params(config).Release)
  BY <1>1, <1>2, <1>4, <1>5, <1>6, <1>7 DEF Rising, Falling, Within
<1> QED
  BY <1>1, <1>2, <1>3, <1>4, <1>5, <1>7, <1>8, <1>9 DEF ParamsKept, Phases, Within

\* The level keeps to its 15 bits whatever the step, by wrapping and then clamping.
LEMMA NextLevelType ==
  ASSUME NEW p, IsEnvelope(p), NEW level \in Int, IsLevel(level)
  PROVE  IsLevel(NextLevel(p, level))
<1>1. LevelStep(p, level) \in Int
  <2>1. CASE p.exponential
    <3>1. PICK a \in Int : a = p.low.level
      BY DEF IsEnvelope
    <3>2. PICK x \in Int : x = a * level
      OBVIOUS
    <3>3. x \div 32768 \in Int
      OBVIOUS
    <3> QED
      BY <2>1, <3>1, <3>2, <3>3 DEF LevelStep
  <2>2. CASE ~p.exponential
    BY <2>2 DEF LevelStep, InHigh, IsEnvelope
  <2> QED
    BY <2>1, <2>2
<1>2. \A x \in Int : Within(Wrapped16(x), -32768, 32767)
  BY DEF Wrapped16, Min16, Within
<1>3. PICK step \in Int : step = LevelStep(p, level)
  BY <1>1
<1>4. level + step \in Int /\ Within(Wrapped16(level + step), -32768, 32767)
  BY <1>2
<1> QED
  BY <1>3, <1>4 DEF NextLevel, Max16, Within, IsLevel

\* From any level an attack rises: above the highest one it stops there.
LEMMA AttackRises ==
  ASSUME NEW p, Rising(p), NEW level \in Int, Within(level, 0, 32766)
  PROVE  NextLevel(p, level) > level
<1>1. PICK step \in Int : step = LevelStep(p, level) /\ Within(step, 1, 14336)
  BY DEF Rising, LevelStep, InHigh, Within
<1>2. CASE level + step <= 32767
  <2>1. Wrapped16(level + step) = level + step
    BY <1>1, <1>2 DEF Wrapped16, Min16, Within
  <2> QED
    BY <1>1, <2>1 DEF NextLevel, Max16, Within
<1>3. CASE level + step > 32767
  <2>1. Wrapped16(level + step) = level + step - 65536
    BY <1>1, <1>3 DEF Wrapped16, Min16, Within
  <2> QED
    BY <1>1, <2>1 DEF NextLevel, Max16, Within
<1> QED
  BY <1>1, <1>2, <1>3

\* From any level a release falls: steps that depend on the level are rounded down.
LEMMA ReleaseFalls ==
  ASSUME NEW p, Falling(p), NEW level \in Int, Within(level, 1, 32767)
  PROVE  NextLevel(p, level) < level
<1>1. PICK a \in Int : a = p.low.level /\ a = p.high.level /\ Within(a, -16384, -8)
  BY DEF Falling, Within
<1>2. Within((a * level) \div 32768, -16384, -1)
  <2>1. PICK x \in Int : x = a * level
    OBVIOUS
  <2>2. x < 0
    BY <1>1, <2>1 DEF Within
  <2>3. x >= (-16384) * level
    <3>1. (a + 16384) * level >= 0
      <4>1. a + 16384 \in Int /\ a + 16384 >= 0 /\ level >= 0
        BY <1>1 DEF Within
      <4>2. \A y, z \in Int : y >= 0 /\ z >= 0 => y * z >= 0
        OBVIOUS
      <4> QED
        BY <4>1, <4>2
    <3>2. (a + 16384) * level = a * level + 16384 * level
      OBVIOUS
    <3>3. a * level = x /\ (-16384) * level = -(16384 * level)
      BY <2>1
    <3> QED
      BY <3>1, <3>2, <3>3
  <2>4. Within(x \div 32768, -16384, -1)
    <3>1. x >= -16384 * 32768
      BY <2>3 DEF Within
    <3> QED
      BY <2>2, <3>1 DEF Within
  <2> QED
    BY <2>1, <2>4
<1>3. Within(LevelStep(p, level), -16384, -1)
  <2>1. CASE p.exponential
    <3>1. LevelStep(p, level) = (a * level) \div 32768
      BY <1>1, <2>1 DEF LevelStep
    <3> QED
      BY <1>2, <3>1 DEF Within
  <2>2. CASE ~p.exponential
    <3>1. InHigh(p, level) = p.high \/ InHigh(p, level) = p.low
      BY DEF InHigh
    <3>2. p.high.level = p.low.level
      BY DEF Falling
    <3>3. InHigh(p, level).level = p.low.level
      BY <3>1, <3>2
    <3>4. LevelStep(p, level) = p.low.level
      BY <2>2, <3>3 DEF LevelStep
    <3> QED
      BY <3>4 DEF Falling, Within
  <2> QED
    BY <2>1, <2>2
<1>4. PICK step \in Int : step = LevelStep(p, level) /\ Within(step, -16384, -1)
  BY <1>3 DEF Within
<1>5. Wrapped16(level + step) = level + step
  BY <1>4 DEF Wrapped16, Min16, Within
<1> QED
  BY <1>4, <1>5 DEF NextLevel, Max16, Within

LEMMA EnvelopeMovesLemma ==
  ASSUME NEW v, EnvelopeKept(v)
  PROVE  /\ Within(v.level, 0, Max16)
         /\ v.level < Max16 => NextLevel(v.params.Attack, v.level) > v.level
         /\ v.level > 0 => NextLevel(v.params.Release, v.level) < v.level
<1>1. v.level \in Int /\ Rising(v.params.Attack) /\ Falling(v.params.Release)
  BY DEF EnvelopeKept, ParamsKept, IsLevel, Within
<1>2. Within(v.level, 0, Max16)
  BY DEF EnvelopeKept, IsLevel
<1>3. v.level < Max16 => Within(v.level, 0, 32766)
  BY <1>2 DEF Max16, Within
<1>4. v.level > 0 => Within(v.level, 1, 32767)
  BY <1>2 DEF Max16, Within
<1> QED
  BY <1>1, <1>2, <1>3, <1>4, AttackRises, ReleaseFalls

-----------------------------------------------------------------------------
(* What an operation leaves alone *)

\* t is s but for the fields of F.
Keeps(s, t, F) == DOMAIN t = DOMAIN s /\ \A f \in DOMAIN s \ F : t[f] = s[f]

Fields ==
  { "program", "cycle", "base", "first", "last", "next", "mip", "mie", "irqOn", "irqOnPrev",
    "wfi", "unchecked", "pending", "enabled", "mtime", "mtimecmp", "samples", "gpu", "frames", "frameDone",
    "dma", "spu", "sent", "canWrite", "nextReg", "asked", "delivered", "done", "input",
    "handled", "panicked" }

\* Nothing but wfi puts the processor to sleep.
StaysAwake(s, t) == t.wfi => s.wfi

Cpu == {"mip", "mie", "irqOn", "wfi", "unchecked"}
Dates == {"last", "next", "first"}

\* The dates of the other devices.
OthersKept(s, t, who) ==
  \A d \in Tokens \ {who} : t.last[d] = s.last[d] /\ t.next[d] = s.next[d]

-----------------------------------------------------------------------------
(* The invariant, of which IrqSafe and the clocks are the parts that matter:  *)
(* Good(s, c) holds of every machine s that an operation takes or gives back, *)
(* while c, the date the processor has come to, may be later than the cycle.  *)

\* No enabled line is up while interrupts are let through or the processor sleeps, but for what
\* a CSRRW has let through.
IrqSafe(s) == (s.irqOn \/ s.wfi) /\ ~s.unchecked => s.mip \cap s.mie = {}

\* The first event is no later than any device's.
Planned(s) ==
  /\ s.cycle \in Int /\ s.base \in Int /\ s.first \in Int
  /\ s.last \in [Tokens -> Int] /\ s.next \in [Tokens -> Int]
  /\ \A d \in Tokens : s.first <= s.next[d]

\* It is that of a device.
Attained(s) == \E d \in Tokens : s.first = s.next[d]

\* The timer has counted the whole ticks up to its date, which c has reached.
TimerKept(s, c) ==
  /\ s.mtime \in Int /\ s.mtimecmp \in Int
  /\ s.mtime * ClkDiv = s.base + s.last["SysTimer"] /\ s.last["SysTimer"] <= c

\* Its line tells whether the comparison is reached, and its event comes no later than that.
TimerArmed(s) ==
  /\ "MTI" \in s.mip <=> s.mtime >= s.mtimecmp
  /\ s.mtime < s.mtimecmp => s.next["SysTimer"] - s.last["SysTimer"] <= ClkDiv * (s.mtimecmp - s.mtime)

VoiceFields ==
  { "state", "level", "divider", "params", "step", "phase", "start", "cur", "loopIndex", "header",
    "last", "queue", "line", "stale", "heard", "played", "startedAt" }

\* What the queue holds is what has been decoded and not played.
LineKept(v) ==
  /\ IsSeq(v.queue) /\ IsSeq(v.line) /\ v.heard \in 0 .. Len(v.line)
  /\ v.queue = SubSeq(v.line, v.heard + 1, Len(v.line))

\* The queue has room for whatever a word adds.
SoundKept(v) ==
  /\ LineKept(v) /\ Len(v.queue) <= Ahead + 3
  /\ v.phase \in Nat /\ v.step \in Nat

\* The sound processor has played the whole samples up to its date, and the voice
\* those since it was started; the envelope moves the way its phase says.
VoiceKept(s) ==
  LET v == s.spu.voice
  IN  /\ DOMAIN s.spu = {"ram", "ptr", "voice"} /\ DOMAIN v = VoiceFields
      /\ v.played \in Int /\ v.startedAt \in Int /\ EnvelopeKept(v) /\ SoundKept(v)
      /\ v.startedAt # -1 => v.played = s.samples - (v.startedAt \div AudioDiv)
SpuKept(s, c) ==
  /\ s.samples \in Int
  /\ s.samples * AudioDiv = s.base + s.last["Spu"] /\ s.last["Spu"] <= c
  /\ VoiceKept(s)

GpuFields ==
  { "fifo", "remaining", "frame", "state", "drawing", "drawMat", "mat", "lut", "vert", "mats",
    "tris", "shown" }

\* The frame counter holds what is left of the frames begun.
GpuTyped(g) ==
  /\ DOMAIN g = GpuFields /\ IsSeq(g.fifo) /\ Len(g.fifo) <= FifoSize
  /\ g.remaining \in Int /\ g.remaining <= DmaPatience /\ g.frame \in Int
GpuKept(s) ==
  /\ s.program \in Programs /\ s.frames \in Int /\ GpuTyped(s.gpu)
  /\ (s.frames + 1) * FrameCycles(s) - s.gpu.frame = s.base + s.last["Gpu"]

InputKept(s) ==
  /\ DOMAIN s.input = {"tx", "rx", "irq", "div", "count"}
  /\ IsSeq(s.input.tx) /\ s.input.count \in Nat /\ s.input.div \in Nat \ {0}

\* The words of the transfer are those delivered, those the buffer holds and those still to
\* be read, in this order; the interrupt that tells its end has been raised once or not yet.
DmaHolds(s) ==
  /\ DOMAIN s.dma = {"src", "dst", "todo", "buf"}
  /\ IsSeq(s.dma.todo) /\ IsSeq(s.dma.buf) /\ IsSeq(s.delivered)
  /\ s.delivered \o s.dma.buf \o s.dma.todo = s.asked
DmaKept(s, c) ==
  /\ DmaHolds(s) /\ s.last["Dma"] <= c
  /\ s.done = IF s.asked # <<>> /\ ~IsRunning(s) THEN 1 ELSE 0
  /\ IsRunning(s) => s.next["Dma"] - s.last["Dma"] <= DmaPatience

\* The GPU is in a frame, and runs by its end.
HasFrame(s) == s.gpu.frame > 0 /\ s.next["Gpu"] <= s.last["Gpu"] + s.gpu.frame

Good(s, c) ==
  /\ DOMAIN s = Fields
  /\ IrqSafe(s) /\ Planned(s)
  /\ TimerKept(s, c) /\ TimerArmed(s)
  /\ SpuKept(s, c) /\ GpuKept(s) /\ InputKept(s) /\ DmaKept(s, c)

-----------------------------------------------------------------------------
(* How the dates move: t is what an operation makes of s. *)

\* Whoever has run plans its next event for later, and nobody runs past the date but who
\* already had.
Onward(s, t) ==
  /\ Attained(t) /\ StaysAwake(s, t) /\ HasFrame(t)
  /\ \A d \in Tokens : t.next[d] >= s.cycle \/ t.next[d] = s.next[d]
  /\ \A d \in {"Gpu", "InputDev"} : t.last[d] \in {s.last[d], s.cycle}

\* No event is due any longer for who, nor is one for those for whom none was.
Done(s, t, who) ==
  t.next[who] > s.cycle /\ \A d \in Tokens : s.next[d] > s.cycle => t.next[d] > s.cycle

\* A run of the DMA leaves behind at most the time of a word, and panics or plans its next event.
DmaOnward(s, t) ==
  /\ Onward(s, t) /\ t.last["Dma"] >= s.last["Dma"]
  /\ IsRunning(t) => IsRunning(s) /\ s.cycle - t.last["Dma"] < RomCost
  /\ ~IsRunning(s) => t.last["Dma"] >= s.cycle
  /\ ~t.panicked => Done(s, t, "Dma")

\* The events are looked at before the date has gone further than an instruction can take it.
Timely(s) == HasFrame(s) /\ s.cycle - s.first < Reach

LEMMA StaysTimely ==
  ASSUME NEW s, NEW t, Planned(s), Planned(t), Timely(s), Onward(s, t), t.cycle = s.cycle
  PROVE  Timely(t)
<1>1. PICK d \in Tokens : t.first = t.next[d]
  BY DEF Onward, Attained
<1>2. t.next[d] >= s.cycle \/ t.next[d] >= s.first
  BY <1>1 DEF Onward, Planned
<1>3. PICK r \in Int : r = Reach /\ r > 0
  BY Proportions
<1>4. s.cycle \in Int /\ s.first \in Int /\ t.first \in Int
  BY DEF Planned
<1>5. t.cycle - t.first < r
  BY <1>1, <1>2, <1>3, <1>4 DEF Timely
<1> QED BY <1>3, <1>5 DEF Timely, Onward

\* What the steps of the processor keep.
Punctual(s, t) ==
  /\ Attained(t) /\ Timely(t) /\ StaysAwake(s, t)
  /\ \A d \in {"Gpu", "InputDev"} : t.last[d] \in {s.last[d], s.cycle}

LEMMA OnwardIsPunctual ==
  ASSUME NEW s, NEW t, Planned(s), Planned(t), Timely(s), Onward(s, t), t.cycle = s.cycle
  PROVE  Punctual(s, t)
BY StaysTimely DEF Punctual, Onward

LEMMA OnwardTwice ==
  ASSUME NEW s, NEW t, NEW u, Onward(s, t), Onward(t, u), t.cycle = s.cycle
  PROVE  Onward(s, u)
<1>1. Attained(u) /\ HasFrame(u) /\ StaysAwake(s, u)
  BY DEF Onward, StaysAwake
<1>2. \A d \in Tokens : u.next[d] >= s.cycle \/ u.next[d] = s.next[d]
  BY DEF Onward
<1>3. \A d \in {"Gpu", "InputDev"} : u.last[d] \in {s.last[d], s.cycle}
  BY DEF Onward
<1> QED BY <1>1, <1>2, <1>3 DEF Onward

\* What is written to a device once it has run moves no date.
LEMMA OnwardStill ==
  ASSUME NEW s, NEW t, NEW u, Onward(s, t), u.next = t.next, u.last = t.last, u.first = t.first,
         u.wfi = t.wfi, u.gpu.frame = t.gpu.frame
  PROVE  Onward(s, u)
<1>1. Attained(u) /\ HasFrame(u) /\ StaysAwake(s, u)
  BY DEF Onward, Attained, HasFrame, StaysAwake
<1> QED BY <1>1 DEF Onward

\* A device that runs alone, and is not the GPU.
LEMMA OnwardAlone ==
  ASSUME NEW s, NEW t, NEW F, NEW who \in Tokens \ {"Gpu"}, DOMAIN s = Fields, HasFrame(s),
         Keeps(s, t, F), "gpu" \notin F, OthersKept(s, t, who), Attained(t), StaysAwake(s, t),
         t.next[who] >= s.cycle, who = "InputDev" => t.last[who] \in {s.last[who], s.cycle}
  PROVE  Onward(s, t)
<1>1. t.gpu = s.gpu
  BY DEF Keeps, Fields
<1>2. t.last["Gpu"] = s.last["Gpu"] /\ t.next["Gpu"] = s.next["Gpu"]
  BY DEF OthersKept, Tokens
<1>3. HasFrame(t)
  BY <1>1, <1>2 DEF HasFrame
<1>4. \A d \in Tokens : t.next[d] >= s.cycle \/ t.next[d] = s.next[d]
  BY DEF OthersKept
<1>5. \A d \in {"Gpu", "InputDev"} : t.last[d] \in {s.last[d], s.cycle}
  BY DEF OthersKept, Tokens
<1> QED BY <1>3, <1>4, <1>5 DEF Onward

LEMMA DoneAlone ==
  ASSUME NEW s, NEW t, NEW who, OthersKept(s, t, who), t.next[who] > s.cycle
  PROVE  Done(s, t, who)
BY DEF OthersKept, Done

-----------------------------------------------------------------------------
(* The interrupt lines *)

LEMMA TriggerTrapLemma ==
  ASSUME NEW s, DOMAIN s = Fields
  PROVE  Keeps(s, TriggerTrap(s), {"mie", "irqOn"}) /\ (~s.wfi => IrqSafe(TriggerTrap(s)))
BY DEF Keeps, Fields, TriggerTrap, SetMpie, IrqSafe

LEMMA CheckForIrqLemma ==
  ASSUME NEW s, DOMAIN s = Fields
  PROVE  /\ Keeps(s, CheckForIrq(s), {"mie", "irqOn", "wfi", "unchecked"}) /\ IrqSafe(CheckForIrq(s))
         /\ StaysAwake(s, CheckForIrq(s))
<1>1. Keeps(s, CheckForIrq(s), {"mie", "irqOn", "wfi", "unchecked"})
  BY DEF Keeps, Fields, CheckForIrq, TriggerTrap, SetMpie
<1>2. IrqSafe(CheckForIrq(s))
  BY DEF Fields, CheckForIrq, TriggerTrap, SetMpie, IrqSafe
<1>3. StaysAwake(s, CheckForIrq(s))
  BY DEF StaysAwake, Fields, CheckForIrq, TriggerTrap, SetMpie
<1> QED BY <1>1, <1>2, <1>3

\* A write to mie or mstatus.
LEMMA CsrAndOrLemma ==
  ASSUME NEW s, DOMAIN s = Fields, NEW u \in CsrAndOr(s)
  PROVE  Keeps(s, u, {"mie", "irqOn", "irqOnPrev"})
<1>1. CASE u \in {[s EXCEPT !.mie = S] : S \in SUBSET Lines}
  <2>1. PICK S \in SUBSET Lines : u = [s EXCEPT !.mie = S]
    BY <1>1
  <2> QED BY <2>1 DEF Keeps, Fields
<1>2. CASE u \in {[s EXCEPT !.irqOn = on[1], !.irqOnPrev = on[2]] : on \in BOOLEAN \X BOOLEAN}
  <2>1. PICK on \in BOOLEAN \X BOOLEAN : u = [s EXCEPT !.irqOn = on[1], !.irqOnPrev = on[2]]
    BY <1>2
  <2> QED BY <2>1 DEF Keeps, Fields
<1> QED BY <1>1, <1>2 DEF CsrAndOr

LEMMA SetLineLemma ==
  ASSUME NEW s, DOMAIN s = Fields, NEW line, NEW up \in BOOLEAN
  PROVE  LET t == SetLine(s, line, up)
         IN  /\ Keeps(s, t, Cpu) /\ (IrqSafe(s) => IrqSafe(t)) /\ StaysAwake(s, t)
             /\ t.mip = IF up THEN s.mip \cup {line} ELSE s.mip \ {line}
<1>1. CASE up <=> line \in s.mip
  BY <1>1 DEF SetLine, Keeps, StaysAwake
<1>2. CASE ~(up <=> line \in s.mip)
  <2> DEFINE u == [s EXCEPT !.mip = IF up THEN @ \cup {line} ELSE @ \ {line}]
  <2>1. SetLine(s, line, up) = CheckForIrq(u)
    BY <1>2 DEF SetLine
  <2>2. /\ DOMAIN u = Fields /\ Keeps(s, u, {"mip"})
        /\ u.mip = IF up THEN s.mip \cup {line} ELSE s.mip \ {line}
    BY DEF Keeps, Fields
  <2> HIDE DEF u
  <2>3. /\ CheckForIrq(u).mip = u.mip /\ Keeps(s, CheckForIrq(u), Cpu)
        /\ IrqSafe(CheckForIrq(u)) /\ StaysAwake(u, CheckForIrq(u)) /\ u.wfi = s.wfi
    BY <2>2, CheckForIrqLemma DEF Keeps, Cpu, Fields
  <2> QED BY <2>1, <2>2, <2>3 DEF StaysAwake
<1> QED BY <1>1, <1>2

\* The controller changes the lines of the processor, but never the timer's.
LEMMA RefreshCpuIrqLemma ==
  ASSUME NEW s, DOMAIN s = Fields
  PROVE  LET t == RefreshCpuIrq(s)
         IN  /\ Keeps(s, t, Cpu) /\ (IrqSafe(s) => IrqSafe(t)) /\ StaysAwake(s, t)
             /\ "MTI" \in t.mip <=> "MTI" \in s.mip
<1> DEFINE up == s.pending \cap s.enabled # {}
           t == SetLine(s, "MEI", up)
<1>1. up \in BOOLEAN
  OBVIOUS
<1>2. RefreshCpuIrq(s) = t
  BY DEF RefreshCpuIrq
<1> HIDE DEF up
<1>3. /\ Keeps(s, t, Cpu) /\ (IrqSafe(s) => IrqSafe(t)) /\ StaysAwake(s, t)
      /\ t.mip = IF up THEN s.mip \cup {"MEI"} ELSE s.mip \ {"MEI"}
  BY <1>1, SetLineLemma
<1>4. "MTI" \in t.mip <=> "MTI" \in s.mip
  BY <1>3
<1> QED BY <1>2, <1>3, <1>4

LEMMA IrqLemma ==
  ASSUME NEW s, DOMAIN s = Fields, IrqSafe(s), NEW P, NEW E
  PROVE  LET t == RefreshCpuIrq([s EXCEPT !.pending = P, !.enabled = E])
         IN  /\ Keeps(s, t, Cpu \cup {"pending", "enabled"}) /\ IrqSafe(t) /\ StaysAwake(s, t)
             /\ "MTI" \in t.mip <=> "MTI" \in s.mip
<1> DEFINE u == [s EXCEPT !.pending = P, !.enabled = E]
<1>1. /\ DOMAIN u = Fields /\ Keeps(s, u, {"pending", "enabled"}) /\ IrqSafe(u)
      /\ u.mip = s.mip /\ u.wfi = s.wfi
  BY DEF Keeps, Fields, IrqSafe
<1> HIDE DEF u
<1>2. Keeps(u, RefreshCpuIrq(u), Cpu) /\ IrqSafe(RefreshCpuIrq(u))
      /\ ("MTI" \in RefreshCpuIrq(u).mip <=> "MTI" \in u.mip)
      /\ StaysAwake(u, RefreshCpuIrq(u))
  BY <1>1, RefreshCpuIrqLemma
<1>3. Keeps(s, RefreshCpuIrq(u), Cpu \cup {"pending", "enabled"})
  BY <1>1, <1>2 DEF Keeps
<1> QED BY <1>1, <1>2, <1>3 DEF u, StaysAwake

LEMMA RaiseIrqLemma ==
  ASSUME NEW s, DOMAIN s = Fields, IrqSafe(s), NEW irq
  PROVE  LET t == RaiseIrq(s, irq)
         IN  /\ Keeps(s, t, Cpu \cup {"pending", "enabled"}) /\ IrqSafe(t) /\ StaysAwake(s, t)
             /\ "MTI" \in t.mip <=> "MTI" \in s.mip
<1>1. [s EXCEPT !.pending = @ \cup {irq}]
        = [s EXCEPT !.pending = s.pending \cup {irq}, !.enabled = s.enabled]
  BY DEF Fields
<1> QED BY <1>1, IrqLemma DEF RaiseIrq

-----------------------------------------------------------------------------
(* The synchronizer *)

LEMMA NextEventLemma ==
  ASSUME NEW s, DOMAIN s = Fields, Planned(s), NEW who \in Tokens, NEW delay \in Int
  PROVE  LET t == NextEvent(s, who, delay)
         IN  /\ Keeps(s, t, {"next", "first"}) /\ Planned(t) /\ OthersKept(s, t, who)
             /\ t.next[who] = s.last[who] + delay /\ Attained(t)
<1> DEFINE u == [s EXCEPT !.next[who] = s.last[who] + delay]
           t == RefreshFirstEvent(u)
           D == {u.next[d] : d \in Tokens}
<1>1. NextEvent(s, who, delay) = t
  BY DEF NextEvent
<1>2. /\ Keeps(s, u, {"next"}) /\ u.next \in [Tokens -> Int]
      /\ u.next[who] = s.last[who] + delay
      /\ \A d \in Tokens \ {who} : u.next[d] = s.next[d]
  <2>1. Keeps(s, u, {"next"}) /\ u.next = [s.next EXCEPT ![who] = s.last[who] + delay]
    BY DEF Keeps, Fields
  <2>2. s.last[who] + delay \in Int /\ s.next \in [Tokens -> Int]
    BY DEF Planned
  <2> HIDE DEF u
  <2> QED BY <2>1, <2>2
<1> HIDE DEF u
<1>3. Min(D) \in D /\ \A x \in D : Min(D) <= x
  <2>1. D \subseteq Int
    BY <1>2
  <2>2. D = {u.next["SysTimer"], u.next["Gpu"], u.next["Spu"], u.next["InputDev"], u.next["Dma"]}
    BY DEF Tokens
  <2>3. \E x \in D : \A y \in D : x <= y
    <3> DEFINE a == u.next["SysTimer"]
               b == IF u.next["Gpu"] <= a THEN u.next["Gpu"] ELSE a
               e == IF u.next["Spu"] <= b THEN u.next["Spu"] ELSE b
               f == IF u.next["InputDev"] <= e THEN u.next["InputDev"] ELSE e
               g == IF u.next["Dma"] <= f THEN u.next["Dma"] ELSE f
    <3>1. /\ a \in Int /\ u.next["Gpu"] \in Int /\ u.next["Spu"] \in Int
          /\ u.next["InputDev"] \in Int /\ u.next["Dma"] \in Int
      BY <1>2 DEF Tokens
    <3>2. g \in D /\ \A y \in D : g <= y
      BY <2>2, <3>1
    <3> QED BY <3>2
  <2> HIDE DEF D
  <2> QED BY <2>3 DEF Min
<1>4. Keeps(s, t, {"next", "first"}) /\ t.next = u.next /\ t.first = Min(D)
  BY <1>2 DEF RefreshFirstEvent, Keeps, Fields
<1>5. Min(D) \in Int /\ \A d \in Tokens : Min(D) <= u.next[d]
  BY <1>2, <1>3
<1>8. Attained(t)
  <2>1. \E d \in Tokens : Min(D) = u.next[d]
    BY <1>3
  <2> HIDE DEF D, t
  <2> QED BY <1>4, <2>1 DEF Attained
<1> HIDE DEF t, D
<1>6. t.cycle = s.cycle /\ t.base = s.base /\ t.last = s.last
  BY <1>4 DEF Keeps, Fields
<1>7. Planned(t)
  BY <1>2, <1>4, <1>5, <1>6 DEF Planned
<1> QED BY <1>1, <1>2, <1>4, <1>6, <1>7, <1>8 DEF OthersKept

\* Once who is brought up to date, and gives back some of its cycles.
LEMMA ResyncLemma ==
  ASSUME NEW s, DOMAIN s = Fields, Planned(s), NEW who \in Tokens
  PROVE  LET t == Resync(s, who)
             e == Elapsed(s, who)
         IN  /\ Keeps(s, t, {"last"}) /\ Planned(t) /\ OthersKept(s, t, who)
             /\ e \in Nat /\ t.last[who] = s.last[who] + e
             /\ e > 0 => t.last[who] = s.cycle
             /\ e = 0 => s.last[who] >= s.cycle
             /\ t.last[who] >= s.cycle /\ t.last[who] \in {s.last[who], s.cycle}
<1> DEFINE t == Resync(s, who)
           l == s.last[who]
<1>1. l \in Int /\ s.cycle \in Int /\ s.cycle - l \in Int
  BY DEF Planned
<1>2. Elapsed(s, who) = IF 0 >= s.cycle - l THEN 0 ELSE s.cycle - l
  BY <1>1, MaxOfTwo DEF Elapsed
<1>3. Keeps(s, t, {"last"}) /\ t.last = [s.last EXCEPT ![who] = Max({l, s.cycle})]
  BY DEF Resync, Keeps, Fields
<1>4. Max({l, s.cycle}) = IF l >= s.cycle THEN l ELSE s.cycle
  BY <1>1, MaxOfTwo
<1> HIDE DEF t
<1>5. /\ t.last \in [Tokens -> Int] /\ t.last[who] = Max({l, s.cycle})
      /\ \A d \in Tokens \ {who} : t.last[d] = s.last[d]
  BY <1>1, <1>3, <1>4 DEF Planned
<1>6. t.next = s.next /\ t.cycle = s.cycle /\ t.base = s.base /\ t.first = s.first
  BY <1>3 DEF Keeps, Fields
<1>7. Planned(t) /\ OthersKept(s, t, who)
  BY <1>5, <1>6 DEF Planned, OthersKept
<1> QED BY <1>1, <1>2, <1>3, <1>4, <1>5, <1>7 DEF t

LEMMA RewindLemma ==
  ASSUME NEW s, DOMAIN s = Fields, Planned(s), NEW who \in Tokens, NEW cycles \in Int
  PROVE  LET t == Rewind(s, who, cycles)
         IN  /\ Keeps(s, t, {"last"}) /\ Planned(t) /\ OthersKept(s, t, who)
             /\ t.last[who] = s.last[who] - cycles
<1> DEFINE t == Rewind(s, who, cycles)
<1>1. s.last[who] - cycles \in Int
  BY DEF Planned
<1>2. Keeps(s, t, {"last"}) /\ t.last = [s.last EXCEPT ![who] = s.last[who] - cycles]
  BY DEF Rewind, Keeps, Fields
<1> HIDE DEF t
<1>3. /\ t.last \in [Tokens -> Int] /\ t.last[who] = s.last[who] - cycles
      /\ \A d \in Tokens \ {who} : t.last[d] = s.last[d]
  BY <1>1, <1>2 DEF Planned
<1>4. t.next = s.next /\ t.cycle = s.cycle /\ t.base = s.base /\ t.first = s.first
  BY <1>2 DEF Keeps, Fields
<1>5. Planned(t) /\ OthersKept(s, t, who)
  BY <1>3, <1>4 DEF Planned, OthersKept
<1> QED BY <1>2, <1>3, <1>5 DEF t

LEMMA KeepsTwice ==
  ASSUME NEW s, NEW t, NEW u, NEW F, NEW G, Keeps(s, t, F), Keeps(t, u, G)
  PROVE  Keeps(s, u, F \cup G)
BY DEF Keeps

LEMMA OthersKeptTwice ==
  ASSUME NEW s, NEW t, NEW u, NEW who, OthersKept(s, t, who), OthersKept(t, u, who)
  PROVE  OthersKept(s, u, who)
BY DEF OthersKept

-----------------------------------------------------------------------------
(* An operation of one device keeps what is said of the others. *)

LEMMA TimerElsewhere ==
  ASSUME NEW s, NEW t, NEW c, NEW F, NEW who \in Tokens, DOMAIN s = Fields,
         Keeps(s, t, F), OthersKept(s, t, who), who # "SysTimer",
         {"mtime", "mtimecmp", "base"} \cap F = {}, "MTI" \in t.mip <=> "MTI" \in s.mip
  PROVE  /\ TimerKept(s, c) => TimerKept(t, c)
         /\ TimerArmed(s) => TimerArmed(t)
<1>1. t.mtime = s.mtime /\ t.mtimecmp = s.mtimecmp /\ t.base = s.base
  BY DEF Keeps, Fields
<1>2. t.last["SysTimer"] = s.last["SysTimer"] /\ t.next["SysTimer"] = s.next["SysTimer"]
  BY DEF OthersKept, Tokens
<1>3. TimerKept(s, c) => TimerKept(t, c)
  BY <1>1, <1>2 DEF TimerKept
<1>4. TimerArmed(s) => TimerArmed(t)
  BY <1>1, <1>2 DEF TimerArmed
<1> QED BY <1>3, <1>4

LEMMA SpuElsewhere ==
  ASSUME NEW s, NEW t, NEW c, NEW F, NEW who \in Tokens, DOMAIN s = Fields,
         Keeps(s, t, F), OthersKept(s, t, who), who # "Spu",
         {"samples", "spu", "base"} \cap F = {}, SpuKept(s, c)
  PROVE  SpuKept(t, c)
<1>1. t.samples = s.samples /\ t.spu = s.spu /\ t.base = s.base
  BY DEF Keeps, Fields
<1>2. t.last["Spu"] = s.last["Spu"]
  BY DEF OthersKept, Tokens
<1> QED BY <1>1, <1>2 DEF SpuKept, VoiceKept

LEMMA GpuElsewhere ==
  ASSUME NEW s, NEW t, NEW F, NEW who \in Tokens, DOMAIN s = Fields,
         Keeps(s, t, F), OthersKept(s, t, who), who # "Gpu",
         {"program", "frames", "gpu", "base"} \cap F = {}, GpuKept(s)
  PROVE  GpuKept(t)
<1>1. t.program = s.program /\ t.frames = s.frames /\ t.gpu = s.gpu /\ t.base = s.base
  BY DEF Keeps, Fields
<1>2. t.last["Gpu"] = s.last["Gpu"]
  BY DEF OthersKept, Tokens
<1> QED BY <1>1, <1>2 DEF GpuKept, FrameCycles

LEMMA InputElsewhere ==
  ASSUME NEW s, NEW t, NEW F, DOMAIN s = Fields, Keeps(s, t, F), "input" \notin F, InputKept(s)
  PROVE  InputKept(t)
<1>1. t.input = s.input
  BY DEF Keeps, Fields
<1> QED BY <1>1 DEF InputKept

LEMMA DmaElsewhere ==
  ASSUME NEW s, NEW t, NEW c, NEW F, NEW who \in Tokens, DOMAIN s = Fields,
         Keeps(s, t, F), OthersKept(s, t, who), who # "Dma",
         {"dma", "asked", "delivered", "done"} \cap F = {}, DmaKept(s, c)
  PROVE  DmaKept(t, c)
<1>1. /\ t.dma = s.dma /\ t.asked = s.asked /\ t.delivered = s.delivered
      /\ t.done = s.done
  BY DEF Keeps, Fields
<1>2. t.last["Dma"] = s.last["Dma"] /\ t.next["Dma"] = s.next["Dma"]
  BY DEF OthersKept, Tokens
<1> QED BY <1>1, <1>2 DEF DmaKept, DmaHolds, IsRunning

-----------------------------------------------------------------------------
(* The timer *)

LEMMA MtimeHzLemma == MtimeHz \in Int /\ MtimeHz >= 1
<1>1. PICK h \in Int : h = ClkDiv \div 2 /\ h >= 0
  BY ConstantsAreNat
<1>2. PICK n \in Int : n = CpuFreq + h /\ n >= ClkDiv
  BY <1>1, ConstantsAreNat, Proportions
<1>3. PICK q \in Int, r \in 0 .. ClkDiv - 1 : q = n \div ClkDiv /\ n = q * ClkDiv + r
  BY ConstantsAreNat, DivMod
<1>4. q >= 1
  <2> SUFFICES ASSUME q <= 0 PROVE FALSE
    OBVIOUS
  <2>1. q * ClkDiv <= 0
    BY ConstantsAreNat
  <2>2. PICK x \in Int : x = q * ClkDiv /\ x <= 0
    BY <2>1, ConstantsAreNat
  <2> QED BY <1>2, <1>3, <2>2, ConstantsAreNat
<1> QED BY <1>1, <1>2, <1>3, <1>4 DEF MtimeHz

LEMMA CheckTimerLemma ==
  ASSUME NEW s, NEW c \in Int, DOMAIN s = Fields, IrqSafe(s), Planned(s), TimerKept(s, c)
  PROVE  LET t == CheckTimer(s)
         IN  /\ Keeps(s, t, Cpu \cup {"next", "first"}) /\ OthersKept(s, t, "SysTimer")
             /\ IrqSafe(t) /\ Planned(t) /\ TimerKept(t, c) /\ TimerArmed(t)
             /\ Attained(t) /\ StaysAwake(s, t)
             /\ t.next["SysTimer"] >= s.last["SysTimer"] + ClkDiv
<1> DEFINE active == s.mtime >= s.mtimecmp
           u == SetLine(s, "MTI", active)
           delay == IF active THEN CpuFreq ELSE ClkDiv * Min({s.mtimecmp - s.mtime, MtimeHz})
           t == NextEvent(u, "SysTimer", delay)
<1>1. CheckTimer(s) = t
  BY DEF CheckTimer
<1>2. s.mtime \in Int /\ s.mtimecmp \in Int /\ s.mtimecmp - s.mtime \in Int
  BY DEF TimerKept
<1>3. /\ Keeps(s, u, Cpu) /\ IrqSafe(u) /\ StaysAwake(s, u)
      /\ u.mip = IF active THEN s.mip \cup {"MTI"} ELSE s.mip \ {"MTI"}
  <2>1. active \in BOOLEAN
    OBVIOUS
  <2> HIDE DEF active
  <2> QED BY <2>1, SetLineLemma
<1>4. delay \in Int /\ (~active => delay <= ClkDiv * (s.mtimecmp - s.mtime)) /\ delay >= ClkDiv
  <2>1. MtimeHz \in Int /\ MtimeHz >= 1
    BY MtimeHzLemma
  <2>2. PICK d \in Int : d = s.mtimecmp - s.mtime
    BY <1>2
  <2>3. PICK k \in Int : k = Min({d, MtimeHz}) /\ k <= d /\ (~active => k >= 1)
    BY <1>2, <2>1, <2>2, MinOfTwo
  <2>4. delay = IF active THEN CpuFreq ELSE ClkDiv * k
    BY <2>2, <2>3
  <2>5. ClkDiv * k <= ClkDiv * d /\ ClkDiv * k \in Int
    BY <2>3, ConstantsAreNat
  <2>6. k >= 1 => ClkDiv * k >= ClkDiv
    BY <2>3, ConstantsAreNat
  <2> HIDE DEF active, delay
  <2> QED BY <2>2, <2>3, <2>4, <2>5, <2>6, ConstantsAreNat, Proportions
<1> HIDE DEF u, delay
<1>5. DOMAIN u = Fields /\ Planned(u) /\ u.last = s.last /\ u.next = s.next
      /\ u.mtime = s.mtime /\ u.mtimecmp = s.mtimecmp /\ u.base = s.base
  BY <1>3 DEF Keeps, Fields, Cpu, Planned
<1>6. /\ Keeps(u, t, {"next", "first"}) /\ Planned(t) /\ OthersKept(u, t, "SysTimer")
      /\ t.next["SysTimer"] = u.last["SysTimer"] + delay /\ Attained(t)
  BY <1>4, <1>5, NextEventLemma DEF Tokens
<1> HIDE DEF t
<1>7. /\ t.last = s.last /\ t.mtime = s.mtime /\ t.mtimecmp = s.mtimecmp /\ t.base = s.base
      /\ t.mip = u.mip /\ t.mie = u.mie /\ t.irqOn = u.irqOn /\ t.wfi = u.wfi
      /\ t.unchecked = u.unchecked
  BY <1>5, <1>6 DEF Keeps, Fields
<1>8. Keeps(s, t, Cpu \cup {"next", "first"}) /\ OthersKept(s, t, "SysTimer")
  BY <1>3, <1>5, <1>6, KeepsTwice DEF OthersKept
<1>9. TimerArmed(t)
  <2>1. s.last["SysTimer"] \in Int
    BY DEF Planned, Tokens
  <2>2. t.mtime < t.mtimecmp => ~active
    BY <1>2, <1>7
  <2>3. t.next["SysTimer"] - t.last["SysTimer"] = delay
    BY <1>4, <1>5, <1>6, <1>7, <2>1
  <2>4. "MTI" \in t.mip <=> active
    BY <1>3, <1>7
  <2> QED BY <1>4, <1>7, <2>2, <2>3, <2>4 DEF TimerArmed
<1>10. IrqSafe(t) /\ TimerKept(t, c)
  BY <1>3, <1>7 DEF IrqSafe, TimerKept
<1>11. t.next["SysTimer"] >= s.last["SysTimer"] + ClkDiv
  <2>1. PICK l \in Int : l = s.last["SysTimer"]
    BY DEF Planned, Tokens
  <2>2. PICK d \in Int : d = delay /\ d >= ClkDiv
    BY <1>4
  <2> QED BY <1>5, <1>6, <2>1, <2>2, ConstantsAreNat
<1> QED BY <1>1, <1>3, <1>6, <1>7, <1>8, <1>9, <1>10, <1>11 DEF StaysAwake

LEMMA TimerRunLemma ==
  ASSUME NEW s, NEW c \in Int, DOMAIN s = Fields, IrqSafe(s), Planned(s), s.cycle <= c,
         TimerKept(s, c)
  PROVE  LET t == TimerRun(s)
         IN  /\ Keeps(s, t, Cpu \cup Dates \cup {"mtime"}) /\ OthersKept(s, t, "SysTimer")
             /\ IrqSafe(t) /\ Planned(t) /\ TimerKept(t, c) /\ TimerArmed(t)
             /\ Attained(t) /\ StaysAwake(s, t) /\ t.next["SysTimer"] > s.cycle
             /\ t.last["SysTimer"] \in Int /\ s.cycle < t.last["SysTimer"] + ClkDiv
<1> DEFINE e == Elapsed(s, "SysTimer")
           q == e \div ClkDiv
           u == [s EXCEPT !.mtime = @ + q]
           v == Resync(u, "SysTimer")
           w == Rewind(v, "SysTimer", e % ClkDiv)
<1>1. TimerRun(s) = CheckTimer(w)
  BY DEF TimerRun
<1>2. /\ DOMAIN u = Fields /\ Keeps(s, u, {"mtime"}) /\ u.mtime = s.mtime + q
      /\ Planned(u) /\ Elapsed(u, "SysTimer") = e /\ u.last = s.last /\ u.cycle = s.cycle
  BY DEF Keeps, Fields, Planned, Elapsed
<1>3. /\ Keeps(u, v, {"last"}) /\ Planned(v) /\ OthersKept(u, v, "SysTimer")
      /\ e \in Nat /\ v.last["SysTimer"] = s.last["SysTimer"] + e
      /\ e > 0 => v.last["SysTimer"] = s.cycle
      /\ e = 0 => s.last["SysTimer"] >= s.cycle
  <2> HIDE DEF u
  <2> QED BY <1>2, ResyncLemma DEF Tokens
<1>4. q \in Int /\ e % ClkDiv \in 0 .. ClkDiv - 1 /\ e = q * ClkDiv + (e % ClkDiv)
  <2> HIDE DEF e
  <2> QED BY <1>3, ConstantsAreNat, DivMod
<1>5. PICK r \in Int : r = e % ClkDiv /\ r >= 0 /\ r < ClkDiv /\ e = q * ClkDiv + r
  BY <1>4, ConstantsAreNat
<1>6. DOMAIN v = Fields /\ Keeps(s, v, {"mtime", "last"}) /\ v.mtime = s.mtime + q
  BY <1>2, <1>3 DEF Keeps, Fields
<1> HIDE DEF u, v, e, q
<1>7. /\ Keeps(v, w, {"last"}) /\ Planned(w) /\ OthersKept(v, w, "SysTimer")
      /\ w.last["SysTimer"] = v.last["SysTimer"] - r
  BY <1>3, <1>5, <1>6, RewindLemma DEF Tokens
<1> HIDE DEF w
<1>8. /\ DOMAIN w = Fields /\ Keeps(s, w, {"mtime", "last"}) /\ w.mtime = s.mtime + q
      /\ w.mtimecmp = s.mtimecmp /\ w.base = s.base /\ w.wfi = s.wfi
  BY <1>6, <1>7 DEF Keeps, Fields
<1>9. OthersKept(s, w, "SysTimer")
  BY <1>2, <1>3, <1>7, <1>6 DEF OthersKept, Keeps, Fields
<1>10. IrqSafe(w)
  BY <1>8 DEF Keeps, Fields, IrqSafe
<1>11. TimerKept(w, c)
  <2>1. PICK l \in Int : l = s.last["SysTimer"] /\ l <= c
    BY DEF Planned, Tokens, TimerKept
  <2>2. PICK x \in Int : x = s.mtime /\ x * ClkDiv = s.base + l
    BY <2>1 DEF TimerKept
  <2>3. s.base \in Int /\ s.mtimecmp \in Int /\ s.cycle \in Int
    BY DEF Planned, TimerKept
  <2>4. w.last["SysTimer"] = l + e - r
    <3>1. PICK k \in Int : k = v.last["SysTimer"] /\ k = l + e
      BY <1>3, <2>1
    <3>2. w.last["SysTimer"] = k - r
      BY <1>7, <3>1
    <3>3. e \in Int
      BY <1>3
    <3> QED BY <3>1, <3>2, <3>3
  <2>5. (x + q) * ClkDiv = s.base + (l + e - r)
    <3>1. (x + q) * ClkDiv = x * ClkDiv + q * ClkDiv
      BY <1>4, <2>2, ConstantsAreNat
    <3>2. q * ClkDiv \in Int /\ x * ClkDiv \in Int
      BY <1>4, <2>2, ConstantsAreNat
    <3> QED BY <1>3, <1>5, <2>1, <2>2, <2>3, <3>1, <3>2
  <2>6. l + e - r <= c
    BY <1>3, <1>5, <2>1, <2>3
  <2>7. x + q \in Int /\ w.mtime = x + q
    BY <1>4, <1>8, <2>2
  <2> QED BY <1>8, <2>3, <2>4, <2>5, <2>6, <2>7 DEF TimerKept
<1> DEFINE t == CheckTimer(w)
<1>12. /\ Keeps(w, t, Cpu \cup {"next", "first"}) /\ OthersKept(w, t, "SysTimer")
       /\ IrqSafe(t) /\ Planned(t) /\ TimerKept(t, c) /\ TimerArmed(t)
       /\ Attained(t) /\ StaysAwake(w, t) /\ t.next["SysTimer"] >= w.last["SysTimer"] + ClkDiv
  BY <1>7, <1>8, <1>10, <1>11, CheckTimerLemma
<1> HIDE DEF t
<1>13. Keeps(s, t, Cpu \cup Dates \cup {"mtime"}) /\ OthersKept(s, t, "SysTimer")
  BY <1>8, <1>9, <1>12, OthersKeptTwice DEF Keeps, Dates
<1>14. /\ t.next["SysTimer"] > s.cycle
       /\ t.last["SysTimer"] \in Int /\ s.cycle < t.last["SysTimer"] + ClkDiv
  <2>1. PICK x \in Int : x = v.last["SysTimer"] /\ x >= s.cycle
    <3>1. s.last["SysTimer"] \in Int /\ s.cycle \in Int /\ v.last["SysTimer"] \in Int
      BY <1>3 DEF Planned, Tokens
    <3> QED BY <1>3, <3>1
  <2>2. PICK n \in Int : n = t.next["SysTimer"]
    BY <1>12 DEF Planned, Tokens
  <2>3. n >= x - r + ClkDiv
    BY <1>7, <1>12, <2>1, <2>2
  <2>4. s.cycle \in Int
    BY DEF Planned
  <2>5. t.last = w.last
    BY <1>8, <1>12 DEF Keeps, Fields, Cpu
  <2> QED BY <1>5, <1>7, <2>1, <2>2, <2>3, <2>4, <2>5, ConstantsAreNat
<1> QED BY <1>1, <1>8, <1>12, <1>13, <1>14 DEF t, StaysAwake

\* A change of the timer only.
LEMMA TimerOnly ==
  ASSUME NEW s, NEW t, NEW c, Good(s, c),
         Keeps(s, t, Cpu \cup Dates \cup {"mtime", "mtimecmp"}), OthersKept(s, t, "SysTimer"),
         IrqSafe(t), Planned(t), TimerKept(t, c), TimerArmed(t)
  PROVE  Good(t, c)
<1> DEFINE F == Cpu \cup Dates \cup {"mtime", "mtimecmp"}
<1>1. {"samples", "spu", "program", "frames", "gpu", "base", "input",
       "dma", "asked", "delivered", "done"} \cap F = {}
  BY DEF Cpu, Dates
<1> HIDE DEF F
<1>2. DOMAIN t = Fields /\ DOMAIN s = Fields
  BY DEF Good, Keeps
<1>3. SpuKept(t, c)
  BY <1>1, <1>2, SpuElsewhere DEF Good, Tokens, F
<1>4. GpuKept(t)
  BY <1>1, <1>2, GpuElsewhere DEF Good, Tokens, F
<1>5. InputKept(t) /\ DmaKept(t, c)
  BY <1>1, <1>2, InputElsewhere, DmaElsewhere DEF Good, Tokens, F
<1> QED BY <1>2, <1>3, <1>4, <1>5 DEF Good

LEMMA TimerRunGood ==
  ASSUME NEW s, NEW c \in Int, Good(s, c), s.cycle <= c
  PROVE  Good(TimerRun(s), c) /\ Keeps(s, TimerRun(s), Cpu \cup Dates \cup {"mtime"})
<1>1. /\ Keeps(s, TimerRun(s), Cpu \cup Dates \cup {"mtime"})
      /\ OthersKept(s, TimerRun(s), "SysTimer")
      /\ IrqSafe(TimerRun(s)) /\ Planned(TimerRun(s)) /\ TimerKept(TimerRun(s), c)
      /\ TimerArmed(TimerRun(s))
  BY TimerRunLemma DEF Good
<1>2. Keeps(s, TimerRun(s), Cpu \cup Dates \cup {"mtime", "mtimecmp"})
  BY <1>1 DEF Keeps
<1> QED BY <1>1, <1>2, TimerOnly

LEMMA TimerStoreGood ==
  ASSUME NEW s, NEW c \in Int, Good(s, c), s.cycle <= c, NEW half, NEW v \in 0 .. Word - 1
  PROVE  /\ Good(TimerStore(s, half, v), c)
         /\ Keeps(s, TimerStore(s, half, v), Cpu \cup Dates \cup {"mtime", "mtimecmp"})
         /\ Timely(s) => Onward(s, TimerStore(s, half, v))
<1> DEFINE u == TimerRun(s)
           w == WriteHalf(u, half, v)
           t == CheckTimer(w)
<1>1. TimerStore(s, half, v) = t
  BY DEF TimerStore
<1>2. Good(u, c) /\ Keeps(s, u, Cpu \cup Dates \cup {"mtime"})
  BY TimerRunGood
<1>3. DOMAIN u = Fields /\ u.mtimecmp \in Int /\ TimerKept(u, c) /\ IrqSafe(u) /\ Planned(u)
  BY <1>2 DEF Good, TimerKept
<1> HIDE DEF u
<1>4. Keeps(u, w, {"mtimecmp"}) /\ w.mtimecmp \in Int
  <2> DEFINE low == u.mtimecmp % Word
             cmp == IF half = "low" THEN u.mtimecmp - low + v ELSE v * Word + low
  <2>1. low \in Int
    BY <1>3, ConstantsAreNat
  <2>2. w = [u EXCEPT !.mtimecmp = cmp]
    BY DEF WriteHalf
  <2>3. cmp \in Int
    <3> HIDE DEF low
    <3>1. v \in Int /\ Word \in Int /\ v * Word \in Int
      BY ConstantsAreNat
    <3> QED BY <1>3, <2>1, <3>1 DEF cmp
  <2> HIDE DEF cmp
  <2> QED BY <1>3, <2>2, <2>3 DEF Keeps, Fields
<1> HIDE DEF w
<1>5. /\ DOMAIN w = Fields /\ w.last = u.last /\ w.next = u.next /\ w.base = u.base
      /\ w.mtime = u.mtime /\ w.cycle = u.cycle /\ w.first = u.first
      /\ w.mip = u.mip /\ w.mie = u.mie /\ w.irqOn = u.irqOn /\ w.wfi = u.wfi
      /\ w.unchecked = u.unchecked
  BY <1>3, <1>4 DEF Keeps, Fields
<1>6. IrqSafe(w) /\ Planned(w) /\ TimerKept(w, c)
  BY <1>3, <1>4, <1>5 DEF IrqSafe, Planned, TimerKept
<1>7. /\ Keeps(w, t, Cpu \cup {"next", "first"}) /\ OthersKept(w, t, "SysTimer")
      /\ IrqSafe(t) /\ Planned(t) /\ TimerKept(t, c) /\ TimerArmed(t)
      /\ Attained(t) /\ StaysAwake(w, t) /\ t.next["SysTimer"] >= w.last["SysTimer"] + ClkDiv
  BY <1>5, <1>6, CheckTimerLemma
<1> HIDE DEF t
<1>8. Keeps(u, t, Cpu \cup Dates \cup {"mtime", "mtimecmp"})
  BY <1>4, <1>7 DEF Keeps, Dates
<1>9. OthersKept(u, t, "SysTimer")
  BY <1>5, <1>7 DEF OthersKept
<1>10. Good(t, c)
  BY <1>2, <1>7, <1>8, <1>9, TimerOnly
<1>11. Keeps(s, t, Cpu \cup Dates \cup {"mtime", "mtimecmp"})
  BY <1>2, <1>8 DEF Keeps
<1>12. ASSUME Timely(s) PROVE Onward(s, t)
  <2>1. /\ OthersKept(s, u, "SysTimer") /\ StaysAwake(s, u)
        /\ u.last["SysTimer"] \in Int /\ s.cycle < u.last["SysTimer"] + ClkDiv
    BY TimerRunLemma DEF Good, u
  <2>2. OthersKept(s, t, "SysTimer") /\ StaysAwake(s, t)
    BY <1>5, <1>7, <1>9, <2>1, OthersKeptTwice DEF StaysAwake
  <2>3. t.next["SysTimer"] >= s.cycle
    <3>1. t.next["SysTimer"] \in Int /\ s.cycle \in Int
      BY <1>7 DEF Good, Planned, Tokens
    <3>2. t.next["SysTimer"] >= u.last["SysTimer"] + ClkDiv
      BY <1>5, <1>7
    <3> QED BY <2>1, <3>1, <3>2, ConstantsAreNat
  <2> DEFINE F == Cpu \cup Dates \cup {"mtime", "mtimecmp"}
  <2>4. "gpu" \notin F /\ "SysTimer" \in Tokens \ {"Gpu"} /\ "SysTimer" # "InputDev"
    BY DEF Cpu, Dates, Tokens
  <2> HIDE DEF F
  <2>5. Keeps(s, t, F) /\ DOMAIN s = Fields /\ HasFrame(s)
    BY <1>11, <1>12 DEF F, Good, Timely
  <2> QED BY <1>7, <2>2, <2>3, <2>4, <2>5, OnwardAlone
<1> QED BY <1>1, <1>10, <1>11, <1>12

LEMMA TimerMovesOn ==
  ASSUME NEW s, NEW c \in Int, Good(s, c), s.cycle <= c, Timely(s)
  PROVE  Onward(s, TimerRun(s)) /\ Done(s, TimerRun(s), "SysTimer")
<1> DEFINE t == TimerRun(s)
           F == Cpu \cup Dates \cup {"mtime"}
<1>1. /\ Keeps(s, t, F) /\ OthersKept(s, t, "SysTimer") /\ Planned(t)
      /\ Attained(t) /\ StaysAwake(s, t) /\ t.next["SysTimer"] > s.cycle
  BY TimerRunLemma DEF Good
<1>2. "gpu" \notin F /\ "SysTimer" \in Tokens \ {"Gpu"} /\ "SysTimer" # "InputDev"
  BY DEF Cpu, Dates, Tokens
<1> HIDE DEF t, F
<1>3. t.next["SysTimer"] >= s.cycle
  BY <1>1 DEF Good, Planned, Tokens
<1>4. Onward(s, t)
  BY <1>1, <1>2, <1>3, OnwardAlone DEF Good, Timely
<1> QED BY <1>1, <1>4, DoneAlone DEF t

-----------------------------------------------------------------------------
(* The GPU: a command takes its time, and leaves the frame counter and the FIFO alone. *)

Took(g, h, n) ==
  /\ DOMAIN h = DOMAIN g /\ h.frame = g.frame /\ h.fifo = g.fifo
  /\ g.remaining \in Int => h.remaining = g.remaining + n

Durations == {0, TriangleCycles, MultiplyCycles, EndCycles}

LEMMA DurationsAreNat == Durations \subseteq Nat
BY ConstantsAreNat DEF Durations

LEMMA TookNone ==
  ASSUME NEW g, NEW h, NEW k, NEW n \in Nat, Took(g, h, 0), Took(h, k, n)
  PROVE  Took(g, k, n)
BY DEF Took

LEMMA TookThenNone ==
  ASSUME NEW g, NEW h, NEW k, NEW n \in Nat, Took(g, h, n), Took(h, k, 0)
  PROVE  Took(g, k, n)
BY DEF Took

LEMMA FlushLemma ==
  ASSUME NEW g, DOMAIN g = GpuFields
  PROVE  Took(g, Flush(g), 0) /\ Flush(g).remaining = g.remaining
<1>1. DOMAIN Flush(g) = DOMAIN g /\ Flush(g).frame = g.frame /\ Flush(g).fifo = g.fifo
  BY DEF Flush, GpuFields
<1>2. Flush(g).remaining = g.remaining
  BY DEF Flush, GpuFields
<1> QED BY <1>1, <1>2 DEF Took

LEMMA DrawTriangleLemma ==
  ASSUME NEW g, DOMAIN g = GpuFields
  PROVE  \E n \in {0, TriangleCycles} : Took(g, DrawTriangle(g), n)
<1>1. \A h : DOMAIN h = GpuFields => Took(h, AddMatrix(h), 0)
  BY DEF Took, AddMatrix, GpuFields
<1>2. Took(g, PlaceMatrix(g), 0)
  <2>1. Took(g, AddMatrix(g), 0)
    BY <1>1
  <2>2. DOMAIN Flush(g) = GpuFields /\ Took(g, Flush(g), 0)
    BY FlushLemma DEF Took
  <2>3. Took(Flush(g), AddMatrix(Flush(g)), 0)
    BY <1>1, <2>2
  <2>4. Took(g, AddMatrix(Flush(g)), 0)
    BY <2>2, <2>3, TookNone
  <2>5. Took(g, g, 0)
    BY DEF Took
  <2> QED BY <2>1, <2>4, <2>5 DEF PlaceMatrix
<1> DEFINE p == PlaceMatrix(g)
<1>3. DOMAIN p = GpuFields
  BY <1>2 DEF Took
<1> HIDE DEF p
<1>4. Took(p, AddTriangle(p), TriangleCycles)
  BY <1>3 DEF Took, AddTriangle, GpuFields
<1> DEFINE a == AddTriangle(p)
<1>5. DOMAIN a = GpuFields
  BY <1>3, <1>4 DEF Took
<1> HIDE DEF a
<1>6. Took(a, FlushIfFull(a), 0)
  BY <1>5, FlushLemma DEF FlushIfFull, Took
<1>7. Took(g, FlushIfFull(a), TriangleCycles)
  <2>1. Took(p, a, TriangleCycles)
    BY <1>4 DEF a
  <2>2. Took(p, FlushIfFull(a), TriangleCycles)
    BY <1>6, <2>1, TookThenNone, ConstantsAreNat
  <2> QED BY <1>2, <2>2, TookNone, ConstantsAreNat DEF p
<1>8. Took(g, g, 0)
  BY DEF Took
<1> QED BY <1>7, <1>8 DEF DrawTriangle, a, p

LEMMA HandleNewCommandLemma ==
  ASSUME NEW g, DOMAIN g = GpuFields, NEW w
  PROVE  \E n \in Durations : Took(g, HandleNewCommand(g, w), n)
<1> DEFINE Ok(h) == \E n \in Durations : Took(g, h, n)
<1>0. \A h : Took(g, h, 0) \/ Took(g, h, TriangleCycles) \/ Took(g, h, MultiplyCycles)
               \/ Took(g, h, EndCycles) => Ok(h)
  BY DEF Durations
<1> HIDE DEF Ok
<1>1. \A s : Ok([g EXCEPT !.state = s])
  <2>1. \A s : Took(g, [g EXCEPT !.state = s], 0)
    BY DEF Took, GpuFields
  <2> QED BY <1>0, <2>1
<1>2. Ok(g)
  BY <1>0 DEF Took
<1>3. Ok([g EXCEPT !.drawing = TRUE])
  <2>1. Took(g, [g EXCEPT !.drawing = TRUE], 0)
    BY DEF Took, GpuFields
  <2> QED BY <1>0, <2>1
<1>4. Ok([g EXCEPT !.drawMat = w[2]])
  <2>1. Took(g, [g EXCEPT !.drawMat = w[2]], 0)
    BY DEF Took, GpuFields
  <2> QED BY <1>0, <2>1
<1>5. Ok([g EXCEPT !.mat[w[2]] = Identity])
  <2>1. Took(g, [g EXCEPT !.mat[w[2]] = Identity], 0)
    BY DEF Took, GpuFields
  <2> QED BY <1>0, <2>1
<1>6. Ok([Flush(g) EXCEPT !.drawing = FALSE, !.remaining = @ + EndCycles])
  <2> DEFINE f == Flush(g)
  <2>1. DOMAIN f = GpuFields /\ Took(g, f, 0)
    BY FlushLemma DEF Took
  <2> HIDE DEF f
  <2>2. Took(f, [f EXCEPT !.drawing = FALSE, !.remaining = @ + EndCycles], EndCycles)
    BY <2>1 DEF Took, GpuFields
  <2>3. Took(g, [f EXCEPT !.drawing = FALSE, !.remaining = @ + EndCycles], EndCycles)
    BY <2>1, <2>2, TookNone, ConstantsAreNat
  <2> QED BY <1>0, <2>3 DEF f
<1>7. Ok(Multiply(g, w[2], w[3], w[4]))
  <2>1. Took(g, Multiply(g, w[2], w[3], w[4]), MultiplyCycles)
    BY DEF Took, Multiply, GpuFields
  <2> QED BY <1>0, <2>1
<1>8. Ok([g EXCEPT !.vert = [v \in 0 .. 2 |-> [@[v] EXCEPT !.col = w[3]]],
                   !.state = <<"Z", 0, w[2]>>])
  <2>1. \A x : Took(g, [g EXCEPT !.vert = x, !.state = <<"Z", 0, w[2]>>], 0)
    BY DEF Took, GpuFields
  <2>2. \A x : Ok([g EXCEPT !.vert = x, !.state = <<"Z", 0, w[2]>>])
    BY <1>0, <2>1
  <2> QED BY <2>2
<1>9. Ok(HandleNewCommand(g, w))
  BY <1>1, <1>2, <1>3, <1>4, <1>5, <1>6, <1>7, <1>8, Zenon DEF HandleNewCommand, Lost
<1> QED BY <1>9 DEF Ok

LEMMA HandleCommandLemma ==
  ASSUME NEW g, DOMAIN g = GpuFields, NEW w
  PROVE  \E n \in Durations : Took(g, HandleCommand(g, w), n)
<1> DEFINE Ok(h) == \E n \in Durations : Took(g, h, n)
<1>0. \A h : Took(g, h, 0) \/ Took(g, h, TriangleCycles) => Ok(h)
  BY DEF Durations
<1> HIDE DEF Ok
<1>1. \A s : Ok([g EXCEPT !.state = s])
  <2>1. \A s : Took(g, [g EXCEPT !.state = s], 0)
    BY DEF Took, GpuFields
  <2> QED BY <1>0, <2>1
<1>2. \A i, p, v : Ok([SetComponent(g, i, p, v) EXCEPT !.state = Idle])
  <2> SUFFICES ASSUME NEW i, NEW p, NEW v
               PROVE  Ok([SetComponent(g, i, p, v) EXCEPT !.state = Idle])
    OBVIOUS
  <2> DEFINE f == SetComponent(g, i, p, v)
  <2>1. Took(g, f, 0)
    <3>1. Took(g, [g EXCEPT !.mat[i][p] = v, !.lut[i] = 0], 0)
      BY DEF Took, GpuFields
    <3>2. Took(g, g, 0)
      BY DEF Took
    <3> QED BY <3>1, <3>2 DEF SetComponent
  <2>2. DOMAIN f = GpuFields
    BY <2>1 DEF Took
  <2> HIDE DEF f
  <2>3. Took(f, [f EXCEPT !.state = Idle], 0)
    BY <2>2 DEF Took, GpuFields
  <2>4. Took(g, [f EXCEPT !.state = Idle], 0)
    BY <2>1, <2>3, TookNone
  <2> QED BY <1>0, <2>4 DEF f
<1>3. \A i, x, s : Ok([g EXCEPT !.vert[i].col = x, !.state = s])
  <2>1. \A i, x, s : Took(g, [g EXCEPT !.vert[i].col = x, !.state = s], 0)
    BY DEF Took, GpuFields
  <2> QED BY <1>0, <2>1
<1>4. \A i, x, s : Ok([g EXCEPT !.vert[i].z = x, !.state = s])
  <2>1. \A i, x, s : Took(g, [g EXCEPT !.vert[i].z = x, !.state = s], 0)
    BY DEF Took, GpuFields
  <2> QED BY <1>0, <2>1
<1>5. \A i, x, v, b : Ok(NextVertex([g EXCEPT !.vert[i].yx = x], v, b))
  <2> SUFFICES ASSUME NEW i, NEW x, NEW v, NEW b
               PROVE  Ok(NextVertex([g EXCEPT !.vert[i].yx = x], v, b))
    OBVIOUS
  <2> DEFINE f == [g EXCEPT !.vert[i].yx = x]
             d == DrawTriangle(f)
             Drew(h) == \E n \in {0, TriangleCycles} : Took(f, h, n)
  <2>1. Took(g, f, 0) /\ DOMAIN f = GpuFields
    BY DEF Took, GpuFields
  <2> HIDE DEF f
  <2>2. PICK n \in {0, TriangleCycles} : Took(f, d, n) /\ DOMAIN d = GpuFields
    BY <2>1, DrawTriangleLemma DEF Took
  <2> HIDE DEF d
  <2>3. \A h, s : DOMAIN h = GpuFields => Took(h, [h EXCEPT !.state = s], 0)
    BY DEF Took, GpuFields
  <2>4. Took(f, [d EXCEPT !.state = Idle], n)
    <3>1. Took(d, [d EXCEPT !.state = Idle], 0)
      BY <2>2, <2>3
    <3> QED BY <2>2, <3>1, TookThenNone, ConstantsAreNat
  <2>5. \A s : Drew([f EXCEPT !.state = s]) /\ Drew([d EXCEPT !.state = Idle])
    BY <2>1, <2>2, <2>3, <2>4
  <2> HIDE DEF Drew
  <2>6. Drew(NextVertex(f, v, b))
    BY <2>5, Zenon DEF NextVertex, d
  <2>7. PICK k \in {0, TriangleCycles} : Took(f, NextVertex(f, v, b), k)
    BY <2>6 DEF Drew
  <2>8. Took(g, NextVertex(f, v, b), k)
    BY <2>1, <2>7, TookNone, ConstantsAreNat
  <2> QED BY <1>0, <2>8 DEF f
<1>6. Ok(HandleNewCommand(g, w))
  BY HandleNewCommandLemma DEF Ok
<1>7. Ok(HandleCommand(g, w))
  BY <1>1, <1>2, <1>3, <1>4, <1>5, <1>6, Zenon DEF HandleCommand, Lost
<1> QED BY <1>7 DEF Ok

\* The longest of the delays of a transfer.
LEMMA PatienceLemma ==
  /\ DmaPatience \in {DmaStart, DmaPoll, 1 + TriangleCycles, 1 + MultiplyCycles, 1 + EndCycles}
  /\ DmaPatience \in Nat /\ DmaStart <= DmaPatience /\ DmaPoll <= DmaPatience
  /\ \A d \in Durations : 1 + d <= DmaPatience
<1> DEFINE D == {DmaStart, DmaPoll, 1 + TriangleCycles, 1 + MultiplyCycles, 1 + EndCycles}
           a == IF DmaStart >= DmaPoll THEN DmaStart ELSE DmaPoll
           b == IF 1 + TriangleCycles >= a THEN 1 + TriangleCycles ELSE a
           e == IF 1 + MultiplyCycles >= b THEN 1 + MultiplyCycles ELSE b
           f == IF 1 + EndCycles >= e THEN 1 + EndCycles ELSE e
<1>1. f \in D /\ \A y \in D : f >= y
  BY ConstantsAreNat
<1>2. D \subseteq Nat
  BY ConstantsAreNat
<1>3. DmaPatience \in D /\ \A y \in D : DmaPatience >= y
  <2> HIDE DEF D, f
  <2>1. DmaPatience = Max(D)
    BY DEF DmaPatience, D
  <2> QED BY <1>1, <2>1 DEF Max
<1>4. 1 + 0 <= DmaPatience
  BY <1>2, <1>3, ConstantsAreNat
<1> QED BY <1>2, <1>3, <1>4 DEF Durations

\* No transfer is left alone for as long as the idle period.
LEMMA PatienceFits == DmaPatience + Reach <= CpuFreq
<1> DEFINE D == {DmaStart, DmaPoll, 1 + TriangleCycles, 1 + MultiplyCycles, 1 + EndCycles}
<1>1. \A t \in Ticks : \A d \in D : d + t <= CpuFreq
  BY MachineAssumption, Zenon DEF MachineAssumption
<1>2. DmaPatience \in D
  BY PatienceLemma
<1> HIDE DEF D
<1>3. Reach \in Ticks
  BY Proportions
<1> QED BY <1>1, <1>2, <1>3

\* One command leaves the FIFO, or none.
LEMMA ExecuteNextLemma ==
  ASSUME NEW g, GpuTyped(g), NEW n \in Nat, Len(g.fifo) > n
  PROVE  /\ GpuTyped(ExecuteNext(g)) /\ Len(ExecuteNext(g).fifo) >= n
         /\ ExecuteNext(g).frame = g.frame
<1>1. CASE g.remaining > 0
  <2>1. Len(g.fifo) \in Nat
    BY LenOfSeq DEF GpuTyped
  <2> QED BY <1>1, <2>1 DEF ExecuteNext
<1>2. CASE ~(g.remaining > 0)
  <2> DEFINE f == [g EXCEPT !.remaining = @ + 1, !.fifo = Tail(@)]
             h == HandleCommand(f, Head(g.fifo))
  <2>1. ExecuteNext(g) = h
    BY <1>2 DEF ExecuteNext
  <2>2. Len(g.fifo) \in Nat /\ g.fifo # <<>>
    <3>1. Len(g.fifo) \in Nat
      BY LenOfSeq DEF GpuTyped
    <3>2. Len(<<>>) = 0
      OBVIOUS
    <3> QED BY <3>1, <3>2
  <2>3. IsSeq(Tail(g.fifo)) /\ Len(Tail(g.fifo)) = Len(g.fifo) - 1
    BY <2>2, TailIsSeq DEF GpuTyped
  <2>4. /\ DOMAIN f = GpuFields /\ f.fifo = Tail(g.fifo) /\ f.frame = g.frame
        /\ f.remaining = g.remaining + 1
    BY DEF GpuTyped, GpuFields
  <2>5. f.remaining \in Int
    BY <2>4 DEF GpuTyped
  <2> HIDE DEF f
  <2>6. PICK d \in Durations : Took(f, h, d)
    BY <2>4, HandleCommandLemma
  <2> HIDE DEF h
  <2>7. DOMAIN h = GpuFields /\ h.fifo = Tail(g.fifo) /\ h.frame = g.frame /\ h.remaining = f.remaining + d
    BY <2>4, <2>5, <2>6 DEF Took
  <2>9. h.remaining \in Int /\ h.remaining <= DmaPatience
    <3>1. d \in Nat /\ 1 + d <= DmaPatience /\ DmaPatience \in Nat
      BY PatienceLemma, ConstantsAreNat DEF Durations
    <3>2. PICK a \in Int : a = g.remaining /\ a <= 0
      BY <1>2 DEF GpuTyped
    <3>3. h.remaining = (a + 1) + d
      BY <2>4, <2>7, <3>2
    <3> QED BY <3>1, <3>2, <3>3
  <2>8. Len(g.fifo) - 1 <= FifoSize /\ Len(g.fifo) - 1 >= n
    BY <2>2, ConstantsAreNat DEF GpuTyped
  <2> QED BY <2>1, <2>3, <2>7, <2>8, <2>9 DEF GpuTyped
<1> QED BY <1>1, <1>2

LEMMA ExecuteLemma ==
  ASSUME NEW g, GpuTyped(g)
  PROVE  GpuTyped(Execute(g)) /\ Execute(g).frame = g.frame
<1> DEFINE k == Len(g.fifo)
           Body(f, b) == [n \in 0 .. b |-> IF n = 0 THEN g ELSE ExecuteNext(f[n - 1])]
<1>1. k \in Nat
  BY LenOfSeq DEF GpuTyped
<1> HIDE DEF k
<1>2. \E f : f = Body(f, k)
  <2> DEFINE T == {b \in Nat : ~\E f : f = Body(f, b)}
  <2>1. SUFFICES T = {}
    BY <1>1
  <2>2. SUFFICES ASSUME T # {} PROVE FALSE
    OBVIOUS
  <2>3. PICK b \in T : \A y \in T : b <= y
    BY <2>2, Smallest
  <2>4. b # 0
    <3>1. SUFFICES ASSUME b = 0 PROVE FALSE
      OBVIOUS
    <3>2. [n \in 0 .. 0 |-> g] = Body([n \in 0 .. 0 |-> g], 0)
      OBVIOUS
    <3> QED BY <2>3, <3>1, <3>2
  <2>5. b - 1 \in Nat /\ b - 1 \notin T
    <3>1. b \in Nat
      BY <2>3
    <3> HIDE DEF T
    <3> QED BY <2>3, <2>4, <3>1
  <2>6. PICK f : f = Body(f, b - 1)
    BY <2>5
  <2> DEFINE h == [n \in 0 .. b |-> IF n = b THEN ExecuteNext(f[b - 1]) ELSE f[n]]
  <2>7. h = Body(h, b)
    <3>1. ASSUME NEW n \in 0 .. b
          PROVE  h[n] = IF n = 0 THEN g ELSE ExecuteNext(h[n - 1])
      <4>1. CASE n = b
        <5>1. b - 1 \in 0 .. b /\ b - 1 # b /\ h[b - 1] = f[b - 1]
          BY <2>5
        <5> QED BY <2>4, <4>1, <5>1
      <4>2. CASE n # b
        <5>1. n \in 0 .. b - 1 /\ h[n] = f[n]
          BY <2>3, <4>2
        <5>2. f[n] = IF n = 0 THEN g ELSE ExecuteNext(f[n - 1])
          BY <2>6, <5>1
        <5>3. n # 0 => n - 1 \in 0 .. b /\ n - 1 # b /\ h[n - 1] = f[n - 1]
          BY <2>3, <5>1
        <5> QED BY <5>1, <5>2, <5>3
      <4> QED BY <4>1, <4>2
    <3> QED BY <3>1
  <2> QED BY <2>3, <2>7
<1> DEFINE after == CHOOSE f : f = Body(f, k)
<1>3. after = Body(after, k)
  BY <1>2
<1>4. Execute(g) = after[k]
  BY DEF Execute, k
<1> HIDE DEF after
<1>5. after[0] = g /\ \A n \in 1 .. k : after[n] = ExecuteNext(after[n - 1])
  BY <1>1, <1>3
<1> DEFINE Well(n) == /\ GpuTyped(after[n]) /\ Len(after[n].fifo) >= k - n
                      /\ after[n].frame = g.frame
           T == {n \in 0 .. k : ~Well(n)}
<1>6. T = {}
  <2>1. SUFFICES ASSUME T # {} PROVE FALSE
    OBVIOUS
  <2>2. PICK n \in T : \A y \in T : n <= y
    <3>1. T \subseteq Nat
      OBVIOUS
    <3> HIDE DEF T
    <3> QED BY <2>1, <3>1, Smallest
  <2>3. Well(0)
    BY <1>1, <1>5 DEF k
  <2>4. n \in 1 .. k /\ n - 1 \in 0 .. k /\ n - 1 \notin T
    BY <1>1, <2>2, <2>3
  <2>5. Well(n - 1)
    BY <2>4
  <2>6. k - n \in Nat /\ Len(after[n - 1].fifo) > k - n
    <3>1. Len(after[n - 1].fifo) \in Nat
      BY <2>5, LenOfSeq DEF GpuTyped
    <3> QED BY <1>1, <2>4, <2>5, <3>1
  <2>7. Well(n)
    BY <1>5, <2>4, <2>5, <2>6, ExecuteNextLemma
  <2> QED BY <2>2, <2>7
<1>7. Well(k)
  BY <1>1, <1>6
<1> QED BY <1>4, <1>7

Irq == Cpu \cup {"pending", "enabled"}

\* The end of a frame, which gives the counter the length of the next one.
LEMMA FrameLemma ==
  ASSUME NEW s, DOMAIN s = Fields, IrqSafe(s), GpuTyped(s.gpu), s.program \in Programs,
         s.frames \in Int
  PROVE  LET t == Frame(s)
         IN  /\ Keeps(s, t, Irq \cup {"gpu", "frames", "frameDone"}) /\ IrqSafe(t)
             /\ "MTI" \in t.mip <=> "MTI" \in s.mip
             /\ GpuTyped(t.gpu) /\ t.frames \in Int
             /\ (t.frames + 1) * FrameCycles(s) - t.gpu.frame
                  = (s.frames + 1) * FrameCycles(s) - s.gpu.frame
             /\ StaysAwake(s, t) /\ t.gpu.remaining = s.gpu.remaining
             /\ s.gpu.frame + FrameCycles(s) > 0 => t.gpu.frame > 0
<1> DEFINE F == FrameCycles(s)
<1>1. F \in Int
  BY ProgramFacts DEF FrameCycles
<1> HIDE DEF F
<1>2. CASE s.gpu.frame > 0
  BY <1>2 DEF Frame, Keeps, StaysAwake
<1>3. CASE ~(s.gpu.frame > 0)
  <2> DEFINE f == Flush(s.gpu)
             g == [f EXCEPT !.frame = @ + F]
             u == [s EXCEPT !.frameDone = TRUE, !.frames = @ + 1,
                            !.gpu = [Flush(s.gpu) EXCEPT !.frame = @ + FrameCycles(s)]]
             t == RaiseIrq(u, "VSync")
  <2>1. Frame(s) = t
    BY <1>3 DEF Frame
  <2>10. DOMAIN u = DOMAIN s /\ u.gpu = g /\ u.frames = s.frames + 1
         /\ \A x \in Fields \ {"gpu", "frames", "frameDone"} : u[x] = s[x]
    <3>1. DOMAIN u = DOMAIN s /\ u.frames = s.frames + 1
          /\ \A x \in Fields \ {"gpu", "frames", "frameDone"} : u[x] = s[x]
      BY DEF Fields
    <3>2. u.gpu = [Flush(s.gpu) EXCEPT !.frame = @ + FrameCycles(s)]
      BY DEF Fields
    <3> QED BY <3>1, <3>2 DEF F
  <2> HIDE DEF u
  <2>2. Took(s.gpu, f, 0) /\ f.remaining = s.gpu.remaining
    BY FlushLemma DEF GpuTyped
  <2> HIDE DEF f
  <2>3. /\ DOMAIN f = GpuFields /\ f.frame = s.gpu.frame /\ f.fifo = s.gpu.fifo
        /\ f.frame \in Int /\ f.remaining \in Int /\ f.remaining <= DmaPatience
    BY <2>2 DEF Took, GpuTyped
  <2>4. g.frame = s.gpu.frame + F /\ GpuTyped(g) /\ g.remaining = s.gpu.remaining
    BY <1>1, <2>2, <2>3 DEF GpuTyped, GpuFields
  <2> HIDE DEF g
  <2>5. /\ DOMAIN u = Fields /\ Keeps(s, u, {"gpu", "frames", "frameDone"})
        /\ u.gpu = g /\ u.frames = s.frames + 1 /\ u.mip = s.mip /\ IrqSafe(u) /\ u.wfi = s.wfi
    BY <2>10 DEF Keeps, Fields, IrqSafe
  <2>6. /\ Keeps(u, t, Irq) /\ IrqSafe(t) /\ ("MTI" \in t.mip <=> "MTI" \in u.mip)
        /\ StaysAwake(u, t)
    BY <2>5, RaiseIrqLemma DEF Irq
  <2> HIDE DEF t
  <2>7. /\ Keeps(s, t, Irq \cup {"gpu", "frames", "frameDone"})
        /\ t.gpu = g /\ t.frames = s.frames + 1
    BY <2>5, <2>6 DEF Keeps, Fields, Irq, Cpu
  <2>8. ((s.frames + 1) + 1) * F - (s.gpu.frame + F) = (s.frames + 1) * F - s.gpu.frame
    <3>1. PICK x \in Int, y \in Int : x = s.frames + 1 /\ y = s.gpu.frame
      BY DEF GpuTyped
    <3>2. (x + 1) * F - (y + F) = x * F - y
      BY <1>1, <3>1
    <3> QED BY <3>1, <3>2
  <2>9. t.frames \in Int /\ (t.frames + 1) * F - t.gpu.frame = (s.frames + 1) * F - s.gpu.frame
    BY <2>4, <2>7, <2>8
  <2>11. StaysAwake(s, t)
    BY <2>5, <2>6 DEF StaysAwake
  <2> QED BY <2>1, <2>4, <2>5, <2>6, <2>7, <2>9, <2>11 DEF F
<1> QED BY <1>2, <1>3

LEMMA GpuRunLemma ==
  ASSUME NEW s, DOMAIN s = Fields, IrqSafe(s), Planned(s), GpuKept(s)
  PROVE  LET t == GpuRun(s)
         IN  /\ Keeps(s, t, Irq \cup Dates \cup {"gpu", "frames", "frameDone"})
             /\ OthersKept(s, t, "Gpu") /\ IrqSafe(t) /\ Planned(t) /\ GpuKept(t)
             /\ "MTI" \in t.mip <=> "MTI" \in s.mip
             /\ Attained(t) /\ StaysAwake(s, t) /\ t.gpu.remaining >= 0
             /\ t.next["Gpu"] = t.last["Gpu"] + t.gpu.frame
             /\ t.last["Gpu"] >= s.cycle /\ t.last["Gpu"] \in {s.last["Gpu"], s.cycle}
             /\ Elapsed(s, "Gpu") < s.gpu.frame + FrameCycles(s) => t.gpu.frame > 0
<1> DEFINE e == Elapsed(s, "Gpu")
           r == Resync(s, "Gpu")
           b == [s.gpu EXCEPT !.frame = @ - e, !.remaining = @ - e]
           x == Execute(b)
           g == StallOnInput(x)
           u == [r EXCEPT !.gpu = g]
           v == Frame(u)
           t == NextEvent(v, "Gpu", v.gpu.frame)
           F == FrameCycles(s)
<1>1. /\ Keeps(s, r, {"last"}) /\ Planned(r) /\ OthersKept(s, r, "Gpu")
      /\ e \in Nat /\ r.last["Gpu"] = s.last["Gpu"] + e
      /\ r.last["Gpu"] >= s.cycle /\ r.last["Gpu"] \in {s.last["Gpu"], s.cycle}
  BY ResyncLemma DEF Tokens
<1>2. DOMAIN r = Fields /\ r.gpu = s.gpu
  BY <1>1 DEF Keeps, Fields
<1>3. GpuRun(s) = t
  BY <1>2 DEF GpuRun, PlanFrame, ExecuteFor
<1> HIDE DEF e, r
<1>4. GpuTyped(b) /\ b.frame = s.gpu.frame - e
  <2>1. s.gpu.remaining - e <= DmaPatience
    BY <1>1, PatienceLemma DEF GpuKept, GpuTyped
  <2> QED BY <1>1, <2>1 DEF GpuKept, GpuTyped, GpuFields
<1> HIDE DEF b
<1>5. GpuTyped(x) /\ x.frame = b.frame
  BY <1>4, ExecuteLemma
<1> HIDE DEF x
<1>6. GpuTyped(g) /\ g.frame = s.gpu.frame - e
  <2>1. PICK k \in Int : k = Max({0, x.remaining}) /\ k <= DmaPatience
    BY <1>5, MaxOfTwo, PatienceLemma DEF GpuTyped
  <2>2. g = [x EXCEPT !.remaining = k]
    BY <2>1 DEF StallOnInput
  <2> HIDE DEF g
  <2>3. DOMAIN g = GpuFields /\ g.remaining = k /\ g.frame = x.frame /\ g.fifo = x.fifo
    BY <1>5, <2>2 DEF GpuTyped, GpuFields
  <2> QED BY <1>4, <1>5, <2>1, <2>3 DEF GpuTyped
<1>18. g.remaining >= 0
  <2>1. PICK k \in Int : k = Max({0, x.remaining}) /\ k >= 0
    BY <1>5, MaxOfTwo DEF GpuTyped
  <2>2. g = [x EXCEPT !.remaining = k]
    BY <2>1 DEF StallOnInput
  <2> QED BY <1>5, <2>1, <2>2 DEF GpuTyped, GpuFields
<1> HIDE DEF g
<1>7. /\ DOMAIN u = Fields /\ Keeps(s, u, {"last", "gpu"}) /\ u.gpu = g /\ u.last = r.last
      /\ u.next = r.next /\ u.first = r.first /\ u.cycle = r.cycle /\ u.base = r.base
  BY <1>1, <1>2 DEF Keeps, Fields
<1> HIDE DEF u
<1>8. /\ IrqSafe(u) /\ u.program = s.program /\ u.frames = s.frames /\ u.mip = s.mip
      /\ u.wfi = s.wfi /\ Planned(u) /\ FrameCycles(u) = F
  BY <1>1, <1>7 DEF Keeps, Fields, IrqSafe, Planned, FrameCycles
<1>9. /\ Keeps(u, v, Irq \cup {"gpu", "frames", "frameDone"}) /\ IrqSafe(v)
      /\ ("MTI" \in v.mip <=> "MTI" \in u.mip)
      /\ GpuTyped(v.gpu) /\ v.frames \in Int
      /\ (v.frames + 1) * F - v.gpu.frame = (s.frames + 1) * F - (s.gpu.frame - e)
      /\ StaysAwake(u, v) /\ v.gpu.remaining = g.remaining
      /\ (s.gpu.frame - e) + F > 0 => v.gpu.frame > 0
  BY <1>6, <1>7, <1>8, FrameLemma DEF GpuKept
<1> HIDE DEF v
<1>10. /\ DOMAIN v = Fields /\ v.last = u.last /\ v.next = u.next /\ v.first = u.first
       /\ v.cycle = u.cycle /\ v.base = u.base /\ v.program = s.program
  BY <1>7, <1>8, <1>9 DEF Keeps, Fields, Irq, Cpu
<1>11. Planned(v) /\ v.gpu.frame \in Int
  BY <1>8, <1>9, <1>10 DEF Planned, GpuTyped
<1>12. /\ Keeps(v, t, {"next", "first"}) /\ Planned(t) /\ OthersKept(v, t, "Gpu")
       /\ t.next["Gpu"] = v.last["Gpu"] + v.gpu.frame /\ Attained(t)
  BY <1>10, <1>11, NextEventLemma DEF Tokens
<1> HIDE DEF t
<1>13. Keeps(s, t, Irq \cup Dates \cup {"gpu", "frames", "frameDone"})
  BY <1>7, <1>9, <1>12 DEF Keeps, Dates
<1>14. OthersKept(s, t, "Gpu")
  BY <1>1, <1>7, <1>10, <1>12 DEF OthersKept
<1>15. /\ t.program = s.program /\ t.frames = v.frames /\ t.gpu = v.gpu
       /\ t.base = s.base /\ t.last = r.last
       /\ t.mip = v.mip /\ t.mie = v.mie /\ t.irqOn = v.irqOn /\ t.wfi = v.wfi
       /\ t.unchecked = v.unchecked
  <2>1. r.base = s.base
    BY <1>1 DEF Keeps, Fields
  <2> QED BY <1>7, <1>10, <1>12, <2>1 DEF Keeps, Fields
<1>16. GpuKept(t)
  <2>6. F \in Int
    BY ProgramFacts DEF GpuKept, FrameCycles
  <2> HIDE DEF F
  <2>1. PICK p \in Int : p = (s.frames + 1) * F /\ p - s.gpu.frame = s.base + s.last["Gpu"]
    BY <2>6 DEF GpuKept, F
  <2>2. /\ s.gpu.frame \in Int /\ s.base \in Int /\ s.last["Gpu"] \in Int
    BY DEF GpuKept, GpuTyped, Planned, Tokens
  <2>3. p - (s.gpu.frame - e) = s.base + (s.last["Gpu"] + e)
    <3>1. PICK f \in Int, a \in Int, l \in Int, n \in Int :
            f = s.gpu.frame /\ a = s.base /\ l = s.last["Gpu"] /\ n = e /\ p - f = a + l
      BY <1>1, <2>1, <2>2
    <3>2. p - (f - n) = a + (l + n)
      BY <3>1
    <3> QED BY <3>1, <3>2
  <2>4. (t.frames + 1) * F - t.gpu.frame = t.base + t.last["Gpu"]
    BY <1>1, <1>9, <1>15, <2>1, <2>3
  <2>5. FrameCycles(t) = F
    BY <1>15 DEF FrameCycles, F
  <2> HIDE DEF F
  <2> QED BY <1>9, <1>15, <2>4, <2>5 DEF GpuKept
<1>17. IrqSafe(t) /\ ("MTI" \in t.mip <=> "MTI" \in s.mip)
  BY <1>8, <1>9, <1>15 DEF IrqSafe
<1>19. e < s.gpu.frame + F => t.gpu.frame > 0
  <2>1. PICK f \in Int : f = s.gpu.frame
    BY DEF GpuKept, GpuTyped
  <2>2. PICK n \in Int : n = F
    BY ProgramFacts DEF GpuKept, FrameCycles
  <2>3. e < f + n => (f - e) + n > 0
    BY <1>1
  <2> QED BY <1>9, <1>15, <2>1, <2>2, <2>3
<1>20. /\ Attained(t) /\ StaysAwake(s, t) /\ t.gpu.remaining >= 0
       /\ t.next["Gpu"] = t.last["Gpu"] + t.gpu.frame
  BY <1>7, <1>8, <1>9, <1>10, <1>12, <1>15, <1>18 DEF StaysAwake
<1>21. t.last["Gpu"] >= s.cycle /\ t.last["Gpu"] \in {s.last["Gpu"], s.cycle}
  BY <1>1, <1>15
<1> QED BY <1>3, <1>12, <1>13, <1>14, <1>16, <1>17, <1>19, <1>20, <1>21 DEF e

\* The frame that ends is not followed by another that has ended too: the GPU is not that late.
LEMMA GpuRunMovesOn ==
  ASSUME NEW s, DOMAIN s = Fields, IrqSafe(s), Planned(s), GpuKept(s), HasFrame(s),
         s.cycle - s.next["Gpu"] < Reach
  PROVE  HasFrame(GpuRun(s)) /\ GpuRun(s).next["Gpu"] > s.cycle
<1> DEFINE t == GpuRun(s)
<1>1. /\ t.next["Gpu"] = t.last["Gpu"] + t.gpu.frame /\ t.last["Gpu"] >= s.cycle
      /\ Elapsed(s, "Gpu") < s.gpu.frame + FrameCycles(s) => t.gpu.frame > 0
      /\ Planned(t) /\ GpuKept(t)
  BY GpuRunLemma
<1> HIDE DEF t
<1>2. PICK l \in Int, n \in Int, c \in Int :
        l = s.last["Gpu"] /\ n = s.next["Gpu"] /\ c = s.cycle
  BY DEF Planned, Tokens
<1>3. PICK f \in Int, len \in Int :
        f = s.gpu.frame /\ len = FrameCycles(s) /\ Reach <= len /\ len > 0
  BY ProgramFacts, Proportions DEF GpuKept, GpuTyped, FrameCycles
<1>4. f > 0 /\ n <= l + f /\ c - n < Reach
  BY <1>2, <1>3 DEF HasFrame
<1>5. Elapsed(s, "Gpu") = IF 0 >= c - l THEN 0 ELSE c - l
  <2>1. PICK k \in Int : k = c - l
    BY <1>2
  <2>2. Max({0, k}) = IF 0 >= k THEN 0 ELSE k
    BY <2>1, MaxOfTwo
  <2> QED BY <1>2, <2>1, <2>2 DEF Elapsed
<1>6. Elapsed(s, "Gpu") < f + len
  BY <1>2, <1>3, <1>4, <1>5, Proportions
<1>7. PICK a \in Int, g \in Int : a = t.last["Gpu"] /\ g = t.gpu.frame
  BY <1>1 DEF Planned, Tokens, GpuKept, GpuTyped
<1>8. g > 0
  BY <1>1, <1>3, <1>6, <1>7
<1> QED BY <1>1, <1>2, <1>7, <1>8 DEF HasFrame, t

\* A change of the GPU only.
LEMMA GpuOnly ==
  ASSUME NEW s, NEW t, NEW c, Good(s, c),
         Keeps(s, t, Irq \cup Dates \cup {"gpu", "frames", "frameDone"}), OthersKept(s, t, "Gpu"),
         "MTI" \in t.mip <=> "MTI" \in s.mip, IrqSafe(t), Planned(t), GpuKept(t)
  PROVE  Good(t, c)
<1> DEFINE F == Irq \cup Dates \cup {"gpu", "frames", "frameDone"}
<1>1. {"samples", "spu", "base", "input", "mtime", "mtimecmp",
       "dma", "asked", "delivered", "done"} \cap F = {}
  BY DEF Irq, Cpu, Dates
<1> HIDE DEF F
<1>2. DOMAIN t = Fields /\ DOMAIN s = Fields
  BY DEF Good, Keeps
<1>3. SpuKept(t, c)
  BY <1>1, <1>2, SpuElsewhere DEF Good, Tokens, F
<1>4. TimerKept(t, c) /\ TimerArmed(t)
  BY <1>1, <1>2, TimerElsewhere DEF Good, Tokens, F
<1>5. InputKept(t) /\ DmaKept(t, c)
  BY <1>1, <1>2, InputElsewhere, DmaElsewhere DEF Good, Tokens, F
<1> QED BY <1>2, <1>3, <1>4, <1>5 DEF Good

LEMMA GpuRunGood ==
  ASSUME NEW s, NEW c \in Int, Good(s, c)
  PROVE  /\ Good(GpuRun(s), c) /\ OthersKept(s, GpuRun(s), "Gpu")
         /\ Keeps(s, GpuRun(s), Irq \cup Dates \cup {"gpu", "frames", "frameDone"})
BY GpuRunLemma, GpuOnly DEF Good

LEMMA GpuMovesOn ==
  ASSUME NEW s, DOMAIN s = Fields, IrqSafe(s), Planned(s), GpuKept(s), Timely(s)
  PROVE  Onward(s, GpuRun(s)) /\ Done(s, GpuRun(s), "Gpu")
<1> DEFINE t == GpuRun(s)
<1>1. s.cycle - s.next["Gpu"] < Reach
  <2>1. PICK f \in Int, n \in Int, e \in Int, r \in Int :
          f = s.first /\ n = s.next["Gpu"] /\ e = s.cycle /\ r = Reach /\ f <= n /\ e - f < r
    BY Proportions DEF Planned, Tokens, Timely
  <2> QED BY <2>1
<1>2. HasFrame(t) /\ t.next["Gpu"] > s.cycle
  BY <1>1, GpuRunMovesOn DEF Timely
<1>3. /\ OthersKept(s, t, "Gpu") /\ Planned(t) /\ Attained(t) /\ StaysAwake(s, t)
      /\ t.last["Gpu"] \in {s.last["Gpu"], s.cycle}
  BY GpuRunLemma
<1> HIDE DEF t
<1>4. t.next["Gpu"] >= s.cycle
  BY <1>2, <1>3 DEF Planned, Tokens
<1>5. \A d \in Tokens : t.next[d] >= s.cycle \/ t.next[d] = s.next[d]
  BY <1>3, <1>4 DEF OthersKept
<1>6. \A d \in {"Gpu", "InputDev"} : t.last[d] \in {s.last[d], s.cycle}
  BY <1>3 DEF OthersKept, Tokens
<1>7. Onward(s, t)
  BY <1>2, <1>3, <1>5, <1>6 DEF Onward
<1> QED BY <1>2, <1>3, <1>7, DoneAlone DEF t

LEMMA GpuStoreGood ==
  ASSUME NEW s, NEW c \in Int, Good(s, c), NEW cmd
  PROVE  /\ Good(GpuStore(s, cmd), c)
         /\ Keeps(s, GpuStore(s, cmd), Irq \cup Dates \cup {"gpu", "frames", "frameDone"})
         /\ Timely(s) => Onward(s, GpuStore(s, cmd))
<1> DEFINE u == GpuRun(s)
           t == PushCommand(u, cmd)
<1>1. GpuStore(s, cmd) = t
  BY DEF GpuStore
<1>2. /\ Good(u, c) /\ Keeps(s, u, Irq \cup Dates \cup {"gpu", "frames", "frameDone"})
      /\ Timely(s) => Onward(s, u)
  BY GpuRunGood, GpuMovesOn DEF Good
<1> HIDE DEF u
<1>3. DOMAIN u = Fields /\ GpuTyped(u.gpu)
  BY <1>2 DEF Good, GpuKept
<1>4. CASE IsFull(u)
  BY <1>1, <1>2, <1>4 DEF PushCommand
<1>5. CASE ~IsFull(u)
  <2>1. /\ IsSeq(Append(u.gpu.fifo, cmd)) /\ Len(u.gpu.fifo) \in Nat
        /\ Len(Append(u.gpu.fifo, cmd)) = Len(u.gpu.fifo) + 1
    BY <1>3, AppendIsSeq, LenOfSeq DEF GpuTyped
  <2>2. Len(Append(u.gpu.fifo, cmd)) <= FifoSize
    BY <1>3, <1>5, <2>1, ConstantsAreNat DEF IsFull, GpuTyped
  <2>3. t = [u EXCEPT !.gpu.fifo = Append(u.gpu.fifo, cmd)]
    BY <1>5 DEF PushCommand
  <2> HIDE DEF t
  <2>4. /\ Keeps(u, t, {"gpu"}) /\ GpuTyped(t.gpu) /\ t.gpu.frame = u.gpu.frame
    <3>1. Keeps(u, t, {"gpu"})
      BY <1>3, <2>3 DEF Keeps, Fields
    <3>2. t.gpu = [u.gpu EXCEPT !.fifo = Append(u.gpu.fifo, cmd)]
      BY <1>3, <2>3 DEF Fields
    <3>3. GpuTyped(t.gpu) /\ t.gpu.frame = u.gpu.frame
      BY <1>3, <2>1, <2>2, <3>2 DEF GpuTyped, GpuFields
    <3> QED BY <3>1, <3>3
  <2>5. /\ t.last = u.last /\ t.next = u.next /\ t.first = u.first /\ t.cycle = u.cycle
        /\ t.base = u.base /\ t.frames = u.frames /\ t.program = u.program
        /\ t.mip = u.mip /\ t.mie = u.mie /\ t.irqOn = u.irqOn /\ t.wfi = u.wfi
        /\ t.unchecked = u.unchecked
    BY <1>3, <2>4 DEF Keeps, Fields
  <2>6. IrqSafe(t) /\ Planned(t) /\ GpuKept(t) /\ OthersKept(u, t, "Gpu")
    BY <1>2, <2>4, <2>5 DEF Good, IrqSafe, Planned, GpuKept, FrameCycles, OthersKept
  <2>7. Keeps(u, t, Irq \cup Dates \cup {"gpu", "frames", "frameDone"})
    BY <2>4 DEF Keeps
  <2>8. Good(t, c)
    BY <1>2, <2>5, <2>6, <2>7, GpuOnly
  <2>9. Keeps(s, t, Irq \cup Dates \cup {"gpu", "frames", "frameDone"})
    BY <1>2, <2>7 DEF Keeps
  <2>10. Timely(s) => Onward(s, t)
    BY <1>2, <2>4, <2>5, OnwardStill
  <2> QED BY <1>1, <2>8, <2>9, <2>10
<1> QED BY <1>4, <1>5

-----------------------------------------------------------------------------
(* The queue of a voice *)

\* What leaves the queue alone.
LEMMA SoundSame ==
  ASSUME NEW v, NEW w, SoundKept(v), w.queue = v.queue, w.line = v.line, w.heard = v.heard,
         w.phase = v.phase \/ w.phase = 0, w.step = v.step \/ w.step \in Nat
  PROVE  SoundKept(w)
BY DEF SoundKept, LineKept

LEMMA DecodeSampleLine ==
  ASSUME NEW v, DOMAIN v = VoiceFields, LineKept(v), Len(v.queue) < Queue, NEW bits
  PROVE  LET w == DecodeSample(v, bits)
         IN  /\ DOMAIN w = VoiceFields /\ LineKept(w) /\ Len(w.queue) = Len(v.queue) + 1
             /\ w.phase = v.phase /\ w.step = v.step
<1> DEFINE s == Extrapolated(v, bits)
           w == PushSample(v, s)
<1>1. DecodeSample(v, bits) = w
  BY DEF DecodeSample
<1> HIDE DEF s
<1>2. /\ DOMAIN w = VoiceFields /\ w.heard = v.heard /\ w.phase = v.phase /\ w.step = v.step
      /\ w.line = Append(v.line, s)
      /\ w.queue = IF Len(v.queue) = Queue THEN v.queue ELSE Append(v.queue, s)
  BY DEF PushSample, VoiceFields
<1> HIDE DEF w
<1>3. IsSeq(v.queue) /\ IsSeq(v.line) /\ Len(v.queue) \in Nat /\ Len(v.line) \in Nat
  BY LenOfSeq DEF LineKept
<1>4. w.queue = Append(v.queue, s)
  BY <1>2, <1>3, QueueFacts
<1>5. /\ IsSeq(w.queue) /\ Len(w.queue) = Len(v.queue) + 1
      /\ IsSeq(w.line) /\ Len(w.line) = Len(v.line) + 1
  BY <1>2, <1>3, <1>4, AppendIsSeq
<1>6. v.heard \in 0 .. Len(v.line) /\ v.queue = SubSeq(v.line, v.heard + 1, Len(v.line))
  BY DEF LineKept
<1>7. SubSeq(w.line, w.heard + 1, Len(w.line)) = w.queue
  BY <1>2, <1>3, <1>4, <1>5, <1>6, EndAppended
<1>8. w.heard \in 0 .. Len(w.line)
  BY <1>2, <1>3, <1>5, <1>6
<1> QED BY <1>1, <1>2, <1>5, <1>7, <1>8 DEF LineKept

\* The four samples of a word fit in the queue when fewer than Ahead are in it.
LEMMA DecodeWordLine ==
  ASSUME NEW v, DOMAIN v = VoiceFields, SoundKept(v), Len(v.queue) < Ahead, NEW ram
  PROVE  SoundKept(DecodeWord(v, ram))
<1> DEFINE w == ram[v.cur + 1]
           a == DecodeSample(v, w[1])
           b == DecodeSample(a, w[2])
           d == DecodeSample(b, w[3])
           e == DecodeSample(d, w[4])
           f == [e EXCEPT !.cur = IncIndex(ram, @)]
<1>1. PICK n \in Nat : n = Len(v.queue) /\ n + 3 < Queue /\ n < Ahead
  BY QueueFacts, LenOfSeq DEF SoundKept, LineKept
<1>2. Queue \in Int /\ Ahead \in Int
  BY QueueFacts
<1>3. /\ DOMAIN a = VoiceFields /\ LineKept(a) /\ Len(a.queue) = n + 1
      /\ a.phase = v.phase /\ a.step = v.step
  BY <1>1, <1>2, DecodeSampleLine DEF SoundKept
<1> HIDE DEF a
<1>4. /\ DOMAIN b = VoiceFields /\ LineKept(b) /\ Len(b.queue) = n + 2
      /\ b.phase = v.phase /\ b.step = v.step
  BY <1>1, <1>2, <1>3, DecodeSampleLine
<1> HIDE DEF b
<1>5. /\ DOMAIN d = VoiceFields /\ LineKept(d) /\ Len(d.queue) = n + 3
      /\ d.phase = v.phase /\ d.step = v.step
  BY <1>1, <1>2, <1>4, DecodeSampleLine
<1> HIDE DEF d
<1>6. /\ DOMAIN e = VoiceFields /\ LineKept(e) /\ Len(e.queue) = n + 4
      /\ e.phase = v.phase /\ e.step = v.step
  BY <1>1, <1>2, <1>5, DecodeSampleLine
<1> HIDE DEF e
<1>7. SoundKept(e)
  BY <1>1, <1>2, <1>6 DEF SoundKept
<1>8. /\ f.queue = e.queue /\ f.line = e.line /\ f.heard = e.heard
      /\ f.phase = e.phase /\ f.step = e.step
  BY <1>6 DEF VoiceFields
<1>9. DecodeWord(v, ram) = IF v.state = "Stopped" THEN v ELSE f
  BY DEF DecodeWord, a, b, d, e
<1> HIDE DEF f
<1>10. SoundKept(f)
  BY <1>7, <1>8, SoundSame
<1> QED BY <1>9, <1>10

LEMMA KeepAheadLine ==
  ASSUME NEW v, DOMAIN v = VoiceFields, SoundKept(v), NEW ram
  PROVE  SoundKept(KeepAhead(v, ram))
<1> DEFINE Same(w) ==
             /\ DOMAIN w = VoiceFields /\ w.queue = v.queue /\ w.line = v.line
             /\ w.heard = v.heard /\ w.phase = v.phase /\ w.step = v.step
<1>1. \A i : Same(OpenBlock(v, ram, i))
  BY DEF OpenBlock, VoiceFields
<1>2. Same([v EXCEPT !.state = "Stopped"])
  BY DEF VoiceFields
<1>3. Same(NextBlock(v, ram)) /\ Same(v)
  BY <1>1, <1>2 DEF NextBlock
<1> DEFINE w == IF v.cur % BlockSize = 0 THEN NextBlock(v, ram) ELSE v
<1>4. Same(w)
  BY <1>3
<1>5. KeepAhead(v, ram) = IF v.state = "Stopped" \/ Len(v.queue) >= Ahead THEN v ELSE DecodeWord(w, ram)
  BY DEF KeepAhead
<1> HIDE DEF w
<1>6. SoundKept(w)
  BY <1>4, SoundSame
<1>7. ASSUME ~(Len(v.queue) >= Ahead) PROVE SoundKept(DecodeWord(w, ram))
  <2>1. Len(v.queue) \in Nat
    BY LenOfSeq DEF SoundKept, LineKept
  <2>2. Len(w.queue) < Ahead
    BY <1>4, <1>7, <2>1, QueueFacts
  <2> QED BY <1>4, <1>6, <2>2, DecodeWordLine
<1> QED BY <1>5, <1>7

\* The samples that are played leave the queue, all of them if it has no more.
LEMMA ConsumeLine ==
  ASSUME NEW v, DOMAIN v = VoiceFields, SoundKept(v), NEW sum \in Nat
  PROVE  SoundKept(Consume(v, sum))
<1> DEFINE w == Consume(v, sum)
<1>1. PICK n \in Nat, rest \in Nat : n = sum \div 4096 /\ rest = sum % 4096
  OBVIOUS
<1>2. PICK q, p, h : q = v.queue /\ p = v.line /\ h = v.heard
  OBVIOUS
<1>3. /\ IsSeq(q) /\ IsSeq(p) /\ Len(q) \in Nat /\ h \in 0 .. Len(p)
      /\ q = SubSeq(p, h + 1, Len(p)) /\ Len(q) <= Ahead + 3
      /\ v.step \in Nat
  BY <1>2, LenOfSeq DEF SoundKept, LineKept
<1> DEFINE k == IF n <= Len(q) THEN n ELSE Len(q)
           r == SubSeq(q, n + 1, Len(q))
<1>4. Min({n, Len(q)}) = k
  <2>1. PICK l \in Nat : l = Len(q)
    BY <1>3
  <2>2. Min({n, l}) = IF n <= l THEN n ELSE l
    BY MinOfTwo
  <2> QED BY <2>1, <2>2
<1>5. /\ w.queue = r /\ w.line = p /\ w.heard = h + k
      /\ w.phase = rest /\ w.step = v.step
  <2>1. /\ w.queue = SubSeq(v.queue, sum \div 4096 + 1, Len(v.queue)) /\ w.line = v.line
        /\ w.heard = v.heard + Min({sum \div 4096, Len(v.queue)})
        /\ w.phase = sum % 4096 /\ w.step = v.step
    BY DEF Consume, VoiceFields
  <2> HIDE DEF w
  <2> QED BY <1>1, <1>2, <1>4, <2>1
<1>6. h + k \in 0 .. Len(p) /\ r = SubSeq(p, h + k + 1, Len(p))
  BY <1>3, EndOfEnd
<1>7. IsSeq(r) /\ Len(r) <= Len(q)
  <2>1. CASE n <= Len(q)
    <3>1. n \in 0 .. Len(q)
      BY <1>3, <2>1
    <3>2. IsSeq(r) /\ Len(r) = Len(q) - n
      BY <1>3, <3>1, CutLemma
    <3> HIDE DEF r
    <3> QED BY <1>3, <3>2
  <2>2. CASE n > Len(q)
    <3>1. r = <<>>
      BY <1>3, <2>2, SubSeqEmpty
    <3>2. IsSeq(<<>>) /\ Len(<<>>) = 0
      BY EmptyIsSeq
    <3> HIDE DEF r
    <3> QED BY <1>3, <3>1, <3>2
  <2> QED BY <1>3, <2>1, <2>2
<1> HIDE DEF w, k, r
<1>8. Len(r) <= Ahead + 3
  <2>1. Len(r) \in Nat
    BY <1>7, LenOfSeq
  <2> QED BY <1>3, <1>7, <2>1, QueueFacts
<1>9. LineKept(w)
  BY <1>3, <1>5, <1>6, <1>7 DEF LineKept
<1> QED BY <1>3, <1>5, <1>8, <1>9 DEF SoundKept, w

LEMMA RunEnvelopeLine ==
  ASSUME NEW v, DOMAIN v = VoiceFields, SoundKept(v)
  PROVE  SoundKept(RunEnvelope(v))
<1> DEFINE w == RunEnvelope(v)
<1>1. /\ w.queue = v.queue /\ w.line = v.line /\ w.heard = v.heard
      /\ w.phase = v.phase /\ w.step = v.step
  BY DEF RunEnvelope, EndPhase, VoiceFields
<1> HIDE DEF w
<1> QED BY <1>1, SoundSame DEF w

-----------------------------------------------------------------------------
(* The sound processor: nothing but a start changes the date of the start. *)

SameStart(v, w) ==
  /\ DOMAIN w = DOMAIN v /\ w.played = v.played /\ w.startedAt = v.startedAt
  /\ EnvelopeKept(v) => EnvelopeKept(w)

LEMMA SameStartTwice ==
  ASSUME NEW v, NEW w, NEW x, SameStart(v, w), SameStart(w, x)
  PROVE  SameStart(v, x)
BY DEF SameStart

Plays(v, w) == SameStart(v, w) /\ (SoundKept(v) => SoundKept(w))

LEMMA PlaysTwice ==
  ASSUME NEW v, NEW w, NEW x, Plays(v, w), Plays(w, x)
  PROVE  Plays(v, x)
BY SameStartTwice DEF Plays

\* What leaves the envelope alone, or stops it.
LEMMA SameStartIf ==
  ASSUME NEW v, NEW w, DOMAIN w = DOMAIN v, w.played = v.played, w.startedAt = v.startedAt,
         w.level = v.level, w.params = v.params, w.state \in {v.state, "Stopped"}
  PROVE  SameStart(v, w)
<1>1. EnvelopeKept(v) => EnvelopeKept(w)
  BY EnvelopeSame
<1> QED BY <1>1 DEF SameStart

LEMMA DecodeSampleLemma ==
  ASSUME NEW v, DOMAIN v = VoiceFields, NEW bits
  PROVE  SameStart(v, DecodeSample(v, bits))
<1> DEFINE w == DecodeSample(v, bits)
<1>1. /\ DOMAIN w = DOMAIN v /\ w.played = v.played /\ w.startedAt = v.startedAt
      /\ w.level = v.level /\ w.params = v.params /\ w.state = v.state
  BY DEF DecodeSample, PushSample, VoiceFields
<1> HIDE DEF w
<1> QED BY <1>1, SameStartIf DEF w

LEMMA DecodeWordLemma ==
  ASSUME NEW v, DOMAIN v = VoiceFields, NEW ram
  PROVE  SameStart(v, DecodeWord(v, ram))
<1> DEFINE w == ram[v.cur + 1]
           a == DecodeSample(v, w[1])
           b == DecodeSample(a, w[2])
           d == DecodeSample(b, w[3])
           e == DecodeSample(d, w[4])
           f == [e EXCEPT !.cur = IncIndex(ram, @)]
<1>1. SameStart(v, a) /\ DOMAIN a = VoiceFields
  BY DecodeSampleLemma DEF SameStart
<1> HIDE DEF a
<1>2. SameStart(v, b) /\ DOMAIN b = VoiceFields
  BY <1>1, DecodeSampleLemma, SameStartTwice DEF SameStart
<1> HIDE DEF b
<1>3. SameStart(v, d) /\ DOMAIN d = VoiceFields
  BY <1>2, DecodeSampleLemma, SameStartTwice DEF SameStart
<1> HIDE DEF d
<1>4. SameStart(v, e) /\ DOMAIN e = VoiceFields
  BY <1>3, DecodeSampleLemma, SameStartTwice DEF SameStart
<1> HIDE DEF e
<1>5. SameStart(e, f)
  <2>1. /\ DOMAIN f = DOMAIN e /\ f.played = e.played /\ f.startedAt = e.startedAt
        /\ f.level = e.level /\ f.params = e.params /\ f.state = e.state
    BY <1>4 DEF VoiceFields
  <2> HIDE DEF f
  <2> QED BY <2>1, SameStartIf
<1>6. SameStart(v, f)
  <2> HIDE DEF f
  <2> QED BY <1>4, <1>5, SameStartTwice
<1>7. SameStart(v, v)
  BY DEF SameStart
<1> QED BY <1>6, <1>7 DEF DecodeWord, a, b, d, e

LEMMA KeepAheadLemma ==
  ASSUME NEW v, DOMAIN v = VoiceFields, NEW ram
  PROVE  Plays(v, KeepAhead(v, ram))
<1>1. SameStart(v, v)
  BY DEF SameStart
<1>2. ASSUME NEW i PROVE SameStart(v, OpenBlock(v, ram, i))
  <2> DEFINE w == OpenBlock(v, ram, i)
  <2>1. /\ DOMAIN w = DOMAIN v /\ w.played = v.played /\ w.startedAt = v.startedAt
        /\ w.level = v.level /\ w.params = v.params /\ w.state = v.state
    BY DEF OpenBlock, VoiceFields
  <2> HIDE DEF w
  <2> QED BY <2>1, SameStartIf DEF w
<1>3. SameStart(v, NextBlock(v, ram))
  <2> DEFINE w == [v EXCEPT !.state = "Stopped"]
  <2>1. /\ DOMAIN w = DOMAIN v /\ w.played = v.played /\ w.startedAt = v.startedAt
        /\ w.level = v.level /\ w.params = v.params /\ w.state = "Stopped"
    BY DEF VoiceFields
  <2> HIDE DEF w
  <2>2. SameStart(v, w)
    BY <2>1, SameStartIf
  <2> QED BY <1>2, <2>2 DEF NextBlock, w
<1>4. SameStart(v, DecodeWord(v, ram))
  BY DecodeWordLemma
<1>5. SameStart(v, DecodeWord(NextBlock(v, ram), ram))
  <2>1. DOMAIN NextBlock(v, ram) = VoiceFields
    BY <1>3 DEF SameStart
  <2> QED BY <1>3, <2>1, DecodeWordLemma, SameStartTwice
<1>6. SameStart(v, KeepAhead(v, ram))
  BY <1>1, <1>4, <1>5 DEF KeepAhead
<1> QED BY <1>6, KeepAheadLine DEF Plays

LEMMA RunDecoderLemma ==
  ASSUME NEW v, DOMAIN v = VoiceFields, NEW ram
  PROVE  Plays(v, RunDecoder(v, ram))
<1> DEFINE k == Ahead \div 4 + 1
           Body(f, b) == [n \in 0 .. b |-> IF n = 0 THEN v ELSE KeepAhead(f[n - 1], ram)]
<1>1. k \in Nat
  BY MachineAssumption DEF MachineAssumption
<1> HIDE DEF k
<1>2. \E f : f = Body(f, k)
  <2> DEFINE T == {b \in Nat : ~\E f : f = Body(f, b)}
  <2>1. SUFFICES T = {}
    BY <1>1
  <2>2. SUFFICES ASSUME T # {} PROVE FALSE
    OBVIOUS
  <2>3. PICK b \in T : \A y \in T : b <= y
    BY <2>2, Smallest
  <2>4. b # 0
    <3>1. SUFFICES ASSUME b = 0 PROVE FALSE
      OBVIOUS
    <3>2. [n \in 0 .. 0 |-> v] = Body([n \in 0 .. 0 |-> v], 0)
      OBVIOUS
    <3> QED BY <2>3, <3>1, <3>2
  <2>5. b - 1 \in Nat /\ b - 1 \notin T
    <3>1. b \in Nat
      BY <2>3
    <3> HIDE DEF T
    <3> QED BY <2>3, <2>4, <3>1
  <2>6. PICK f : f = Body(f, b - 1)
    BY <2>5
  <2> DEFINE h == [n \in 0 .. b |-> IF n = b THEN KeepAhead(f[b - 1], ram) ELSE f[n]]
  <2>7. h = Body(h, b)
    <3>1. ASSUME NEW n \in 0 .. b
          PROVE  h[n] = IF n = 0 THEN v ELSE KeepAhead(h[n - 1], ram)
      <4>1. CASE n = b
        <5>1. b - 1 \in 0 .. b /\ b - 1 # b /\ h[b - 1] = f[b - 1]
          BY <2>5
        <5> QED BY <2>4, <4>1, <5>1
      <4>2. CASE n # b
        <5>1. n \in 0 .. b - 1 /\ h[n] = f[n]
          BY <2>3, <4>2
        <5>2. f[n] = IF n = 0 THEN v ELSE KeepAhead(f[n - 1], ram)
          BY <2>6, <5>1
        <5>3. n # 0 => n - 1 \in 0 .. b /\ n - 1 # b /\ h[n - 1] = f[n - 1]
          BY <2>3, <5>1
        <5> QED BY <5>1, <5>2, <5>3
      <4> QED BY <4>1, <4>2
    <3> QED BY <3>1
  <2> QED BY <2>3, <2>7
<1> DEFINE after == CHOOSE f : f = Body(f, k)
<1>3. after = Body(after, k)
  BY <1>2
<1>4. RunDecoder(v, ram) = after[k]
  BY DEF RunDecoder, k
<1> HIDE DEF after
<1>5. after[0] = v /\ \A n \in 1 .. k : after[n] = KeepAhead(after[n - 1], ram)
  BY <1>1, <1>3
<1> DEFINE T == {n \in 0 .. k : ~Plays(v, after[n])}
<1>6. T = {}
  <2>1. SUFFICES ASSUME T # {} PROVE FALSE
    OBVIOUS
  <2>2. PICK n \in T : \A y \in T : n <= y
    <3>1. T \subseteq Nat
      OBVIOUS
    <3> HIDE DEF T
    <3> QED BY <2>1, <3>1, Smallest
  <2>3. Plays(v, after[0])
    BY <1>5 DEF Plays, SameStart
  <2>4. n \in 1 .. k /\ n - 1 \in 0 .. k /\ n - 1 \notin T
    BY <1>1, <2>2, <2>3
  <2>5. Plays(v, after[n - 1])
    BY <2>4
  <2>6. Plays(v, after[n])
    <3>1. DOMAIN after[n - 1] = VoiceFields
      BY <2>5 DEF Plays, SameStart
    <3> QED BY <1>5, <2>4, <2>5, <3>1, KeepAheadLemma, PlaysTwice
  <2> QED BY <2>2, <2>6
<1> QED BY <1>1, <1>4, <1>6

\* A step of the envelope, of a voice that plays.
LEMMA RunEnvelopeLemma ==
  ASSUME NEW v, DOMAIN v = VoiceFields, v.state # "Stopped"
  PROVE  SameStart(v, RunEnvelope(v))
<1> DEFINE p == v.params[v.state]
           d == v.divider + InHigh(p, v.level).div
           waits == [v EXCEPT !.divider = d]
           u == [v EXCEPT !.divider = 0, !.level = NextLevel(p, @)]
           w == EndPhase(u)
<1>1. RunEnvelope(v) = IF d < 32768 THEN waits ELSE w
  BY DEF RunEnvelope
<1>2. SameStart(v, waits)
  <2> HIDE DEF d
  <2>1. /\ DOMAIN waits = DOMAIN v /\ waits.played = v.played /\ waits.startedAt = v.startedAt
        /\ waits.level = v.level /\ waits.params = v.params /\ waits.state = v.state
    BY DEF VoiceFields
  <2> HIDE DEF waits
  <2> QED BY <2>1, SameStartIf
<1>3. SameStart(v, w)
  <2>1. /\ DOMAIN u = VoiceFields /\ u.played = v.played /\ u.startedAt = v.startedAt
        /\ u.level = NextLevel(p, v.level) /\ u.params = v.params /\ u.state = v.state
    <3> HIDE DEF p
    <3> QED BY DEF VoiceFields
  <2> HIDE DEF u
  <2>2. /\ DOMAIN w = VoiceFields /\ w.played = u.played /\ w.startedAt = u.startedAt
        /\ w.level = u.level /\ w.params = u.params /\ w.state \in {u.state, "Sustain", "Stopped"}
    BY <2>1 DEF EndPhase, VoiceFields
  <2> HIDE DEF w
  <2>3. ASSUME EnvelopeKept(v) PROVE EnvelopeKept(w)
    <3>1. v.state \in Phases /\ ParamsKept(v.params) /\ IsLevel(v.level)
      BY <2>3 DEF EnvelopeKept
    <3>2. IsEnvelope(p)
      BY <3>1 DEF ParamsKept
    <3> HIDE DEF p
    <3>3. IsLevel(NextLevel(p, v.level))
      <4>1. v.level \in Int
        BY <3>1 DEF IsLevel, Within
      <4> QED BY <3>1, <3>2, <4>1, NextLevelType
    <3>4. w.state \in Phases \cup {"Stopped"}
      BY <2>1, <2>2, <3>1 DEF Phases
    <3>5. w.level = NextLevel(p, v.level) /\ w.params = v.params
      BY <2>1, <2>2
    <3>6. IsLevel(w.level) /\ ParamsKept(w.params)
      BY <3>1, <3>3, <3>5
    <3> QED BY <3>4, <3>6 DEF EnvelopeKept
  <2> QED BY <2>1, <2>2, <2>3 DEF SameStart
<1> HIDE DEF d, waits, w
<1> QED BY <1>1, <1>2, <1>3

LEMMA PlaySampleLemma ==
  ASSUME NEW v, DOMAIN v = VoiceFields
  PROVE  Plays(v, PlaySample(v))
<1> DEFINE e == RunEnvelope(v)
           sum == v.phase + v.step
           x == Consume(e, sum)
<1>1. ASSUME v.state # "Stopped" PROVE Plays(v, x)
  <2>1. SameStart(v, e)
    BY <1>1, RunEnvelopeLemma
  <2>2. DOMAIN e = VoiceFields
    BY <2>1 DEF SameStart
  <2>3. ASSUME SoundKept(v) PROVE SoundKept(x)
    <3>1. SoundKept(e)
      BY <2>3, RunEnvelopeLine
    <3>2. sum \in Nat
      BY <2>3 DEF SoundKept
    <3> HIDE DEF e, sum
    <3> QED BY <2>2, <3>1, <3>2, ConsumeLine
  <2> HIDE DEF e, sum
  <2>4. /\ DOMAIN x = DOMAIN e /\ x.played = e.played /\ x.startedAt = e.startedAt
        /\ x.level = e.level /\ x.params = e.params /\ x.state = e.state
    BY <2>2 DEF Consume, VoiceFields
  <2> HIDE DEF x
  <2>5. SameStart(e, x)
    BY <2>4, SameStartIf
  <2> QED BY <2>1, <2>3, <2>5, SameStartTwice DEF Plays
<1>2. Plays(v, v)
  BY DEF Plays, SameStart
<1>3. PlaySample(v) = IF v.state = "Stopped" THEN v ELSE x
  BY DEF PlaySample
<1> HIDE DEF x
<1> QED BY <1>1, <1>2, <1>3

\* A cycle counts one more.
LEMMA RunAudioCycleLemma ==
  ASSUME NEW spu, DOMAIN spu = {"ram", "ptr", "voice"}, DOMAIN spu.voice = VoiceFields
  PROVE  LET x == RunAudioCycle(spu)
         IN  /\ DOMAIN x = {"ram", "ptr", "voice"} /\ DOMAIN x.voice = VoiceFields
             /\ x.voice.played = spu.voice.played + 1
             /\ x.voice.startedAt = spu.voice.startedAt
             /\ EnvelopeKept(spu.voice) => EnvelopeKept(x.voice)
             /\ SoundKept(spu.voice) => SoundKept(x.voice)
<1> DEFINE v == spu.voice
           w == IF v.state = "Stopped" THEN v ELSE PlaySample(RunDecoder(v, spu.ram))
           y == [w EXCEPT !.played = @ + 1]
<1>1. RunAudioCycle(spu) = [spu EXCEPT !.voice = y]
  BY DEF RunAudioCycle, RunVoiceCycle
<1>2. Plays(v, w)
  <2>1. Plays(v, RunDecoder(v, spu.ram))
    BY RunDecoderLemma
  <2>2. DOMAIN RunDecoder(v, spu.ram) = VoiceFields
    BY <2>1 DEF Plays, SameStart
  <2>3. Plays(v, PlaySample(RunDecoder(v, spu.ram)))
    BY <2>1, <2>2, PlaySampleLemma, PlaysTwice
  <2>4. Plays(v, v)
    BY DEF Plays, SameStart
  <2> QED BY <2>3, <2>4
<1>3. /\ DOMAIN w = VoiceFields /\ w.played = v.played /\ w.startedAt = v.startedAt
      /\ (EnvelopeKept(v) => EnvelopeKept(w)) /\ (SoundKept(v) => SoundKept(w))
  BY <1>2 DEF Plays, SameStart
<1> HIDE DEF w
<1>4. /\ DOMAIN y = VoiceFields /\ y.played = v.played + 1 /\ y.startedAt = v.startedAt
      /\ y.level = w.level /\ y.params = w.params /\ y.state = w.state
      /\ y.queue = w.queue /\ y.line = w.line /\ y.heard = w.heard
      /\ y.phase = w.phase /\ y.step = w.step
  BY <1>3 DEF VoiceFields
<1> HIDE DEF y
<1>5. EnvelopeKept(v) => EnvelopeKept(y)
  BY <1>3, <1>4, EnvelopeSame
<1>6. SoundKept(v) => SoundKept(y)
  BY <1>3, <1>4, SoundSame
<1> QED BY <1>1, <1>4, <1>5, <1>6

LEMMA RunAudioCyclesLemma ==
  ASSUME NEW spu, DOMAIN spu = {"ram", "ptr", "voice"}, DOMAIN spu.voice = VoiceFields,
         spu.voice.played \in Int, NEW k \in Nat
  PROVE  LET x == RunAudioCycles(spu, k)
         IN  /\ DOMAIN x = {"ram", "ptr", "voice"} /\ DOMAIN x.voice = VoiceFields
             /\ x.voice.played = spu.voice.played + k
             /\ x.voice.startedAt = spu.voice.startedAt
             /\ EnvelopeKept(spu.voice) => EnvelopeKept(x.voice)
             /\ SoundKept(spu.voice) => SoundKept(x.voice)
<1> DEFINE Body(f, b) == [n \in 0 .. b |-> IF n = 0 THEN spu ELSE RunAudioCycle(f[n - 1])]
<1>2. \E f : f = Body(f, k)
  <2> DEFINE T == {b \in Nat : ~\E f : f = Body(f, b)}
  <2>1. SUFFICES T = {}
    OBVIOUS
  <2>2. SUFFICES ASSUME T # {} PROVE FALSE
    OBVIOUS
  <2>3. PICK b \in T : \A y \in T : b <= y
    BY <2>2, Smallest
  <2>4. b # 0
    <3>1. SUFFICES ASSUME b = 0 PROVE FALSE
      OBVIOUS
    <3>2. [n \in 0 .. 0 |-> spu] = Body([n \in 0 .. 0 |-> spu], 0)
      OBVIOUS
    <3> QED BY <2>3, <3>1, <3>2
  <2>5. b - 1 \in Nat /\ b - 1 \notin T
    <3>1. b \in Nat
      BY <2>3
    <3> HIDE DEF T
    <3> QED BY <2>3, <2>4, <3>1
  <2>6. PICK f : f = Body(f, b - 1)
    BY <2>5
  <2> DEFINE h == [n \in 0 .. b |-> IF n = b THEN RunAudioCycle(f[b - 1]) ELSE f[n]]
  <2>7. h = Body(h, b)
    <3>1. ASSUME NEW n \in 0 .. b
          PROVE  h[n] = IF n = 0 THEN spu ELSE RunAudioCycle(h[n - 1])
      <4>1. CASE n = b
        <5>1. b - 1 \in 0 .. b /\ b - 1 # b /\ h[b - 1] = f[b - 1]
          BY <2>5
        <5> QED BY <2>4, <4>1, <5>1
      <4>2. CASE n # b
        <5>1. n \in 0 .. b - 1 /\ h[n] = f[n]
          BY <2>3, <4>2
        <5>2. f[n] = IF n = 0 THEN spu ELSE RunAudioCycle(f[n - 1])
          BY <2>6, <5>1
        <5>3. n # 0 => n - 1 \in 0 .. b /\ n - 1 # b /\ h[n - 1] = f[n - 1]
          BY <2>3, <5>1
        <5> QED BY <5>1, <5>2, <5>3
      <4> QED BY <4>1, <4>2
    <3> QED BY <3>1
  <2> QED BY <2>3, <2>7
<1> DEFINE after == CHOOSE f : f = Body(f, k)
<1>3. after = Body(after, k)
  BY <1>2
<1>4. RunAudioCycles(spu, k) = after[k]
  BY DEF RunAudioCycles
<1> HIDE DEF after
<1>5. after[0] = spu /\ \A n \in 1 .. k : after[n] = RunAudioCycle(after[n - 1])
  BY <1>3
<1> DEFINE Well(n) == /\ DOMAIN after[n] = {"ram", "ptr", "voice"}
                      /\ DOMAIN after[n].voice = VoiceFields
                      /\ after[n].voice.played = spu.voice.played + n
                      /\ after[n].voice.startedAt = spu.voice.startedAt
                      /\ EnvelopeKept(spu.voice) => EnvelopeKept(after[n].voice)
                      /\ SoundKept(spu.voice) => SoundKept(after[n].voice)
           T == {n \in 0 .. k : ~Well(n)}
<1>6. T = {}
  <2>1. SUFFICES ASSUME T # {} PROVE FALSE
    OBVIOUS
  <2>2. PICK n \in T : \A y \in T : n <= y
    <3>1. T \subseteq Nat
      OBVIOUS
    <3> HIDE DEF T
    <3> QED BY <2>1, <3>1, Smallest
  <2>3. Well(0)
    BY <1>5
  <2>4. n \in 1 .. k /\ n - 1 \in 0 .. k
    BY <2>2, <2>3
  <2>5. Well(n - 1)
    BY <2>2, <2>4
  <2>6. Well(n)
    <3>1. after[n] = RunAudioCycle(after[n - 1])
      BY <1>5, <2>4
    <3>2. spu.voice.played + (n - 1) + 1 = spu.voice.played + n
      BY <2>4
    <3> QED BY <2>5, <3>1, <3>2, RunAudioCycleLemma
  <2> QED BY <2>2, <2>6
<1>7. Well(k)
  BY <1>6
<1> QED BY <1>4, <1>7

LEMMA SpuRunLemma ==
  ASSUME NEW s, NEW c \in Int, DOMAIN s = Fields, Planned(s), s.cycle <= c, SpuKept(s, c)
  PROVE  LET t == SpuRun(s)
         IN  /\ Keeps(s, t, Dates \cup {"samples", "spu"}) /\ OthersKept(s, t, "Spu")
             /\ Planned(t) /\ SpuKept(t, c)
             /\ s.last["Spu"] <= s.cycle
                  => t.last["Spu"] <= s.cycle /\ s.cycle < t.last["Spu"] + AudioDiv
             /\ Attained(t) /\ t.next["Spu"] > s.cycle
<1> DEFINE e == Elapsed(s, "Spu")
           k == e \div AudioDiv
           v == Resync(s, "Spu")
           w == Rewind(v, "Spu", e % AudioDiv)
           x == RunAudioCycles(w.spu, k)
           u == [w EXCEPT !.samples = @ + k, !.spu = RunAudioCycles(@, k)]
           t == NextEvent(u, "Spu", CpuFreq)
<1>1. SpuRun(s) = t
  BY DEF SpuRun, SpuCatchUp
<1>2. /\ Keeps(s, v, {"last"}) /\ Planned(v) /\ OthersKept(s, v, "Spu")
      /\ e \in Nat /\ v.last["Spu"] = s.last["Spu"] + e
      /\ e > 0 => v.last["Spu"] = s.cycle
      /\ e = 0 => s.last["Spu"] >= s.cycle
  BY ResyncLemma DEF Tokens
<1>3. k \in Nat /\ e % AudioDiv \in 0 .. AudioDiv - 1 /\ e = k * AudioDiv + (e % AudioDiv)
  <2> HIDE DEF e
  <2>3. e \in Nat
    BY <1>2
  <2>1. k \in Int /\ e % AudioDiv \in 0 .. AudioDiv - 1 /\ e = k * AudioDiv + (e % AudioDiv)
    BY <2>3, ConstantsAreNat, DivMod
  <2>2. k >= 0
    BY <2>3, ConstantsAreNat
  <2> QED BY <2>1, <2>2
<1>4. PICK r \in Int : r = e % AudioDiv /\ r >= 0 /\ r < AudioDiv /\ e = k * AudioDiv + r
  BY <1>3, ConstantsAreNat
<1> HIDE DEF v, e, k
<1>5. DOMAIN v = Fields
  BY <1>2 DEF Keeps
<1>6. /\ Keeps(v, w, {"last"}) /\ Planned(w) /\ OthersKept(v, w, "Spu")
      /\ w.last["Spu"] = v.last["Spu"] - r
  BY <1>2, <1>4, <1>5, RewindLemma DEF Tokens
<1> HIDE DEF w
<1>7. DOMAIN w = Fields /\ Keeps(s, w, {"last"}) /\ w.spu = s.spu /\ w.samples = s.samples
  BY <1>2, <1>6 DEF Keeps, Fields
<1>8. /\ DOMAIN x = {"ram", "ptr", "voice"} /\ DOMAIN x.voice = VoiceFields
      /\ x.voice.played = s.spu.voice.played + k
      /\ x.voice.startedAt = s.spu.voice.startedAt /\ EnvelopeKept(x.voice) /\ SoundKept(x.voice)
  <2>1. PICK spu : spu = s.spu
    OBVIOUS
  <2>2. /\ DOMAIN spu = {"ram", "ptr", "voice"} /\ DOMAIN spu.voice = VoiceFields
        /\ spu.voice.played \in Int /\ EnvelopeKept(spu.voice) /\ SoundKept(spu.voice)
    BY <2>1 DEF SpuKept, VoiceKept
  <2>3. x = RunAudioCycles(spu, k)
    BY <1>7, <2>1
  <2> HIDE DEF x
  <2> QED BY <1>3, <2>1, <2>2, <2>3, RunAudioCyclesLemma
<1>9. /\ DOMAIN u = Fields /\ Keeps(w, u, {"samples", "spu"})
      /\ u.samples = s.samples + k /\ u.spu = x
  BY <1>7 DEF Keeps, Fields
<1> HIDE DEF u, x
<1>10. /\ u.last = w.last /\ u.next = w.next /\ u.first = w.first /\ u.cycle = w.cycle
       /\ u.base = w.base /\ w.base = s.base
  BY <1>7, <1>9 DEF Keeps, Fields
<1>11. Planned(u)
  BY <1>6, <1>10 DEF Planned
<1>12. /\ Keeps(u, t, {"next", "first"}) /\ Planned(t) /\ OthersKept(u, t, "Spu")
       /\ t.next["Spu"] = u.last["Spu"] + CpuFreq /\ Attained(t)
  BY <1>9, <1>11, ConstantsAreNat, NextEventLemma DEF Tokens
<1> HIDE DEF t
<1>13. Keeps(s, t, Dates \cup {"samples", "spu"})
  BY <1>7, <1>9, <1>12 DEF Keeps, Dates
<1>14. OthersKept(s, t, "Spu")
  BY <1>2, <1>6, <1>10, <1>12 DEF OthersKept
<1>15. /\ t.samples = s.samples + k /\ t.spu = x /\ t.base = s.base /\ t.last = w.last
  BY <1>9, <1>10, <1>12 DEF Keeps, Fields
<1>16. PICK l \in Int : l = s.last["Spu"] /\ l <= c
  BY DEF Planned, Tokens, SpuKept
<1>17. t.last["Spu"] = l + e - r
  <2>1. PICK z \in Int : z = v.last["Spu"] /\ z = l + e
    BY <1>2, <1>16
  <2>2. t.last["Spu"] = z - r
    BY <1>6, <1>15, <2>1
  <2>3. e \in Int
    BY <1>2
  <2> QED BY <2>1, <2>2, <2>3
<1>18. /\ e > 0 => l + e = s.cycle
       /\ e = 0 => l >= s.cycle
  BY <1>2, <1>16
<1>19. s.cycle \in Int /\ s.base \in Int /\ e \in Nat
  BY <1>2 DEF Planned
<1>20. SpuKept(t, c)
  <2>1. PICK y \in Int : y = s.samples /\ y * AudioDiv = s.base + l
    BY <1>16 DEF SpuKept
  <2>2. (y + k) * AudioDiv = s.base + (l + e - r)
    <3>1. (y + k) * AudioDiv = y * AudioDiv + k * AudioDiv
      BY <1>3, <2>1, ConstantsAreNat
    <3>2. k * AudioDiv \in Int /\ y * AudioDiv \in Int
      BY <1>3, <2>1, ConstantsAreNat
    <3> QED BY <1>4, <1>16, <1>19, <2>1, <3>1, <3>2
  <2>3. l + e - r <= c
    BY <1>4, <1>16, <1>18, <1>19
  <2>4. y + k \in Int /\ t.samples = y + k
    BY <1>3, <1>15, <2>1
  <2>5. VoiceKept(t)
    <3>1. VoiceKept(s)
      BY DEF SpuKept
    <3>2. t.spu.voice.played \in Int /\ t.spu.voice.startedAt \in Int
      BY <1>3, <1>8, <1>15, <3>1 DEF VoiceKept
    <3>3. t.spu.voice.startedAt # -1 =>
            t.spu.voice.played = t.samples - (t.spu.voice.startedAt \div AudioDiv)
      <4>1. PICK a \in Int, p \in Int : a = s.spu.voice.startedAt /\ p = s.spu.voice.played
        BY <3>1 DEF VoiceKept
      <4>2. PICK d \in Int : d = a \div AudioDiv
        BY <4>1, ConstantsAreNat
      <4>3. a # -1 => p = y - d
        BY <2>1, <3>1, <4>1, <4>2 DEF VoiceKept
      <4>4. a # -1 => p + k = (y + k) - d
        BY <1>3, <2>1, <4>1, <4>2, <4>3
      <4>5. t.spu.voice.startedAt = a /\ t.spu.voice.played = p + k
        BY <1>8, <1>15, <4>1
      <4> QED BY <2>4, <4>2, <4>4, <4>5
    <3> QED BY <1>8, <1>15, <3>2, <3>3 DEF VoiceKept
  <2> QED BY <1>15, <1>17, <2>2, <2>3, <2>4, <2>5 DEF SpuKept
<1>21. l <= s.cycle => l + e - r <= s.cycle /\ s.cycle < (l + e - r) + AudioDiv
  BY <1>4, <1>16, <1>18, <1>19, ConstantsAreNat
<1>22. t.next["Spu"] > s.cycle
  <2>1. l + e >= s.cycle
    BY <1>16, <1>18, <1>19
  <2>2. u.last["Spu"] = l + e - r
    BY <1>10, <1>15, <1>17
  <2>3. PICK n \in Int : n = l + e
    BY <1>16, <1>19
  <2> QED BY <1>4, <1>12, <1>19, <2>1, <2>2, <2>3, ConstantsAreNat, Proportions
<1> QED BY <1>1, <1>12, <1>13, <1>14, <1>16, <1>17, <1>20, <1>21, <1>22

\* A change of the sound processor only.
LEMMA SpuOnly ==
  ASSUME NEW s, NEW t, NEW c, Good(s, c),
         Keeps(s, t, Dates \cup {"samples", "spu"}), OthersKept(s, t, "Spu"),
         Planned(t), SpuKept(t, c)
  PROVE  Good(t, c)
<1> DEFINE F == Dates \cup {"samples", "spu"}
<1>1. {"program", "frames", "gpu", "base", "input", "mtime", "mtimecmp",
       "dma", "asked", "delivered", "done"} \cap F = {}
  BY DEF Dates
<1>2. DOMAIN t = Fields /\ DOMAIN s = Fields
  BY DEF Good, Keeps
<1>3. t.mip = s.mip /\ t.mie = s.mie /\ t.irqOn = s.irqOn /\ t.unchecked = s.unchecked /\ t.wfi = s.wfi
  BY <1>2 DEF Keeps, Fields, Dates
<1> HIDE DEF F
<1>4. TimerKept(t, c) /\ TimerArmed(t)
  BY <1>1, <1>2, <1>3, TimerElsewhere DEF Good, Tokens, F
<1>5. GpuKept(t)
  BY <1>1, <1>2, GpuElsewhere DEF Good, Tokens, F
<1>6. InputKept(t) /\ DmaKept(t, c)
  BY <1>1, <1>2, InputElsewhere, DmaElsewhere DEF Good, Tokens, F
<1>7. IrqSafe(t)
  BY <1>3 DEF Good, IrqSafe
<1> QED BY <1>2, <1>4, <1>5, <1>6, <1>7 DEF Good

LEMMA SpuRunGood ==
  ASSUME NEW s, NEW c \in Int, Good(s, c), s.cycle <= c
  PROVE  Good(SpuRun(s), c) /\ Keeps(s, SpuRun(s), Dates \cup {"samples", "spu"})
BY SpuRunLemma, SpuOnly DEF Good

LEMMA SpuMovesOn ==
  ASSUME NEW s, NEW c \in Int, Good(s, c), s.cycle <= c, Timely(s)
  PROVE  Onward(s, SpuRun(s)) /\ Done(s, SpuRun(s), "Spu")
<1> DEFINE t == SpuRun(s)
           F == Dates \cup {"samples", "spu"}
<1>1. /\ Keeps(s, t, F) /\ OthersKept(s, t, "Spu") /\ Planned(t)
      /\ Attained(t) /\ t.next["Spu"] > s.cycle
  BY SpuRunLemma DEF Good
<1>2. "gpu" \notin F /\ "wfi" \notin F /\ "Spu" \in Tokens \ {"Gpu"} /\ "Spu" # "InputDev"
  BY DEF Dates, Tokens
<1> HIDE DEF t, F
<1>3. t.next["Spu"] >= s.cycle /\ DOMAIN s = Fields
  BY <1>1 DEF Good, Planned, Tokens
<1>4. StaysAwake(s, t)
  BY <1>1, <1>2, <1>3 DEF Keeps, Fields, StaysAwake
<1>5. Onward(s, t)
  BY <1>1, <1>2, <1>3, <1>4, OnwardAlone DEF Timely
<1> QED BY <1>1, <1>5, DoneAlone DEF t

\* A store starts the voice at its date, or leaves the date of its start.
LEMMA SpuWriteLemma ==
  ASSUME NEW spu, DOMAIN spu = {"ram", "ptr", "voice"}, DOMAIN spu.voice = VoiceFields,
         EnvelopeKept(spu.voice), SoundKept(spu.voice), NEW w, IsStore(w), NEW date
  PROVE  LET x == SpuWrite(spu, w, date)
         IN  /\ DOMAIN x = {"ram", "ptr", "voice"} /\ DOMAIN x.voice = VoiceFields
             /\ \/ x.voice.played = spu.voice.played /\ x.voice.startedAt = spu.voice.startedAt
                \/ x.voice.played = 0 /\ x.voice.startedAt = date
             /\ EnvelopeKept(x.voice) /\ SoundKept(x.voice)
<1> DEFINE Fits(y) ==
             /\ DOMAIN y = VoiceFields
             /\ \/ y.played = spu.voice.played /\ y.startedAt = spu.voice.startedAt
                \/ y.played = 0 /\ y.startedAt = date
             /\ EnvelopeKept(y) /\ SoundKept(y)
           Ok(x) == DOMAIN x = {"ram", "ptr", "voice"} /\ Fits(x.voice)
           v == spu.voice
<1>1. \A y : Fits(y) => Ok([spu EXCEPT !.voice = y])
  <2> HIDE DEF Fits
  <2> QED OBVIOUS
<1>2. Ok([spu EXCEPT !.voice = Start(@, date)])
  <2> DEFINE y == Start(v, date)
  <2>1. /\ DOMAIN y = VoiceFields /\ y.played = 0 /\ y.startedAt = date
        /\ y.level = 0 /\ y.params = v.params /\ y.state = "Attack"
        /\ y.queue = v.queue /\ y.line = v.queue /\ y.heard = 0 /\ y.phase = 0 /\ y.step = v.step
    BY DEF Start, VoiceFields
  <2> HIDE DEF y
  <2>2. EnvelopeKept(y)
    <3>1. IsLevel(y.level) /\ y.state \in Phases
      BY <2>1 DEF IsLevel, Within, Phases, Max16
    <3>2. ParamsKept(y.params)
      BY <2>1 DEF EnvelopeKept
    <3> QED BY <3>1, <3>2 DEF EnvelopeKept
  <2>5. SoundKept(y)
    <3>1. PICK q : q = v.queue
      OBVIOUS
    <3>2. IsSeq(q) /\ Len(q) <= Ahead + 3 /\ v.step \in Nat
      BY <3>1 DEF SoundKept, LineKept
    <3>3. q = SubSeq(q, 0 + 1, Len(q)) /\ Len(q) \in Nat
      BY <3>2, SubSeqFull DEF IsSeq
    <3>4. 0 \in 0 .. Len(q)
      BY <3>3
    <3>5. LineKept(y)
      BY <2>1, <3>1, <3>2, <3>3, <3>4 DEF LineKept
    <3> QED BY <2>1, <3>1, <3>2, <3>5 DEF SoundKept
  <2>3. Fits(y)
    BY <2>1, <2>2, <2>5
  <2>4. [spu EXCEPT !.voice = Start(@, date)] = [spu EXCEPT !.voice = y]
    BY DEF y
  <2> HIDE DEF Ok, Fits
  <2> QED BY <1>1, <2>3, <2>4
<1>3. Ok([spu EXCEPT !.voice = Release(@)])
  <2> DEFINE y == Release(v)
  <2>1. /\ DOMAIN y = VoiceFields /\ y.played = v.played /\ y.startedAt = v.startedAt
        /\ y.level = v.level /\ y.params = v.params /\ y.state = "Release"
        /\ y.queue = v.queue /\ y.line = v.line /\ y.heard = v.heard
        /\ y.phase = v.phase /\ y.step = v.step
    BY DEF Release, VoiceFields
  <2> HIDE DEF y
  <2>2. EnvelopeKept(y)
    <3>1. y.state \in Phases
      BY <2>1 DEF Phases
    <3> QED BY <2>1, <3>1, EnvelopeSame
  <2>5. SoundKept(y)
    BY <2>1, SoundSame
  <2>3. Fits(y)
    BY <2>1, <2>2, <2>5
  <2>4. [spu EXCEPT !.voice = Release(@)] = [spu EXCEPT !.voice = y]
    BY DEF y
  <2> HIDE DEF Ok, Fits
  <2> QED BY <1>1, <2>3, <2>4
<1>4. Ok([spu EXCEPT !.ptr = w[2]])
  OBVIOUS
<1>5. Ok(RamStore(RamStore(spu, w[2]), w[3]))
  <2>1. \A y, z : DOMAIN y = {"ram", "ptr", "voice"} =>
          DOMAIN RamStore(y, z) = {"ram", "ptr", "voice"} /\ RamStore(y, z).voice = y.voice
    BY DEF RamStore
  <2>2. Fits(spu.voice)
    OBVIOUS
  <2> HIDE DEF Fits
  <2> QED BY <2>1, <2>2
<1>6. /\ w[1] = "step" => Ok([spu EXCEPT !.voice.step = w[2]])
      /\ \A y : Ok([spu EXCEPT !.voice.start = y])
  <2>1. ASSUME NEW y, NEW a, a = [v EXCEPT !.step = y] \/ a = [v EXCEPT !.start = y],
               a.step \in Nat
        PROVE  Fits(a)
    <3>1. /\ DOMAIN a = VoiceFields /\ a.played = v.played /\ a.startedAt = v.startedAt
          /\ a.level = v.level /\ a.params = v.params /\ a.state = v.state
          /\ a.queue = v.queue /\ a.line = v.line /\ a.heard = v.heard /\ a.phase = v.phase
      BY <2>1 DEF VoiceFields
    <3>2. EnvelopeKept(a)
      BY <3>1, EnvelopeSame
    <3>3. SoundKept(a)
      BY <2>1, <3>1, SoundSame
    <3> QED BY <3>1, <3>2, <3>3
  <2>2. ASSUME NEW y
        PROVE  /\ [spu EXCEPT !.voice.step = y] = [spu EXCEPT !.voice = [v EXCEPT !.step = y]]
               /\ [spu EXCEPT !.voice.start = y] = [spu EXCEPT !.voice = [v EXCEPT !.start = y]]
               /\ [v EXCEPT !.step = y].step = y /\ [v EXCEPT !.start = y].step = v.step
    BY DEF VoiceFields
  <2>3. v.step \in Nat /\ (w[1] = "step" => w[2] \in Nat)
    BY DEF SoundKept, IsStore
  <2> HIDE DEF Ok, Fits, v
  <2>4. \A y : Fits([v EXCEPT !.start = y])
    BY <2>1, <2>2, <2>3
  <2>5. w[1] = "step" => Fits([v EXCEPT !.step = w[2]])
    BY <2>1, <2>2, <2>3
  <2> QED BY <1>1, <2>2, <2>4, <2>5
<1>7. w[1] = "adsr" => Ok([spu EXCEPT !.voice.params = Params(w[2])])
  <2> SUFFICES ASSUME w[1] = "adsr" PROVE Ok([spu EXCEPT !.voice.params = Params(w[2])])
    OBVIOUS
  <2>1. ParamsKept(Params(w[2]))
    BY ParamsLemma DEF IsStore
  <2> DEFINE a == [v EXCEPT !.params = Params(w[2])]
  <2>2. /\ DOMAIN a = VoiceFields /\ a.played = v.played /\ a.startedAt = v.startedAt
        /\ a.level = v.level /\ a.params = Params(w[2]) /\ a.state = v.state
        /\ a.queue = v.queue /\ a.line = v.line /\ a.heard = v.heard
        /\ a.phase = v.phase /\ a.step = v.step
    BY DEF VoiceFields
  <2>3. [spu EXCEPT !.voice.params = Params(w[2])] = [spu EXCEPT !.voice = a]
    OBVIOUS
  <2> HIDE DEF a
  <2>4. EnvelopeKept(a)
    <3>1. IsLevel(a.level)
      BY <2>1, <2>2 DEF EnvelopeKept
    <3>2. ParamsKept(a.params)
      BY <2>1, <2>2 DEF EnvelopeKept
    <3>3. a.state \in Phases \cup {"Stopped"}
      BY <2>2 DEF EnvelopeKept
    <3> QED BY <3>1, <3>2, <3>3 DEF EnvelopeKept
  <2>6. SoundKept(a)
    BY <2>2, SoundSame
  <2>5. Fits(a)
    BY <2>2, <2>4, <2>6
  <2> HIDE DEF Ok, Fits
  <2> QED BY <1>1, <2>3, <2>5
<1>8. w[1] = "level" => Ok([spu EXCEPT !.voice.level = w[2]])
  <2> SUFFICES ASSUME w[1] = "level" PROVE Ok([spu EXCEPT !.voice.level = w[2]])
    OBVIOUS
  <2>1. IsLevel(w[2])
    <3>1. PICK most \in Int : most = Max16
      BY DEF Max16
    <3>2. w[2] \in 0 .. most
      BY <3>1 DEF IsStore
    <3> QED BY <3>1, <3>2 DEF IsLevel, Within
  <2> DEFINE a == [v EXCEPT !.level = w[2]]
  <2>2. /\ DOMAIN a = VoiceFields /\ a.played = v.played /\ a.startedAt = v.startedAt
        /\ a.level = w[2] /\ a.params = v.params /\ a.state = v.state
        /\ a.queue = v.queue /\ a.line = v.line /\ a.heard = v.heard
        /\ a.phase = v.phase /\ a.step = v.step
    BY DEF VoiceFields
  <2>3. [spu EXCEPT !.voice.level = w[2]] = [spu EXCEPT !.voice = a]
    OBVIOUS
  <2> HIDE DEF a
  <2>4. EnvelopeKept(a)
    <3>1. IsLevel(a.level)
      BY <2>1, <2>2 DEF EnvelopeKept
    <3>2. ParamsKept(a.params)
      BY <2>1, <2>2 DEF EnvelopeKept
    <3>3. a.state \in Phases \cup {"Stopped"}
      BY <2>2 DEF EnvelopeKept
    <3> QED BY <3>1, <3>2, <3>3 DEF EnvelopeKept
  <2>6. SoundKept(a)
    BY <2>2, SoundSame
  <2>5. Fits(a)
    BY <2>2, <2>4, <2>6
  <2> HIDE DEF Ok, Fits
  <2> QED BY <1>1, <2>3, <2>5
<1>9. w[1] \in SpuRegisters
  BY DEF IsStore
<1>10. Ok(SpuWrite(spu, w, date))
  <2> HIDE DEF Ok
  <2> QED BY <1>2, <1>3, <1>4, <1>5, <1>6, <1>7, <1>8, <1>9, Zenon DEF SpuWrite, SpuRegisters
<1> QED BY <1>10

LEMMA SpuStoreGood ==
  ASSUME NEW s, NEW c \in Int, Good(s, c), s.cycle = c, NEW w, IsStore(w)
  PROVE  /\ Good(SpuStore(s, w), c) /\ Keeps(s, SpuStore(s, w), Dates \cup {"samples", "spu"})
         /\ Timely(s) => Onward(s, SpuStore(s, w))
<1> DEFINE u == SpuRun(s)
           date == s.base + s.cycle
           x == SpuWrite(u.spu, w, date)
           t == [u EXCEPT !.spu = SpuWrite(@, w, date)]
<1>1. SpuStore(s, w) = t
  BY DEF SpuStore
<1>11. Timely(s) => Onward(s, u)
  BY SpuMovesOn DEF Good, Planned
<1>2. /\ Keeps(s, u, Dates \cup {"samples", "spu"}) /\ Good(u, c)
      /\ u.last["Spu"] <= s.cycle /\ s.cycle < u.last["Spu"] + AudioDiv
  <2>1. s.last["Spu"] <= s.cycle
    BY DEF Good, SpuKept
  <2>2. DOMAIN s = Fields /\ Planned(s) /\ SpuKept(s, c) /\ s.cycle <= c
    BY DEF Good, Planned
  <2>3. Good(u, c) /\ Keeps(s, u, Dates \cup {"samples", "spu"})
    BY <2>2, SpuRunGood
  <2>4. u.last["Spu"] <= s.cycle /\ s.cycle < u.last["Spu"] + AudioDiv
    BY <2>1, <2>2, SpuRunLemma
  <2> QED BY <2>3, <2>4
<1> HIDE DEF u
<1>3. DOMAIN u = Fields /\ SpuKept(u, c) /\ VoiceKept(u) /\ u.base = s.base /\ u.cycle = s.cycle
  BY <1>2 DEF Good, SpuKept, Keeps, Fields, Dates
<1>4. /\ DOMAIN x = {"ram", "ptr", "voice"} /\ DOMAIN x.voice = VoiceFields
      /\ \/ /\ x.voice.played = u.spu.voice.played
            /\ x.voice.startedAt = u.spu.voice.startedAt
         \/ x.voice.played = 0 /\ x.voice.startedAt = date
      /\ EnvelopeKept(x.voice) /\ SoundKept(x.voice)
  <2>1. DOMAIN u.spu = {"ram", "ptr", "voice"} /\ DOMAIN u.spu.voice = VoiceFields
        /\ EnvelopeKept(u.spu.voice) /\ SoundKept(u.spu.voice)
    BY <1>3 DEF VoiceKept
  <2>2. PICK y : y = u.spu
    OBVIOUS
  <2>3. PICK z : z = date
    OBVIOUS
  <2>4. DOMAIN y = {"ram", "ptr", "voice"} /\ DOMAIN y.voice = VoiceFields
        /\ EnvelopeKept(y.voice) /\ SoundKept(y.voice)
    BY <2>1, <2>2
  <2>5. x = SpuWrite(y, w, z)
    BY <2>2, <2>3
  <2> HIDE DEF date, x
  <2>6. /\ DOMAIN x = {"ram", "ptr", "voice"} /\ DOMAIN x.voice = VoiceFields
        /\ \/ x.voice.played = y.voice.played /\ x.voice.startedAt = y.voice.startedAt
           \/ x.voice.played = 0 /\ x.voice.startedAt = z
        /\ EnvelopeKept(x.voice) /\ SoundKept(x.voice)
    BY <2>4, <2>5, SpuWriteLemma
  <2> QED BY <2>2, <2>3, <2>6
<1>5. Keeps(u, t, {"spu"}) /\ t.spu = x
  BY <1>3 DEF Keeps, Fields
<1> HIDE DEF t, x
<1>6. /\ t.last = u.last /\ t.next = u.next /\ t.first = u.first /\ t.cycle = u.cycle
      /\ t.base = u.base /\ t.samples = u.samples
  BY <1>3, <1>5 DEF Keeps, Fields
<1>7. VoiceKept(t)
  <2>1. CASE x.voice.played = u.spu.voice.played /\ x.voice.startedAt = u.spu.voice.startedAt
    BY <1>3, <1>4, <1>5, <1>6, <2>1 DEF VoiceKept
  <2>2. CASE x.voice.played = 0 /\ x.voice.startedAt = date
    <3>1. PICK a \in Int, b \in Int, l \in Int, y \in Int :
            /\ a = s.base /\ b = s.cycle /\ l = u.last["Spu"] /\ y = u.samples
            /\ y * AudioDiv = a + l /\ l <= b /\ b < l + AudioDiv
      <4>1. s.base \in Int /\ s.cycle \in Int /\ u.last["Spu"] \in Int
        BY <1>2 DEF Good, Planned, Tokens
      <4> QED BY <1>2, <1>3, <4>1 DEF SpuKept
    <3>2. a + b = y * AudioDiv + (b - l) /\ b - l \in 0 .. AudioDiv - 1
      <4>1. PICK z \in Int : z = y * AudioDiv /\ z = a + l
        BY <3>1, ConstantsAreNat
      <4> QED BY <3>1, <4>1, ConstantsAreNat
    <3>3. (a + b) \div AudioDiv = y
      <4>1. PICK n \in Int, r \in 0 .. AudioDiv - 1 :
              n = a + b /\ r = b - l /\ n = y * AudioDiv + r
        BY <3>1, <3>2
      <4> QED BY <3>1, <4>1, DivIs, ConstantsAreNat
    <3>4. date = a + b /\ date \in Int
      BY <3>1
    <3>5. 0 = u.samples - (date \div AudioDiv)
      BY <3>1, <3>3, <3>4
    <3> HIDE DEF date
    <3> QED BY <1>4, <1>5, <1>6, <2>2, <3>4, <3>5 DEF VoiceKept
  <2> QED BY <1>4, <2>1, <2>2
<1>8. SpuKept(t, c) /\ Planned(t) /\ OthersKept(u, t, "Spu")
  BY <1>2, <1>3, <1>6, <1>7 DEF SpuKept, Good, Planned, OthersKept
<1>9. Keeps(u, t, Dates \cup {"samples", "spu"}) /\ Keeps(s, t, Dates \cup {"samples", "spu"})
  BY <1>2, <1>5 DEF Keeps
<1>10. Good(t, c)
  BY <1>2, <1>8, <1>9, SpuOnly
<1>12. Timely(s) => Onward(s, t)
  <2>1. t.wfi = u.wfi /\ t.gpu = u.gpu
    BY <1>3, <1>5 DEF Keeps, Fields
  <2> QED BY <1>6, <1>11, <2>1, OnwardStill
<1> QED BY <1>1, <1>9, <1>10, <1>12

-----------------------------------------------------------------------------
(* The input port *)

LEMMA TransmitByteLemma ==
  ASSUME NEW s, DOMAIN s = Fields, IrqSafe(s), InputKept(s), s.input.count >= s.input.div
  PROVE  LET t == TransmitByte(s)
         IN  /\ Keeps(s, t, Irq \cup {"input"}) /\ IrqSafe(t) /\ InputKept(t)
             /\ "MTI" \in t.mip <=> "MTI" \in s.mip
             /\ t.input.div = s.input.div /\ t.input.count = s.input.count - s.input.div
             /\ StaysAwake(s, t)
<1> DEFINE in == s.input
           sent == [in EXCEPT !.count = @ - in.div,
                              !.tx = IF @ = <<>> THEN @ ELSE Tail(@),
                              !.rx = Push(@, IF in.tx = <<>> THEN "none" ELSE Head(in.tx))]
           u == [s EXCEPT !.input = sent]
           t == IF sent.tx = <<>> /\ sent.irq THEN RaiseIrq(u, "InputDev") ELSE u
<1>1. TransmitByte(s) = t
  BY DEF TransmitByte
<1>2. /\ DOMAIN sent = {"tx", "rx", "irq", "div", "count"} /\ sent.div = in.div
      /\ sent.count = in.count - in.div
      /\ sent.tx = IF in.tx = <<>> THEN in.tx ELSE Tail(in.tx)
  BY DEF InputKept
<1> HIDE DEF sent
<1>3. IsSeq(sent.tx)
  BY <1>2, TailIsSeq DEF InputKept
<1>4. in.count - in.div \in Nat
  BY DEF InputKept
<1>5. /\ DOMAIN u = Fields /\ Keeps(s, u, {"input"}) /\ u.input = sent /\ u.mip = s.mip
      /\ IrqSafe(u) /\ u.wfi = s.wfi
  BY DEF Keeps, Fields, IrqSafe
<1> HIDE DEF u
<1>6. InputKept(u)
  BY <1>2, <1>3, <1>4, <1>5 DEF InputKept
<1>7. CASE sent.tx = <<>> /\ sent.irq
  <2> DEFINE r == RaiseIrq(u, "InputDev")
  <2>1. /\ Keeps(u, r, Irq) /\ IrqSafe(r) /\ ("MTI" \in r.mip <=> "MTI" \in u.mip)
        /\ StaysAwake(u, r)
    BY <1>5, RaiseIrqLemma DEF Irq
  <2>2. t = r
    BY <1>7
  <2> HIDE DEF r, t
  <2>3. r.input = sent
    BY <1>5, <2>1 DEF Keeps, Fields, Irq, Cpu
  <2>4. Keeps(s, r, Irq \cup {"input"})
    BY <1>5, <2>1 DEF Keeps
  <2>5. InputKept(r)
    BY <1>5, <1>6, <2>3 DEF InputKept
  <2> QED BY <1>1, <1>2, <1>5, <2>1, <2>2, <2>3, <2>4, <2>5 DEF StaysAwake
<1>8. CASE ~(sent.tx = <<>> /\ sent.irq)
  <2>1. t = u
    BY <1>8
  <2>2. Keeps(s, u, Irq \cup {"input"})
    BY <1>5 DEF Keeps
  <2> HIDE DEF t
  <2> QED BY <1>1, <1>2, <1>5, <1>6, <2>1, <2>2 DEF StaysAwake
<1> QED BY <1>7, <1>8

\* No whole byte is left to transmit.
LEMMA TransmitLemma ==
  ASSUME NEW s, DOMAIN s = Fields, IrqSafe(s), InputKept(s)
  PROVE  LET t == Transmit(s)
         IN  /\ Keeps(s, t, Irq \cup {"input"}) /\ IrqSafe(t) /\ InputKept(t)
             /\ "MTI" \in t.mip <=> "MTI" \in s.mip
             /\ StaysAwake(s, t) /\ t.input.count < t.input.div
<1> DEFINE k == s.input.count \div s.input.div
           Body(f, b) == [n \in 0 .. b |-> IF n = 0 THEN s ELSE TransmitByte(f[n - 1])]
<1>1. /\ k \in Nat /\ k * s.input.div <= s.input.count
      /\ s.input.count - k * s.input.div < s.input.div
  <2>1. PICK a \in Nat, d \in Nat \ {0} : a = s.input.count /\ d = s.input.div
    BY DEF InputKept
  <2>2. a \div d \in Int /\ a % d \in 0 .. d - 1 /\ a = (a \div d) * d + (a % d)
    BY DivMod
  <2>3. a \div d \in Nat
    BY <2>1
  <2>4. PICK q \in Nat, r \in Nat : q = a \div d /\ a = q * d + r /\ r < d
    BY <2>2, <2>3
  <2>6. PICK x \in Int : x = q * d
    BY <2>1, <2>4
  <2>5. q * d <= a /\ a - q * d < d
    BY <2>4, <2>6
  <2> QED BY <2>1, <2>4, <2>5
<1> HIDE DEF k
<1>2. \E f : f = Body(f, k)
  <2> DEFINE T == {b \in Nat : ~\E f : f = Body(f, b)}
  <2>1. SUFFICES T = {}
    BY <1>1
  <2>2. SUFFICES ASSUME T # {} PROVE FALSE
    OBVIOUS
  <2>3. PICK b \in T : \A y \in T : b <= y
    BY <2>2, Smallest
  <2>4. b # 0
    <3>1. SUFFICES ASSUME b = 0 PROVE FALSE
      OBVIOUS
    <3>2. [n \in 0 .. 0 |-> s] = Body([n \in 0 .. 0 |-> s], 0)
      OBVIOUS
    <3> QED BY <2>3, <3>1, <3>2
  <2>5. b - 1 \in Nat /\ b - 1 \notin T
    <3>1. b \in Nat
      BY <2>3
    <3> HIDE DEF T
    <3> QED BY <2>3, <2>4, <3>1
  <2>6. PICK f : f = Body(f, b - 1)
    BY <2>5
  <2> DEFINE h == [n \in 0 .. b |-> IF n = b THEN TransmitByte(f[b - 1]) ELSE f[n]]
  <2>7. h = Body(h, b)
    <3>1. ASSUME NEW n \in 0 .. b
          PROVE  h[n] = IF n = 0 THEN s ELSE TransmitByte(h[n - 1])
      <4>1. CASE n = b
        <5>1. b - 1 \in 0 .. b /\ b - 1 # b /\ h[b - 1] = f[b - 1]
          BY <2>5
        <5> QED BY <2>4, <4>1, <5>1
      <4>2. CASE n # b
        <5>1. n \in 0 .. b - 1 /\ h[n] = f[n]
          BY <2>3, <4>2
        <5>2. f[n] = IF n = 0 THEN s ELSE TransmitByte(f[n - 1])
          BY <2>6, <5>1
        <5>3. n # 0 => n - 1 \in 0 .. b /\ n - 1 # b /\ h[n - 1] = f[n - 1]
          BY <2>3, <5>1
        <5> QED BY <5>1, <5>2, <5>3
      <4> QED BY <4>1, <4>2
    <3> QED BY <3>1
  <2> QED BY <2>3, <2>7
<1> DEFINE after == CHOOSE f : f = Body(f, k)
<1>3. after = Body(after, k)
  BY <1>2
<1>4. Transmit(s) = after[k]
  BY DEF Transmit, k
<1> HIDE DEF after
<1>5. after[0] = s /\ \A n \in 1 .. k : after[n] = TransmitByte(after[n - 1])
  BY <1>1, <1>3
<1> DEFINE Well(n) ==
             /\ Keeps(s, after[n], Irq \cup {"input"}) /\ IrqSafe(after[n]) /\ InputKept(after[n])
             /\ "MTI" \in after[n].mip <=> "MTI" \in s.mip
             /\ after[n].input.div = s.input.div
             /\ after[n].input.count = s.input.count - n * s.input.div
             /\ StaysAwake(s, after[n])
           T == {n \in 0 .. k : ~Well(n)}
<1>6. T = {}
  <2>1. SUFFICES ASSUME T # {} PROVE FALSE
    OBVIOUS
  <2>2. PICK n \in T : \A y \in T : n <= y
    <3>1. T \subseteq Nat
      OBVIOUS
    <3> HIDE DEF T
    <3> QED BY <2>1, <3>1, Smallest
  <2>3. Well(0)
    <3>1. s.input.count - 0 * s.input.div = s.input.count
      BY DEF InputKept
    <3>2. Keeps(s, s, Irq \cup {"input"}) /\ StaysAwake(s, s)
      BY DEF Keeps, StaysAwake
    <3> QED BY <1>5, <3>1, <3>2
  <2> HIDE DEF Well
  <2>4. n \in 1 .. k /\ n - 1 \in 0 .. k /\ Well(n - 1)
    BY <1>1, <2>2, <2>3
  <2> DEFINE w == after[n - 1]
             t == after[n]
  <2>5. t = TransmitByte(w)
    BY <1>5, <2>4
  <2>6. /\ Keeps(s, w, Irq \cup {"input"}) /\ IrqSafe(w) /\ InputKept(w)
        /\ "MTI" \in w.mip <=> "MTI" \in s.mip
        /\ w.input.div = s.input.div
        /\ w.input.count = s.input.count - (n - 1) * s.input.div
        /\ StaysAwake(s, w)
    BY <2>4 DEF Well
  <2> HIDE DEF w, t
  <2>7. PICK a \in Nat, d \in Nat \ {0} : a = s.input.count /\ d = s.input.div
    BY DEF InputKept
  <2>8. a - (n - 1) * d >= d /\ (a - (n - 1) * d) - d = a - n * d
    <3>1. PICK i \in Nat : i = n - 1 /\ n = i + 1 /\ i + 1 <= k
      BY <1>1, <2>4
    <3>2. (i + 1) * d <= k * d /\ (i + 1) * d = i * d + d
      BY <1>1, <3>1
    <3>3. PICK x \in Int, y \in Int : x = i * d /\ y = k * d
      BY <1>1
    <3>4. x + d <= y /\ y <= a
      BY <1>1, <2>7, <3>2, <3>3
    <3>5. a - x >= d /\ (a - x) - d = a - (x + d)
      BY <3>3, <3>4
    <3>6. n * d = x + d /\ (n - 1) * d = x
      BY <3>1, <3>2, <3>3
    <3> QED BY <3>5, <3>6
  <2>9. /\ Keeps(w, t, Irq \cup {"input"}) /\ IrqSafe(t) /\ InputKept(t)
        /\ "MTI" \in t.mip <=> "MTI" \in w.mip
        /\ t.input.div = w.input.div /\ t.input.count = w.input.count - w.input.div
        /\ StaysAwake(w, t)
    <3>1. DOMAIN w = Fields
      BY <2>6 DEF Keeps
    <3>2. w.input.count >= w.input.div
      BY <2>6, <2>7, <2>8
    <3> QED BY <2>5, <2>6, <3>1, <3>2, TransmitByteLemma
  <2>10. t.input.count = s.input.count - n * s.input.div
    BY <2>6, <2>7, <2>8, <2>9
  <2>11. Keeps(s, t, Irq \cup {"input"})
    BY <2>6, <2>9 DEF Keeps
  <2>13. StaysAwake(s, t)
    BY <2>6, <2>9 DEF StaysAwake
  <2>12. Well(n)
    BY <2>6, <2>9, <2>10, <2>11, <2>13 DEF Well, t
  <2> QED BY <2>2, <2>12
<1>7. Well(k)
  <2> HIDE DEF Well
  <2> QED BY <1>1, <1>6
<1>8. after[k].input.count < after[k].input.div
  BY <1>1, <1>7
<1> QED BY <1>4, <1>7, <1>8

\* A change of the input port only.
LEMMA InputOnly ==
  ASSUME NEW s, NEW t, NEW c, Good(s, c),
         Keeps(s, t, Irq \cup Dates \cup {"input"}), OthersKept(s, t, "InputDev"),
         "MTI" \in t.mip <=> "MTI" \in s.mip, IrqSafe(t), Planned(t), InputKept(t)
  PROVE  Good(t, c)
<1> DEFINE F == Irq \cup Dates \cup {"input"}
<1>1. {"program", "frames", "gpu", "samples", "spu", "base", "mtime", "mtimecmp",
       "dma", "asked", "delivered", "done"} \cap F = {}
  BY DEF Irq, Cpu, Dates
<1> HIDE DEF F
<1>2. DOMAIN t = Fields /\ DOMAIN s = Fields
  BY DEF Good, Keeps
<1>3. SpuKept(t, c)
  BY <1>1, <1>2, SpuElsewhere DEF Good, Tokens, F
<1>4. TimerKept(t, c) /\ TimerArmed(t)
  BY <1>1, <1>2, TimerElsewhere DEF Good, Tokens, F
<1>5. GpuKept(t)
  BY <1>1, <1>2, GpuElsewhere DEF Good, Tokens, F
<1>6. DmaKept(t, c)
  BY <1>1, <1>2, DmaElsewhere DEF Good, Tokens, F
<1> QED BY <1>2, <1>3, <1>4, <1>5, <1>6 DEF Good

LEMMA PlanEndGood ==
  ASSUME NEW s, NEW c \in Int, Good(s, c), NEW delay \in Int
  PROVE  LET t == NextEvent(s, "InputDev", delay)
         IN  /\ Good(t, c) /\ Keeps(s, t, {"next", "first"}) /\ OthersKept(s, t, "InputDev")
             /\ Attained(t) /\ t.next["InputDev"] = s.last["InputDev"] + delay
<1> DEFINE t == NextEvent(s, "InputDev", delay)
<1>1. /\ Keeps(s, t, {"next", "first"}) /\ Planned(t) /\ OthersKept(s, t, "InputDev")
      /\ Attained(t) /\ t.next["InputDev"] = s.last["InputDev"] + delay
  BY NextEventLemma DEF Good, Tokens
<1> HIDE DEF t
<1>2. DOMAIN s = Fields
  BY DEF Good
<1>3. Keeps(s, t, Irq \cup Dates \cup {"input"})
  BY <1>1 DEF Keeps, Dates
<1>4. /\ t.mip = s.mip /\ t.mie = s.mie /\ t.irqOn = s.irqOn /\ t.wfi = s.wfi
      /\ t.unchecked = s.unchecked
      /\ t.input = s.input
  BY <1>1, <1>2 DEF Keeps, Fields
<1>5. IrqSafe(t) /\ InputKept(t)
  BY <1>4 DEF Good, IrqSafe, InputKept
<1> QED BY <1>1, <1>3, <1>4, <1>5, InputOnly DEF t

\* A change of the port's own state, before its events are planned.
LEMMA InputSet ==
  ASSUME NEW s, NEW t, NEW c \in Int, Good(s, c), Keeps(s, t, {"input"}), InputKept(t)
  PROVE  Good(t, c)
<1>1. DOMAIN s = Fields
  BY DEF Good
<1>2. /\ t.last = s.last /\ t.next = s.next /\ t.first = s.first /\ t.cycle = s.cycle
      /\ t.base = s.base
      /\ t.mip = s.mip /\ t.mie = s.mie /\ t.irqOn = s.irqOn /\ t.wfi = s.wfi
      /\ t.unchecked = s.unchecked
  BY <1>1 DEF Keeps, Fields
<1>3. IrqSafe(t) /\ Planned(t) /\ OthersKept(s, t, "InputDev")
  BY <1>2 DEF Good, IrqSafe, Planned, OthersKept
<1>4. Keeps(s, t, Irq \cup Dates \cup {"input"})
  BY DEF Keeps
<1> QED BY <1>2, <1>3, <1>4, InputOnly

LEMMA InputRunGood ==
  ASSUME NEW s, NEW c \in Int, Good(s, c)
  PROVE  LET t == InputRun(s)
         IN  /\ Good(t, c) /\ Keeps(s, t, Irq \cup Dates \cup {"input"})
             /\ OthersKept(s, t, "InputDev") /\ Attained(t) /\ StaysAwake(s, t)
             /\ t.next["InputDev"] > s.cycle
             /\ t.last["InputDev"] \in {s.last["InputDev"], s.cycle}
<1> DEFINE e == Elapsed(s, "InputDev")
           u == [s EXCEPT !.input.count = @ + e]
           v == Resync(u, "InputDev")
           w == [v EXCEPT !.input.count = 0]
           x == Transmit(v)
           delay == IF x.input.tx = <<>> THEN CpuFreq
                    ELSE x.input.div * Len(x.input.tx) - x.input.count
<1>1. InputRun(s) = IF s.input.tx = <<>> THEN NextEvent(w, "InputDev", CpuFreq)
                    ELSE NextEvent(x, "InputDev", delay)
  BY DEF InputRun, PlanEnd
<1>2. DOMAIN s = Fields /\ Planned(s) /\ InputKept(s) /\ IrqSafe(s)
  BY DEF Good
<1>3. e \in Nat
  BY <1>2, ResyncLemma DEF Tokens
<1>4. Keeps(s, u, {"input"}) /\ InputKept(u)
  <2> HIDE DEF e
  <2>1. Keeps(s, u, {"input"}) /\ u.input = [s.input EXCEPT !.count = @ + e]
    BY <1>2 DEF Keeps, Fields
  <2>2. s.input.count + e \in Nat
    BY <1>2, <1>3 DEF InputKept
  <2> QED BY <1>2, <2>1, <2>2 DEF InputKept
<1> HIDE DEF u, e
<1>5. /\ Good(u, c) /\ DOMAIN u = Fields
      /\ u.last = s.last /\ u.next = s.next /\ u.cycle = s.cycle /\ u.wfi = s.wfi
  BY <1>2, <1>4, InputSet DEF Good, Keeps, Fields
<1>6. /\ Keeps(u, v, {"last"}) /\ Planned(v) /\ OthersKept(u, v, "InputDev")
      /\ v.last["InputDev"] >= s.cycle
      /\ v.last["InputDev"] \in {s.last["InputDev"], s.cycle}
  BY <1>5, ResyncLemma DEF Good, Tokens
<1> HIDE DEF v
<1>7. /\ DOMAIN v = Fields /\ v.input = u.input /\ v.mip = u.mip /\ v.mie = u.mie
      /\ v.irqOn = u.irqOn /\ v.unchecked = u.unchecked /\ v.wfi = u.wfi
  BY <1>5, <1>6 DEF Keeps, Fields
<1>11. OthersKept(s, v, "InputDev") /\ v.wfi = s.wfi
  BY <1>5, <1>6, <1>7 DEF OthersKept
<1>12. PICK l \in Int : l = v.last["InputDev"] /\ l >= s.cycle
  BY <1>6 DEF Planned, Tokens
<1>13. s.cycle \in Int
  BY <1>2 DEF Planned
<1>14. ASSUME NEW y, DOMAIN y = Fields, Keeps(v, y, Irq \cup {"input"}), StaysAwake(v, y),
              NEW delay1 \in Int, delay1 > 0, NEW t, t = NextEvent(y, "InputDev", delay1),
              Keeps(y, t, {"next", "first"}), OthersKept(y, t, "InputDev"),
              t.next["InputDev"] = y.last["InputDev"] + delay1
       PROVE  /\ OthersKept(s, t, "InputDev") /\ StaysAwake(s, t)
              /\ t.next["InputDev"] > s.cycle
              /\ t.last["InputDev"] \in {s.last["InputDev"], s.cycle}
  <2>1. y.last = v.last /\ y.next = v.next
    BY <1>7, <1>14 DEF Keeps, Fields, Irq, Cpu
  <2>2. t.last = y.last /\ t.wfi = y.wfi
    BY <1>14 DEF Keeps, Fields
  <2>3. OthersKept(s, t, "InputDev")
    BY <1>11, <1>14, <2>1 DEF OthersKept
  <2>4. StaysAwake(s, t)
    BY <1>11, <1>14, <2>2 DEF StaysAwake
  <2> QED BY <1>6, <1>12, <1>13, <1>14, <2>1, <2>2, <2>3, <2>4
<1>8. Good(v, c) /\ Keeps(s, v, Irq \cup Dates \cup {"input"})
  <2>1. IrqSafe(v) /\ InputKept(v)
    BY <1>5, <1>7 DEF Good, IrqSafe, InputKept
  <2>2. Keeps(u, v, Irq \cup Dates \cup {"input"})
    BY <1>6 DEF Keeps, Dates
  <2>3. Keeps(s, v, Irq \cup Dates \cup {"input"})
    BY <1>4, <1>6 DEF Keeps, Dates
  <2> QED BY <1>5, <1>6, <1>7, <2>1, <2>2, <2>3, InputOnly
<1>9. CASE s.input.tx = <<>>
  <2>1. Keeps(v, w, {"input"}) /\ InputKept(w)
    <3>1. Keeps(v, w, {"input"}) /\ w.input = [v.input EXCEPT !.count = 0]
      BY <1>7 DEF Keeps, Fields
    <3> QED BY <1>8, <3>1 DEF Good, InputKept
  <2> HIDE DEF w
  <2>2. Good(w, c)
    BY <1>8, <2>1, InputSet
  <2> DEFINE t == NextEvent(w, "InputDev", CpuFreq)
  <2>3. /\ Good(t, c) /\ Keeps(w, t, {"next", "first"}) /\ OthersKept(w, t, "InputDev")
        /\ Attained(t) /\ t.next["InputDev"] = w.last["InputDev"] + CpuFreq
    BY <2>2, PlanEndGood, ConstantsAreNat
  <2>4. Keeps(s, t, Irq \cup Dates \cup {"input"})
    BY <1>8, <2>1, <2>3 DEF Keeps, Dates
  <2>5. Keeps(v, w, Irq \cup {"input"}) /\ StaysAwake(v, w) /\ DOMAIN w = Fields
    BY <1>7, <2>1 DEF Keeps, StaysAwake, Fields
  <2>6. /\ OthersKept(s, t, "InputDev") /\ StaysAwake(s, t) /\ t.next["InputDev"] > s.cycle
        /\ t.last["InputDev"] \in {s.last["InputDev"], s.cycle}
    BY <1>14, <2>3, <2>5, ConstantsAreNat
  <2> QED BY <1>1, <1>9, <2>3, <2>4, <2>6
<1>10. CASE s.input.tx # <<>>
  <2>1. /\ Keeps(v, x, Irq \cup {"input"}) /\ IrqSafe(x) /\ InputKept(x)
        /\ "MTI" \in x.mip <=> "MTI" \in v.mip
        /\ StaysAwake(v, x) /\ x.input.count < x.input.div
    BY <1>7, <1>8, TransmitLemma DEF Good
  <2> HIDE DEF x
  <2>2. /\ x.last = v.last /\ x.next = v.next /\ x.first = v.first /\ x.cycle = v.cycle
        /\ x.base = v.base
    BY <1>7, <2>1 DEF Keeps, Fields, Irq, Cpu
  <2>3. Planned(x) /\ OthersKept(v, x, "InputDev")
    BY <1>8, <2>2 DEF Good, Planned, OthersKept
  <2>4. Keeps(v, x, Irq \cup Dates \cup {"input"})
    BY <2>1 DEF Keeps
  <2>5. Good(x, c)
    BY <1>8, <2>1, <2>3, <2>4, InputOnly
  <2>6. delay \in Int /\ delay > 0
    <3>1. Len(x.input.tx) \in Nat /\ x.input.div \in Nat /\ x.input.count \in Nat
      BY <2>1, LenOfSeq DEF InputKept
    <3>2. PICK a \in Nat, b \in Nat, d \in Nat :
            a = Len(x.input.tx) /\ b = x.input.div /\ d = x.input.count /\ d < b
      BY <2>1, <3>1
    <3>3. b * a - d \in Int
      OBVIOUS
    <3>4. x.input.tx # <<>> => a >= 1
      <4>1. PICK S : x.input.tx \in Seq(S)
        BY <2>1 DEF InputKept, IsSeq
      <4> QED BY <3>2, <4>1, EmptySeq
    <3>5. a >= 1 => b * a - d > 0
      <4>1. a >= 1 => b * a >= b
        OBVIOUS
      <4>2. PICK y \in Int : y = b * a
        OBVIOUS
      <4> QED BY <3>2, <4>1, <4>2
    <3> QED BY <3>2, <3>3, <3>4, <3>5, ConstantsAreNat
  <2> HIDE DEF delay
  <2> DEFINE t == NextEvent(x, "InputDev", delay)
  <2>7. /\ Good(t, c) /\ Keeps(x, t, {"next", "first"}) /\ OthersKept(x, t, "InputDev")
        /\ Attained(t) /\ t.next["InputDev"] = x.last["InputDev"] + delay
    BY <2>5, <2>6, PlanEndGood
  <2>8. Keeps(s, t, Irq \cup Dates \cup {"input"})
    BY <1>8, <2>4, <2>7 DEF Keeps, Dates
  <2>9. DOMAIN x = Fields
    BY <1>7, <2>1 DEF Keeps
  <2>10. /\ OthersKept(s, t, "InputDev") /\ StaysAwake(s, t) /\ t.next["InputDev"] > s.cycle
         /\ t.last["InputDev"] \in {s.last["InputDev"], s.cycle}
    BY <1>14, <2>1, <2>6, <2>7, <2>9
  <2> QED BY <1>1, <1>10, <2>7, <2>8, <2>10
<1> QED BY <1>9, <1>10

LEMMA InputMovesOn ==
  ASSUME NEW s, NEW c \in Int, Good(s, c), Timely(s)
  PROVE  Onward(s, InputRun(s)) /\ Done(s, InputRun(s), "InputDev")
<1> DEFINE t == InputRun(s)
           F == Irq \cup Dates \cup {"input"}
<1>1. /\ Keeps(s, t, F) /\ OthersKept(s, t, "InputDev") /\ Good(t, c)
      /\ Attained(t) /\ StaysAwake(s, t) /\ t.next["InputDev"] > s.cycle
      /\ t.last["InputDev"] \in {s.last["InputDev"], s.cycle}
  BY InputRunGood
<1>2. "gpu" \notin F /\ "InputDev" \in Tokens \ {"Gpu"}
  BY DEF Irq, Cpu, Dates, Tokens
<1> HIDE DEF t, F
<1>3. t.next["InputDev"] >= s.cycle
  BY <1>1 DEF Good, Planned, Tokens
<1>4. Onward(s, t)
  BY <1>1, <1>2, <1>3, OnwardAlone DEF Good, Timely
<1> QED BY <1>1, <1>4, DoneAlone DEF t

\* The port runs, is written to, and may run again.
LEMMA InputStoreMovesOn ==
  ASSUME NEW s, NEW c \in Int, Good(s, c), Timely(s), NEW v, Good(v, c),
         Keeps(InputRun(s), v, {"input"})
  PROVE  Onward(s, v) /\ Onward(s, InputRun(v))
<1> DEFINE u == InputRun(s)
<1>1. /\ Good(u, c) /\ Keeps(s, u, Irq \cup Dates \cup {"input"}) /\ Onward(s, u)
      /\ DOMAIN s = Fields /\ DOMAIN u = Fields
  BY InputRunGood, InputMovesOn DEF Good
<1> HIDE DEF u
<1>2. /\ v.next = u.next /\ v.last = u.last /\ v.first = u.first /\ v.wfi = u.wfi
      /\ v.gpu = u.gpu /\ v.cycle = u.cycle
  BY <1>1 DEF Keeps, Fields, u
<1>3. Onward(s, v)
  BY <1>1, <1>2, OnwardStill
<1>4. v.cycle = s.cycle
  BY <1>1, <1>2 DEF Keeps, Fields, Irq, Cpu, Dates
<1>5. Timely(v)
  BY <1>3, <1>4, StaysTimely DEF Good
<1>6. Onward(v, InputRun(v))
  BY <1>5, InputMovesOn
<1> QED BY <1>3, <1>4, <1>6, OnwardTwice

LEMMA InputConfGood ==
  ASSUME NEW s, NEW c \in Int, Good(s, c)
  PROVE  /\ Good(InputConf(s), c) /\ Keeps(s, InputConf(s), Irq \cup Dates \cup {"input"})
         /\ Timely(s) => Onward(s, InputConf(s))
<1> DEFINE u == InputRun(s)
           v == [u EXCEPT !.input = [tx |-> <<>>, rx |-> <<>>, irq |-> TRUE,
                                     div |-> ByteTime, count |-> 0]]
<1>1. InputConf(s) = InputRun(v)
  BY DEF InputConf
<1>2. Good(u, c) /\ Keeps(s, u, Irq \cup Dates \cup {"input"}) /\ DOMAIN u = Fields
  BY InputRunGood DEF Good
<1> HIDE DEF u
<1>3. Keeps(u, v, {"input"}) /\ InputKept(v)
  BY <1>2, EmptyIsSeq, ConstantsAreNat DEF Keeps, Fields, InputKept
<1> HIDE DEF v
<1>4. Good(v, c)
  BY <1>2, <1>3, InputSet
<1>5. Good(InputRun(v), c) /\ Keeps(v, InputRun(v), Irq \cup Dates \cup {"input"})
  BY <1>4, InputRunGood
<1>6. Keeps(s, InputRun(v), Irq \cup Dates \cup {"input"})
  BY <1>2, <1>3, <1>5 DEF Keeps
<1>7. Timely(s) => Onward(s, InputRun(v))
  BY <1>3, <1>4, InputStoreMovesOn DEF u
<1> QED BY <1>1, <1>5, <1>6, <1>7

LEMMA InputTxGood ==
  ASSUME NEW s, NEW c \in Int, Good(s, c), NEW b
  PROVE  /\ Good(InputTx(s, b), c) /\ Keeps(s, InputTx(s, b), Irq \cup Dates \cup {"input"})
         /\ Timely(s) => Onward(s, InputTx(s, b))
<1> DEFINE u == InputRun(s)
           v == [u EXCEPT !.input.tx = Push(@, b)]
<1>1. InputTx(s, b) = InputRun(v)
  BY DEF InputTx
<1>2. Good(u, c) /\ Keeps(s, u, Irq \cup Dates \cup {"input"}) /\ DOMAIN u = Fields
  BY InputRunGood DEF Good
<1> HIDE DEF u
<1>3. InputKept(u)
  BY <1>2 DEF Good
<1>4. Keeps(u, v, {"input"}) /\ InputKept(v)
  <2>1. IsSeq(Push(u.input.tx, b))
    BY <1>3, AppendIsSeq DEF InputKept, Push
  <2>2. Keeps(u, v, {"input"}) /\ v.input = [u.input EXCEPT !.tx = Push(@, b)]
    BY <1>2 DEF Keeps, Fields
  <2> QED BY <1>3, <2>1, <2>2 DEF InputKept
<1> HIDE DEF v
<1>5. Good(v, c)
  BY <1>2, <1>4, InputSet
<1>6. Good(InputRun(v), c) /\ Keeps(v, InputRun(v), Irq \cup Dates \cup {"input"})
  BY <1>5, InputRunGood
<1>7. Keeps(s, InputRun(v), Irq \cup Dates \cup {"input"})
  BY <1>2, <1>4, <1>6 DEF Keeps
<1>8. Timely(s) => Onward(s, InputRun(v))
  BY <1>4, <1>5, InputStoreMovesOn DEF u
<1> QED BY <1>1, <1>6, <1>7, <1>8

LEMMA InputRxGood ==
  ASSUME NEW s, NEW c \in Int, Good(s, c)
  PROVE  /\ Good(InputRx(s), c) /\ Keeps(s, InputRx(s), Irq \cup Dates \cup {"input"})
         /\ Timely(s) => Onward(s, InputRx(s))
<1> DEFINE u == InputRun(s)
           v == [u EXCEPT !.input.rx = IF @ = <<>> THEN @ ELSE Tail(@)]
<1>1. InputRx(s) = v
  BY DEF InputRx
<1>2. Good(u, c) /\ Keeps(s, u, Irq \cup Dates \cup {"input"}) /\ DOMAIN u = Fields
  BY InputRunGood DEF Good
<1> HIDE DEF u
<1>3. Keeps(u, v, {"input"}) /\ InputKept(v)
  <2>1. /\ Keeps(u, v, {"input"})
        /\ v.input = [u.input EXCEPT !.rx = IF @ = <<>> THEN @ ELSE Tail(@)]
    BY <1>2 DEF Keeps, Fields
  <2>2. InputKept(u)
    BY <1>2 DEF Good
  <2> QED BY <2>1, <2>2 DEF InputKept
<1> HIDE DEF v
<1>4. Good(v, c)
  BY <1>2, <1>3, InputSet
<1>5. Keeps(s, v, Irq \cup Dates \cup {"input"})
  BY <1>2, <1>3 DEF Keeps
<1>6. Timely(s) => Onward(s, v)
  BY <1>3, <1>4, InputStoreMovesOn DEF u
<1> QED BY <1>1, <1>4, <1>5, <1>6

-----------------------------------------------------------------------------
(* The DMA: a run moves a prefix of the words still held. *)

\* The words that move can be read, and are read in the cycles that there are.
LEMMA AffordableWords ==
  ASSUME NEW cycles \in Nat, NEW cost \in Nat \ {0}, NEW left \in Nat
  PROVE  LET n == Min({left, cycles \div cost})
         IN  /\ n \in 0 .. left /\ cost * n <= cycles
             /\ n # left => cycles - cost * n < cost
<1> DEFINE k == cycles \div cost
           n == Min({left, k})
<1>1. k \in Int /\ cycles % cost \in 0 .. cost - 1 /\ cycles = k * cost + (cycles % cost)
  BY DivMod
<1>2. k >= 0
  BY <1>1
<1>3. n = IF left <= k THEN left ELSE k
  BY <1>1, MinOfTwo
<1> HIDE DEF k, n
<1>4. n \in 0 .. left /\ n <= k
  BY <1>1, <1>2, <1>3
<1>5. cost * n <= cost * k
  <2>1. PICK d \in Nat : d = k - n
    BY <1>1, <1>4
  <2>2. cost * d \in Nat /\ cost * k = cost * n + cost * d
    BY <1>1, <1>4, <2>1
  <2>3. cost * n \in Int /\ cost * k \in Int
    BY <1>1, <1>4
  <2> QED BY <2>2, <2>3
<1>6. cost * k <= cycles
  <2>1. PICK r \in Int, y \in Int : r = (cycles % cost) /\ y = k * cost /\ r >= 0 /\ cycles = y + r
    BY <1>1
  <2>2. cost * k = y
    BY <1>1, <2>1
  <2> QED BY <2>1, <2>2
<1>7. cost * n \in Int /\ cost * k \in Int
  BY <1>1, <1>4
<1>8. n # left => cycles - cost * n < cost
  <2>1. PICK r \in Int, y \in Int : r = (cycles % cost) /\ y = k * cost /\ r < cost /\ cycles = y + r
    BY <1>1
  <2>2. n # left => cost * n = y
    BY <1>1, <1>3, <2>1
  <2> QED BY <2>1, <2>2
<1> QED BY <1>4, <1>5, <1>6, <1>7, <1>8 DEF n, k

\* What a run of the transfer changes, and what it keeps.
Moved(s, t) ==
  /\ Keeps(s, t, {"dma", "delivered", "gpu", "last", "panicked"}) /\ OthersKept(s, t, "Dma")
  /\ Planned(t) /\ GpuTyped(t.gpu) /\ t.gpu.frame = s.gpu.frame
  /\ DmaHolds(t) /\ t.last["Dma"] <= s.last["Dma"]

\* Every word that can be read finds room.
LEMMA DeliverLemma ==
  ASSUME NEW s, DOMAIN s = Fields, Planned(s), GpuTyped(s.gpu), DmaHolds(s),
         NEW n \in 0 .. Len(s.dma.todo), NEW cycles \in Int, WordCost(s) * n <= cycles,
         s.dma.dst = "GPU" => Len(s.gpu.fifo) + (Len(s.dma.buf) + n) <= FifoSize
  PROVE  LET t == Deliver(s, Len(s.dma.buf) + n, cycles)
         IN  /\ Moved(s, t) /\ t.last["Dma"] = s.last["Dma"] - (cycles - WordCost(s) * n)
             /\ IsRunning(t) => n # Len(s.dma.todo)
<1>0. PICK d, b, q : d = s.delivered /\ b = s.dma.buf /\ q = s.dma.todo
  OBVIOUS
<1> DEFINE words == Len(b) + n
           out == SubSeq(b \o q, 1, words)
           rest == SubSeq(q, n + 1, Len(q))
           after == d \o out
           fifo == IF s.dma.dst = "GPU" THEN s.gpu.fifo \o out ELSE s.gpu.fifo
           u == [s EXCEPT !.dma.buf = <<>>, !.dma.todo = rest, !.delivered = after,
                          !.gpu.fifo = fifo]
           back == cycles - WordCost(s) * n
           t == Rewind(u, "Dma", back)
<1>1. /\ IsSeq(b) /\ IsSeq(q) /\ Len(b) \in Nat /\ Len(q) \in Nat /\ n \in 0 .. Len(q)
      /\ IsSeq(d) /\ IsSeq(s.gpu.fifo) /\ Len(s.gpu.fifo) \in Nat
  BY <1>0, LenOfSeq DEF DmaHolds, GpuTyped
<1>2. Deliver(s, Len(s.dma.buf) + n, cycles) = t
  <2>1. PICK k : k = Len(s.dma.buf) + n /\ k - Len(s.dma.buf) = n
    <3>1. PICK l \in Nat : l = Len(s.dma.buf)
      BY <1>0, <1>1
    <3>2. (l + n) - l = n
      BY <1>1
    <3> QED BY <3>1, <3>2
  <2> DEFINE w == [s EXCEPT !.dma.buf = <<>>,
                  !.dma.todo = SubSeq(@, k - Len(s.dma.buf) + 1, Len(@)),
                  !.delivered = @ \o SubSeq(s.dma.buf \o s.dma.todo, 1, k),
                  !.gpu.fifo = IF s.dma.dst = "GPU"
                               THEN @ \o SubSeq(s.dma.buf \o s.dma.todo, 1, k) ELSE @]
             spent == cycles - WordCost(s) * (k - Len(s.dma.buf))
  <2>2. Deliver(s, k, cycles) = Rewind(w, "Dma", spent)
    BY Zenon DEF Deliver
  <2>3. /\ SubSeq(s.dma.todo, k - Len(s.dma.buf) + 1, Len(s.dma.todo)) = rest
        /\ SubSeq(s.dma.buf \o s.dma.todo, 1, k) = out /\ spent = back
    BY <1>0, <2>1
  <2> HIDE DEF rest, out, spent, back
  <2>4. w = u
    BY <1>0, <2>3, Zenon DEF Fields, DmaHolds, GpuTyped, GpuFields
  <2> QED BY <2>1, <2>2, <2>3, <2>4
<1>6. /\ IsSeq(out) /\ Len(out) = words /\ IsSeq(rest) /\ IsSeq(after)
      /\ after \o <<>> \o rest = d \o b \o q
  <2>1. MovesPrefix(d, b, q, n)
    BY <1>1, MoveLemma
  <2> QED BY <2>1 DEF MovesPrefix
<1>7. back \in Nat
  <2>1. WordCost(s) \in Int
    BY ConstantsAreNat DEF WordCost
  <2> QED BY <2>1
<1>21. n = Len(q) => rest = <<>>
  BY <1>1, SubSeqEmpty
<1>22. back = cycles - WordCost(s) * n
  OBVIOUS
<1> HIDE DEF back, rest, out, after
<1>8. IsSeq(fifo) /\ Len(fifo) <= FifoSize
  <2>1. CASE s.dma.dst = "GPU"
    <3>1. IsSeq(s.gpu.fifo \o out) /\ Len(s.gpu.fifo \o out) = Len(s.gpu.fifo) + words
      BY <1>1, <1>6, ConcatIsSeq
    <3>2. Len(s.gpu.fifo) + words <= FifoSize
      BY <1>0, <2>1
    <3> QED BY <2>1, <3>1, <3>2
  <2>2. CASE s.dma.dst # "GPU"
    BY <1>1, <2>2 DEF GpuTyped
  <2> QED BY <2>1, <2>2
<1> HIDE DEF fifo
<1>9. after \o <<>> \o rest = s.asked
  BY <1>0, <1>6 DEF DmaHolds
<1>10. /\ Keeps(s, u, {"dma", "delivered", "gpu"})
       /\ u.dma = [[s.dma EXCEPT !.buf = <<>>] EXCEPT !.todo = rest]
       /\ u.delivered = after /\ u.gpu = [s.gpu EXCEPT !.fifo = fifo]
  BY DEF Keeps, Fields
<1> HIDE DEF u
<1>11. /\ DOMAIN u = Fields /\ u.asked = s.asked /\ u.last = s.last /\ u.next = s.next
       /\ u.first = s.first /\ u.cycle = s.cycle /\ u.base = s.base
  BY <1>10 DEF Keeps, Fields
<1>12. Planned(u) /\ OthersKept(s, u, "Dma")
  BY <1>11 DEF Planned, OthersKept
<1>13. DOMAIN u.dma = {"src", "dst", "todo", "buf"} /\ u.dma.buf = <<>> /\ u.dma.todo = rest
  BY <1>10 DEF DmaHolds
<1>14. GpuTyped(u.gpu) /\ u.gpu.frame = s.gpu.frame
  BY <1>8, <1>10 DEF GpuTyped, GpuFields
<1>15. /\ Keeps(u, t, {"last"}) /\ Planned(t) /\ OthersKept(u, t, "Dma")
       /\ t.last["Dma"] = s.last["Dma"] - back
  BY <1>7, <1>11, <1>12, RewindLemma DEF Tokens
<1> HIDE DEF t
<1>16. t.dma = u.dma /\ t.delivered = u.delivered /\ t.asked = s.asked /\ t.gpu = u.gpu
  BY <1>11, <1>15 DEF Keeps, Fields
<1>17. DmaHolds(t)
  BY <1>6, <1>9, <1>10, <1>13, <1>16, EmptyIsSeq DEF DmaHolds
<1>18. t.last["Dma"] <= s.last["Dma"]
  <2>1. s.last["Dma"] \in Int
    BY DEF Planned, Tokens
  <2> QED BY <1>7, <1>15, <2>1
<1>19. Keeps(s, t, {"dma", "delivered", "gpu", "last", "panicked"})
  BY <1>10, <1>15 DEF Keeps
<1>20. OthersKept(s, t, "Dma")
  BY <1>12, <1>15, OthersKeptTwice
<1>23. IsRunning(t) => n # Len(s.dma.todo)
  BY <1>0, <1>13, <1>16, <1>21 DEF IsRunning
<1>24. t.last["Dma"] = s.last["Dma"] - (cycles - WordCost(s) * n)
  BY <1>15, <1>22
<1> QED BY <1>2, <1>14, <1>15, <1>16, <1>17, <1>18, <1>19, <1>20, <1>23, <1>24 DEF Moved

\* The FIFO takes room of them only.
LEMMA StallLemma ==
  ASSUME NEW s, DOMAIN s = Fields, Planned(s), GpuTyped(s.gpu), DmaHolds(s),
         NEW words \in 0 .. Len(s.dma.buf) + Len(s.dma.todo), NEW room \in 0 .. words,
         Len(s.gpu.fifo) + room <= FifoSize
  PROVE  LET t == Stall(s, words, room)
         IN  /\ Moved(s, t) /\ t.last = s.last
             /\ ~t.panicked => s.gpu.remaining > 0
<1>0. PICK d, b, q : d = s.delivered /\ b = s.dma.buf /\ q = s.dma.todo
  OBVIOUS
<1> DEFINE line == b \o q
           held == Min({words - room, FifoSize})
           out == SubSeq(line, 1, room)
           buf == SubSeq(line, room + 1, room + held)
           rest == SubSeq(line, room + held + 1, Len(line))
           after == d \o out
           fifo == s.gpu.fifo \o out
           stuck == s.gpu.remaining <= 0
           t == [s EXCEPT !.gpu.fifo = fifo, !.delivered = after,
                          !.dma.buf = buf, !.dma.todo = rest, !.panicked = stuck]
<1>1. Stall(s, words, room) = t
  <2> DEFINE w == [s EXCEPT !.gpu.fifo = @ \o SubSeq(line, 1, room),
                !.delivered = @ \o SubSeq(line, 1, room),
                !.dma.buf = SubSeq(line, room + 1, room + held),
                !.dma.todo = SubSeq(line, room + held + 1, Len(line)),
                !.panicked = s.gpu.remaining <= 0]
  <2>1. Stall(s, words, room) = w
    BY <1>0, Zenon DEF Stall
  <2>2. w = t
    BY <1>0, Zenon DEF Fields, DmaHolds, GpuTyped, GpuFields
  <2> QED BY <2>1, <2>2
<1>2. /\ IsSeq(b) /\ IsSeq(q) /\ Len(b) \in Nat /\ Len(q) \in Nat /\ words \in 0 .. Len(b) + Len(q)
      /\ IsSeq(d) /\ IsSeq(s.gpu.fifo) /\ Len(s.gpu.fifo) \in Nat
  BY <1>0, LenOfSeq DEF DmaHolds, GpuTyped
<1>4. held \in 0 .. words - room
  <2>1. held = IF words - room <= FifoSize THEN words - room ELSE FifoSize
    BY <1>2, MinOfTwo, ConstantsAreNat
  <2> QED BY <1>2, <2>1, ConstantsAreNat
<1> HIDE DEF held
<1>5. room \in 0 .. Len(b) + Len(q) /\ room + held \in room .. Len(b) + Len(q)
  BY <1>2, <1>4
<1>6. /\ IsSeq(out) /\ IsSeq(buf) /\ IsSeq(rest) /\ Len(out) = room /\ IsSeq(after)
      /\ after \o buf \o rest = d \o b \o q
  <2>1. PICK k : k = room + held
    OBVIOUS
  <2>2. MovesPart(d, b, q, room, k)
    BY <1>2, <1>5, <2>1, MovePartLemma
  <2> QED BY <2>1, <2>2 DEF MovesPart
<1> HIDE DEF out, buf, rest, after
<1>7. IsSeq(fifo) /\ Len(fifo) <= FifoSize
  BY <1>2, <1>6, ConcatIsSeq
<1>8. after \o buf \o rest = s.asked
  BY <1>0, <1>6 DEF DmaHolds
<1>16. ~stuck => s.gpu.remaining > 0
  BY DEF GpuTyped
<1> HIDE DEF fifo, stuck
<1>17. t.panicked = stuck
  BY DEF Fields
<1>9. /\ Keeps(s, t, {"dma", "delivered", "gpu", "panicked"})
      /\ t.dma = [[s.dma EXCEPT !.buf = buf] EXCEPT !.todo = rest]
      /\ t.delivered = after /\ t.gpu = [s.gpu EXCEPT !.fifo = fifo]
  BY DEF Keeps, Fields
<1> HIDE DEF t
<1>10. /\ t.asked = s.asked /\ t.last = s.last /\ t.next = s.next
       /\ t.first = s.first /\ t.cycle = s.cycle /\ t.base = s.base
  BY <1>9 DEF Keeps, Fields
<1>11. Planned(t) /\ OthersKept(s, t, "Dma") /\ t.last["Dma"] <= s.last["Dma"]
  BY <1>10 DEF Planned, OthersKept, Tokens
<1>12. GpuTyped(t.gpu) /\ t.gpu.frame = s.gpu.frame
  BY <1>7, <1>9 DEF GpuTyped, GpuFields
<1>13. DOMAIN t.dma = {"src", "dst", "todo", "buf"} /\ t.dma.buf = buf /\ t.dma.todo = rest
  BY <1>9 DEF DmaHolds
<1>14. DmaHolds(t)
  BY <1>6, <1>8, <1>9, <1>10, <1>13 DEF DmaHolds
<1>15. Keeps(s, t, {"dma", "delivered", "gpu", "last", "panicked"})
  BY <1>9 DEF Keeps
<1> QED BY <1>1, <1>10, <1>11, <1>12, <1>14, <1>15, <1>16, <1>17 DEF Moved

\* A transfer that has words left has used the cycles up to less than a word takes, or waits for
\* the command that is being executed.
Waits(s, r, cycles) ==
  /\ r.m.last["Dma"] \in Int /\ r.m.last["Dma"] >= s.last["Dma"] - cycles
  /\ IsRunning(r.m) =>
       \/ r.delay = DmaPoll /\ s.last["Dma"] - r.m.last["Dma"] < RomCost
       \/ /\ s.dma.dst = "GPU" /\ r.delay = s.gpu.remaining /\ r.m.last["Dma"] = s.last["Dma"]
          /\ ~r.m.panicked => s.gpu.remaining > 0

LEMMA TransferLemma ==
  ASSUME NEW s, DOMAIN s = Fields, Planned(s), GpuTyped(s.gpu), DmaHolds(s), NEW cycles \in Nat
  PROVE  LET r == Transfer(s, cycles)
         IN  /\ Moved(s, r.m) /\ r.delay \in Int /\ r.delay <= DmaPatience
             /\ Waits(s, r, cycles)
<1> DEFINE cost == WordCost(s)
           n == Min({Len(s.dma.todo), cycles \div cost})
           words == Len(s.dma.buf) + n
           room == IF s.dma.dst = "GPU" THEN FifoSize - Len(s.gpu.fifo) ELSE words
           r == Transfer(s, cycles)
<1>1. r = IF words <= room THEN [m |-> Deliver(s, words, cycles), delay |-> DmaPoll]
          ELSE [m |-> Stall(s, words, room), delay |-> s.gpu.remaining]
  BY DEF Transfer
<1>2. /\ Len(s.dma.buf) \in Nat /\ Len(s.dma.todo) \in Nat /\ Len(s.gpu.fifo) \in Nat
      /\ Len(s.gpu.fifo) <= FifoSize
  BY LenOfSeq DEF DmaHolds, GpuTyped
<1>10. cost \in Nat \ {0} /\ cost <= RomCost
  BY ConstantsAreNat DEF WordCost
<1>3. /\ n \in 0 .. Len(s.dma.todo) /\ cost * n <= cycles
      /\ n # Len(s.dma.todo) => cycles - cost * n < cost
  <2>2. PICK k \in Nat : k = Len(s.dma.todo)
    BY <1>2
  <2> HIDE DEF cost
  <2>3. /\ Min({k, cycles \div cost}) \in 0 .. k /\ cost * Min({k, cycles \div cost}) <= cycles
        /\ Min({k, cycles \div cost}) # k => cycles - cost * Min({k, cycles \div cost}) < cost
    BY <1>10, AffordableWords
  <2> QED BY <2>2, <2>3
<1> HIDE DEF n, cost, r
<1>9. PICK l \in Int : l = s.last["Dma"]
  BY DEF Planned, Tokens
<1>7. PICK a \in Nat, b \in Nat, f \in Nat :
        a = Len(s.dma.buf) /\ b = Len(s.dma.todo) /\ f = Len(s.gpu.fifo) /\ f <= FifoSize
  BY <1>2
<1>8. n \in 0 .. b /\ words = a + n
  BY <1>3, <1>7
<1>4. words \in 0 .. Len(s.dma.buf) + Len(s.dma.todo)
  <2>1. a + n \in 0 .. a + b
    BY <1>8
  <2> QED BY <1>7, <2>1
<1>5. CASE words <= room
  <2>1. s.dma.dst = "GPU" => Len(s.gpu.fifo) + (Len(s.dma.buf) + n) <= FifoSize
    <3>1. SUFFICES ASSUME s.dma.dst = "GPU" PROVE f + (a + n) <= FifoSize
      BY <1>7
    <3>2. a + n <= FifoSize - f
      BY <1>5, <1>7, <3>1
    <3>3. PICK x \in Int, y \in Int : x = a + n /\ y = FifoSize
      BY <1>8, ConstantsAreNat
    <3> HIDE DEF words, room
    <3>4. x <= y - f => f + x <= y
      BY <1>7, <3>3
    <3> QED BY <3>2, <3>3, <3>4
  <2> DEFINE t == Deliver(s, Len(s.dma.buf) + n, cycles)
  <2>2. /\ Moved(s, t) /\ t.last["Dma"] = s.last["Dma"] - (cycles - cost * n)
        /\ IsRunning(t) => n # Len(s.dma.todo)
    <3>1. n \in 0 .. Len(s.dma.todo) /\ WordCost(s) * n <= cycles /\ cycles \in Int
      BY <1>3 DEF cost
    <3> HIDE DEF words, room
    <3> QED BY <2>1, <3>1, DeliverLemma DEF cost
  <2>3. r.m = t /\ r.delay = DmaPoll
    BY <1>1, <1>5
  <2> HIDE DEF t, words, room
  <2>4. Waits(s, r, cycles)
    <3>1. PICK x \in Int : x = cost * n /\ x <= cycles /\ x >= 0
      BY <1>3, <1>8, <1>10
    <3>2. t.last["Dma"] = l - (cycles - x)
      BY <1>9, <2>2, <3>1
    <3>3. IsRunning(t) => cycles - x < RomCost
      BY <1>3, <1>10, <2>2, <3>1, ConstantsAreNat
    <3>4. PICK k \in Int : k = t.last["Dma"] /\ k = l - (cycles - x)
      BY <3>1, <3>2
    <3>5. k >= l - cycles /\ (IsRunning(t) => l - k < RomCost)
      BY <3>1, <3>3, <3>4, ConstantsAreNat
    <3> QED BY <1>9, <2>3, <3>4, <3>5 DEF Waits
  <2> QED BY <2>2, <2>3, <2>4, PatienceLemma, ConstantsAreNat DEF r
<1>6. CASE ~(words <= room)
  <2>1. room \in 0 .. words /\ Len(s.gpu.fifo) + room <= FifoSize
    <3>1. s.dma.dst = "GPU"
      BY <1>6, <1>7, <1>8
    <3>2. room = FifoSize - f
      BY <1>7, <3>1
    <3>3. ~(a + n <= FifoSize - f)
      BY <1>6, <1>7, <3>2
    <3>4. FifoSize - f \in 0 .. a + n /\ f + (FifoSize - f) <= FifoSize
      <4>0. a + n \in Nat /\ FifoSize \in Int
        BY <1>8, ConstantsAreNat
      <4>1. PICK x \in Nat, y \in Int : x = a + n /\ y = FifoSize /\ f <= y /\ ~(x <= y - f)
        BY <1>7, <3>3, <4>0
      <4> HIDE DEF words, room
      <4>2. y - f \in 0 .. x /\ f + (y - f) <= y
        BY <1>7, <4>1
      <4> QED BY <4>1, <4>2
    <3> QED BY <1>7, <3>2, <3>4
  <2>2. r.m = Stall(s, words, room) /\ r.delay = s.gpu.remaining
    BY <1>1, <1>6
  <2> HIDE DEF words, room
  <2> DEFINE t == Stall(s, words, room)
  <2>3. Moved(s, t) /\ t.last = s.last /\ (~t.panicked => s.gpu.remaining > 0)
    BY <1>4, <2>1, StallLemma
  <2>4. s.dma.dst = "GPU"
    BY <1>6, <1>7, <1>8 DEF room, words
  <2> HIDE DEF t
  <2>5. Waits(s, r, cycles)
    <3>1. r.m.last["Dma"] = l /\ l >= l - cycles
      BY <1>9, <2>2, <2>3 DEF t
    <3> QED BY <1>9, <2>2, <2>3, <2>4, <3>1 DEF Waits, t
  <2> QED BY <2>2, <2>3, <2>5 DEF GpuTyped, r, t
<1> QED BY <1>5, <1>6

\* A transfer that still holds words was not asked to move none.
LEMMA RunningAsked ==
  ASSUME NEW s, DmaHolds(s), IsRunning(s)
  PROVE  s.asked # <<>>
<1>1. PICK d, b, q : d = s.delivered /\ b = s.dma.buf /\ q = s.dma.todo
  OBVIOUS
<1>2. IsSeq(d) /\ IsSeq(b) /\ IsSeq(q) /\ Len(d) \in Nat /\ Len(b) \in Nat /\ Len(q) \in Nat
  BY <1>1, LenOfSeq DEF DmaHolds
<1>3. Len(b) # 0 \/ Len(q) # 0
  <2>1. PICK S, T : b \in Seq(S) /\ q \in Seq(T)
    BY <1>2 DEF IsSeq
  <2>2. b # <<>> \/ q # <<>>
    BY <1>1 DEF IsRunning
  <2> QED BY <2>1, <2>2, EmptySeq
<1>4. IsSeq(d \o b) /\ Len(d \o b) = Len(d) + Len(b)
  BY <1>2, ConcatIsSeq
<1>5. Len(d \o b \o q) = Len(d) + Len(b) + Len(q)
  <2>1. PICK e : e = d \o b
    OBVIOUS
  <2>2. Len(e \o q) = Len(e) + Len(q)
    BY <1>2, <1>4, <2>1, ConcatIsSeq
  <2> QED BY <1>4, <2>1, <2>2
<1>6. s.asked = d \o b \o q
  BY <1>1 DEF DmaHolds
<1>7. Len(s.asked) # 0
  BY <1>2, <1>3, <1>5, <1>6
<1> QED BY <1>7

\* The transfer goes on or ends.
LEMMA PlanLemma ==
  ASSUME NEW r, DOMAIN r.m = Fields, IrqSafe(r.m), Planned(r.m), NEW c \in Int,
         DmaHolds(r.m), r.m.asked # <<>>, r.m.done = 0, r.m.last["Dma"] <= c,
         r.delay \in Int, r.delay <= DmaPatience
  PROVE  LET t == Plan(r)
         IN  /\ Keeps(r.m, t, Irq \cup {"next", "first", "done"}) /\ OthersKept(r.m, t, "Dma")
             /\ IrqSafe(t) /\ Planned(t) /\ ("MTI" \in t.mip <=> "MTI" \in r.m.mip)
             /\ DmaKept(t, c)
             /\ Attained(t) /\ StaysAwake(r.m, t) /\ t.last = r.m.last
             /\ t.next["Dma"] = r.m.last["Dma"] + (IF IsRunning(r.m) THEN r.delay ELSE CpuFreq)
<1> PICK s : s = r.m
  OBVIOUS
<1>1. CASE IsRunning(s)
  <2> DEFINE t == NextEvent(s, "Dma", r.delay)
  <2>1. Plan(r) = t
    BY <1>1 DEF Plan
  <2>2. /\ Keeps(s, t, {"next", "first"}) /\ Planned(t) /\ OthersKept(s, t, "Dma")
        /\ t.next["Dma"] = s.last["Dma"] + r.delay /\ Attained(t)
    BY NextEventLemma DEF Tokens
  <2> HIDE DEF t
  <2>3. /\ t.dma = s.dma /\ t.asked = s.asked /\ t.delivered = s.delivered /\ t.done = s.done
        /\ t.last = s.last /\ t.mip = s.mip /\ t.mie = s.mie /\ t.irqOn = s.irqOn /\ t.wfi = s.wfi
        /\ t.unchecked = s.unchecked
    BY <2>2 DEF Keeps, Fields
  <2>4. t.next["Dma"] - t.last["Dma"] <= DmaPatience
    <3>1. PICK l \in Int, d \in Int : l = s.last["Dma"] /\ d = r.delay /\ d <= DmaPatience
      BY DEF Planned, Tokens
    <3>2. (l + d) - l <= DmaPatience
      BY <3>1
    <3> QED BY <2>2, <2>3, <3>1, <3>2
  <2>5. DmaKept(t, c)
    BY <1>1, <2>3, <2>4 DEF DmaKept, DmaHolds, IsRunning
  <2>6. IrqSafe(t) /\ Keeps(s, t, Irq \cup {"next", "first", "done"})
    BY <2>2, <2>3 DEF IrqSafe, Keeps
  <2>7. StaysAwake(s, t)
    BY <2>3 DEF StaysAwake
  <2>8. t.next["Dma"] = s.last["Dma"] + (IF IsRunning(s) THEN r.delay ELSE CpuFreq)
    BY <1>1, <2>2
  <2> QED BY <2>1, <2>2, <2>3, <2>5, <2>6, <2>7, <2>8
<1>2. CASE ~IsRunning(s)
  <2> DEFINE u == [s EXCEPT !.done = @ + 1]
             w == RaiseIrq(u, "DmaDone")
             t == NextEvent(w, "Dma", CpuFreq)
  <2>1. Plan(r) = t
    BY <1>2 DEF Plan, EndTransfer
  <2>2. /\ Keeps(s, u, {"done"}) /\ u.done = 1 /\ DOMAIN u = Fields /\ u.mip = s.mip /\ IrqSafe(u)
        /\ u.wfi = s.wfi
    BY DEF Keeps, Fields, IrqSafe
  <2> HIDE DEF u
  <2>3. /\ Keeps(u, w, Irq) /\ IrqSafe(w) /\ ("MTI" \in w.mip <=> "MTI" \in u.mip)
        /\ StaysAwake(u, w)
    BY <2>2, RaiseIrqLemma DEF Irq
  <2> HIDE DEF w
  <2>4. /\ DOMAIN w = Fields /\ w.last = s.last /\ w.next = s.next /\ w.first = s.first
        /\ w.cycle = s.cycle /\ w.base = s.base /\ Keeps(s, w, Irq \cup {"done"}) /\ w.done = 1
    BY <2>2, <2>3 DEF Keeps, Fields, Irq, Cpu
  <2>5. Planned(w) /\ OthersKept(s, w, "Dma")
    BY <2>4 DEF Planned, OthersKept
  <2>6. /\ Keeps(w, t, {"next", "first"}) /\ Planned(t) /\ OthersKept(w, t, "Dma")
        /\ t.next["Dma"] = w.last["Dma"] + CpuFreq /\ Attained(t)
    BY <2>4, <2>5, NextEventLemma, ConstantsAreNat DEF Tokens
  <2> HIDE DEF t
  <2>7. /\ t.mip = w.mip /\ t.mie = w.mie /\ t.irqOn = w.irqOn /\ t.wfi = w.wfi
        /\ t.unchecked = w.unchecked
        /\ t.done = 1 /\ t.last = s.last
    BY <2>4, <2>6 DEF Keeps, Fields
  <2>8. IrqSafe(t) /\ ("MTI" \in t.mip <=> "MTI" \in s.mip)
    BY <2>2, <2>3, <2>7 DEF IrqSafe
  <2>9. Keeps(s, t, Irq \cup {"next", "first", "done"})
    BY <2>4, <2>6 DEF Keeps
  <2>10. t.dma = s.dma /\ t.asked = s.asked /\ t.delivered = s.delivered
    BY <2>9 DEF Keeps, Fields, Irq, Cpu
  <2>11. DmaKept(t, c)
    BY <1>2, <2>7, <2>10 DEF DmaKept, DmaHolds, IsRunning
  <2>12. StaysAwake(s, t)
    BY <2>2, <2>3, <2>7 DEF StaysAwake
  <2>13. t.next["Dma"] = s.last["Dma"] + (IF IsRunning(s) THEN r.delay ELSE CpuFreq)
    BY <1>2, <2>4, <2>6
  <2> QED BY <2>1, <2>5, <2>6, <2>7, <2>8, <2>9, <2>11, <2>12, <2>13, OthersKeptTwice
<1> QED BY <1>1, <1>2

\* What the DMA and the GPU it may run leave alone.
Beside(s, c) == TimerKept(s, c) /\ TimerArmed(s) /\ SpuKept(s, c) /\ InputKept(s)

LEMMA BesideElsewhere ==
  ASSUME NEW s, NEW t, NEW c, NEW F, NEW who \in {"Gpu", "Dma"}, DOMAIN s = Fields,
         Keeps(s, t, F), OthersKept(s, t, who), "MTI" \in t.mip <=> "MTI" \in s.mip,
         {"samples", "spu", "base", "input", "mtime", "mtimecmp"} \cap F = {}, Beside(s, c)
  PROVE  Beside(t, c)
<1>1. who \in Tokens /\ who # "SysTimer" /\ who # "Spu"
  BY DEF Tokens
<1>2. TimerKept(t, c) /\ TimerArmed(t)
  BY <1>1, TimerElsewhere DEF Beside
<1>3. SpuKept(t, c)
  BY <1>1, SpuElsewhere DEF Beside
<1>4. InputKept(t)
  BY InputElsewhere DEF Beside
<1> QED BY <1>2, <1>3, <1>4 DEF Beside

DmaRuns == Irq \cup Dates \cup {"gpu", "frames", "frameDone", "dma", "delivered", "done", "panicked"}

LEMMA DmaIdleLemma ==
  ASSUME NEW s, NEW c \in Int, DOMAIN s = Fields, Planned(s), s.cycle <= c, s.last["Dma"] <= c
  PROVE  LET t == DmaIdle(s)
         IN  /\ Keeps(s, t, Dates) /\ OthersKept(s, t, "Dma") /\ Planned(t)
             /\ t.last["Dma"] <= c /\ Elapsed(s, "Dma") \in Nat
             /\ t.last["Dma"] = s.last["Dma"] + Elapsed(s, "Dma") /\ t.last["Dma"] >= s.cycle
             /\ t.next["Dma"] = t.last["Dma"] + CpuFreq /\ Attained(t)
<1> DEFINE e == Elapsed(s, "Dma")
           u == Resync(s, "Dma")
           t == NextEvent(u, "Dma", CpuFreq)
<1>1. DmaIdle(s) = t
  BY DEF DmaIdle
<1>2. /\ Keeps(s, u, {"last"}) /\ Planned(u) /\ OthersKept(s, u, "Dma")
      /\ e \in Nat /\ u.last["Dma"] = s.last["Dma"] + e
      /\ e > 0 => u.last["Dma"] = s.cycle
      /\ u.last["Dma"] >= s.cycle
  BY ResyncLemma DEF Tokens
<1> HIDE DEF e, u
<1>3. u.last["Dma"] <= c
  <2>1. s.last["Dma"] \in Int /\ s.cycle \in Int
    BY DEF Planned, Tokens
  <2> QED BY <1>2, <2>1
<1>4. DOMAIN u = Fields
  BY <1>2 DEF Keeps
<1>5. /\ Keeps(u, t, {"next", "first"}) /\ Planned(t) /\ OthersKept(u, t, "Dma")
      /\ t.next["Dma"] = u.last["Dma"] + CpuFreq /\ Attained(t)
  BY <1>2, <1>4, NextEventLemma, ConstantsAreNat DEF Tokens
<1> HIDE DEF t
<1>6. t.last = u.last
  BY <1>4, <1>5 DEF Keeps, Fields
<1>7. Keeps(s, t, Dates)
  BY <1>2, <1>5 DEF Keeps, Dates
<1> QED BY <1>1, <1>2, <1>3, <1>5, <1>6, <1>7, OthersKeptTwice DEF e

\* A transfer keeps up with the date to within a word, and its end does not wait for a second.
LEMMA TransferDates ==
  ASSUME NEW s, Planned(s), Timely(s), s.next["Dma"] - s.last["Dma"] <= DmaPatience,
         NEW b, GpuTyped(b.gpu), b.dma.dst = "GPU" => b.gpu.remaining >= 0, NEW e \in Nat,
         b.last["Dma"] = s.last["Dma"] + e, b.last["Dma"] >= s.cycle,
         NEW r, r.delay \in Int, Waits(b, r, e)
  PROVE  LET x == r.m.last["Dma"]
             n == x + (IF IsRunning(r.m) THEN r.delay ELSE CpuFreq)
         IN  /\ x >= s.last["Dma"] /\ n >= s.cycle /\ (~r.m.panicked => n > s.cycle)
             /\ IsRunning(r.m) => s.cycle - x < RomCost
<1>1. PICK l \in Int, n \in Int, c \in Int, f \in Int :
        /\ l = s.last["Dma"] /\ n = s.next["Dma"] /\ c = s.cycle /\ f = s.first /\ f <= n
        /\ n - l <= DmaPatience /\ c - f < Reach
  BY DEF Planned, Tokens, Timely
<1>2. PICK x \in Int : x = r.m.last["Dma"] /\ x >= l
  <2>1. PICK x \in Int : x = r.m.last["Dma"] /\ x >= (l + e) - e
    BY <1>1 DEF Waits
  <2> QED BY <1>1, <2>1
<1>3. PICK a \in Int : a = b.last["Dma"] /\ a >= c
  BY <1>1
<1>4. PICK p \in Int, h \in Int : p = DmaPatience /\ h = Reach /\ p + h <= CpuFreq
  BY PatienceFits, PatienceLemma, Proportions
<1>5. CASE ~IsRunning(r.m)
  <2>1. x + CpuFreq > c
    BY <1>1, <1>2, <1>4, ConstantsAreNat
  <2> QED BY <1>1, <1>2, <1>5, <2>1, ConstantsAreNat
<1>6. CASE IsRunning(r.m)
  <2>1. CASE r.delay = DmaPoll /\ a - x < RomCost
    <3>1. x + DmaPoll > c /\ c - x < RomCost
      BY <1>1, <1>2, <1>3, <2>1, ConstantsAreNat, Proportions
    <3> QED BY <1>1, <1>2, <1>6, <2>1, <3>1, ConstantsAreNat
  <2>2. CASE b.dma.dst = "GPU" /\ r.delay = b.gpu.remaining /\ x = a
             /\ (~r.m.panicked => b.gpu.remaining > 0)
    <3>1. PICK w \in Int : w = b.gpu.remaining /\ w >= 0 /\ (~r.m.panicked => w > 0)
      BY <2>2 DEF GpuTyped
    <3>2. c - x < RomCost /\ x + w >= c /\ (~r.m.panicked => x + w > c)
      BY <1>1, <1>2, <1>3, <2>2, <3>1, ConstantsAreNat
    <3> QED BY <1>1, <1>2, <1>6, <2>2, <3>1, <3>2
  <2> QED BY <1>2, <1>3, <1>6, <2>1, <2>2 DEF Waits
<1> QED BY <1>5, <1>6

LEMMA DmaRunGood ==
  ASSUME NEW s, NEW c \in Int, Good(s, c), s.cycle <= c
  PROVE  /\ Good(DmaRun(s), c) /\ Keeps(s, DmaRun(s), DmaRuns)
         /\ Timely(s) => DmaOnward(s, DmaRun(s))
<1> DEFINE a == DmaIdle(s)
           e == Elapsed(s, "Dma")
           b == IF a.dma.dst = "GPU" THEN GpuRun(a) ELSE a
           r == Transfer(b, e)
           t == Plan(r)
<1>1. DmaRun(s) = IF IsRunning(s) THEN t ELSE a
  BY DEF DmaRun, RunDmaCycles
<1>2. DOMAIN s = Fields /\ Planned(s) /\ IrqSafe(s) /\ Beside(s, c) /\ GpuKept(s) /\ DmaKept(s, c)
  BY DEF Good, Beside
<1>3. /\ Keeps(s, a, Dates) /\ OthersKept(s, a, "Dma") /\ Planned(a)
      /\ a.last["Dma"] <= c /\ e \in Nat
      /\ a.last["Dma"] = s.last["Dma"] + e /\ a.last["Dma"] >= s.cycle
      /\ a.next["Dma"] = a.last["Dma"] + CpuFreq /\ Attained(a)
  BY <1>2, DmaIdleLemma DEF DmaKept
<1> HIDE DEF a, e
<1>4. /\ DOMAIN a = Fields /\ a.mip = s.mip /\ a.mie = s.mie /\ a.irqOn = s.irqOn /\ a.wfi = s.wfi
      /\ a.unchecked = s.unchecked
      /\ a.dma = s.dma /\ a.asked = s.asked /\ a.delivered = s.delivered /\ a.done = s.done
      /\ a.cycle = s.cycle
  BY <1>2, <1>3 DEF Keeps, Fields, Dates
<1>9. /\ a.next["Dma"] > s.cycle
      /\ Timely(s) => Onward(s, a) /\ Timely(a)
  <2>1. s.cycle \in Int /\ a.last["Dma"] \in Int /\ a.next["Dma"] \in Int
    BY <1>2, <1>3 DEF Planned, Tokens
  <2>2. a.next["Dma"] > s.cycle /\ a.next["Dma"] >= s.cycle
    BY <1>3, <2>1, ConstantsAreNat
  <2>3. "gpu" \notin Dates /\ "Dma" \in Tokens \ {"Gpu"} /\ "Dma" # "InputDev"
    BY DEF Dates, Tokens
  <2>4. StaysAwake(s, a)
    BY <1>4 DEF StaysAwake
  <2>5. ASSUME Timely(s) PROVE Onward(s, a)
    BY <1>2, <1>3, <2>2, <2>3, <2>4, <2>5, OnwardAlone DEF Timely
  <2> QED BY <1>2, <1>3, <1>4, <2>2, <2>5, StaysTimely
<1>5. IrqSafe(a) /\ DmaHolds(a)
  BY <1>2, <1>4 DEF IrqSafe, DmaKept, DmaHolds
<1>6. Beside(a, c) /\ GpuKept(a)
  <2>1. /\ {"samples", "spu", "base", "input", "mtime", "mtimecmp"} \cap Dates = {}
        /\ {"program", "frames", "gpu", "base"} \cap Dates = {}
    BY DEF Dates
  <2>2. Beside(a, c)
    BY <1>2, <1>3, <1>4, <2>1, BesideElsewhere
  <2>3. GpuKept(a)
    BY <1>2, <1>3, <2>1, GpuElsewhere DEF Tokens
  <2> QED BY <2>2, <2>3
<1>7. CASE ~IsRunning(s)
  <2>1. DmaKept(a, c)
    BY <1>2, <1>3, <1>4, <1>5, <1>7 DEF DmaKept, IsRunning
  <2>2. Good(a, c)
    BY <1>3, <1>4, <1>5, <1>6, <2>1 DEF Good, Beside
  <2>3. Keeps(s, a, DmaRuns)
    BY <1>3 DEF Keeps, DmaRuns
  <2>4. ASSUME Timely(s) PROVE DmaOnward(s, a)
    <3>1. a.last["Dma"] >= s.last["Dma"]
      BY <1>2, <1>3 DEF Planned, Tokens
    <3>2. ~IsRunning(a)
      BY <1>4, <1>7 DEF IsRunning
    <3>3. Done(s, a, "Dma")
      BY <1>3, <1>9, DoneAlone
    <3> QED BY <1>3, <1>7, <1>9, <2>4, <3>1, <3>2, <3>3 DEF DmaOnward
  <2> QED BY <1>1, <1>7, <2>2, <2>3, <2>4
<1>8. CASE IsRunning(s)
  <2> DEFINE G == Irq \cup Dates \cup {"gpu", "frames", "frameDone"}
  <2>1. /\ Keeps(a, b, G) /\ OthersKept(a, b, "Gpu") /\ IrqSafe(b) /\ Planned(b) /\ GpuKept(b)
        /\ "MTI" \in b.mip <=> "MTI" \in a.mip
    <3>1. CASE a.dma.dst = "GPU"
      BY <1>3, <1>4, <1>5, <1>6, <3>1, GpuRunLemma
    <3>2. CASE a.dma.dst # "GPU"
      <4>1. Keeps(a, a, G) /\ OthersKept(a, a, "Gpu")
        BY DEF Keeps, OthersKept
      <4> QED BY <1>3, <1>5, <1>6, <3>2, <4>1
    <3> QED BY <3>1, <3>2
  <2>17. ASSUME Timely(s)
         PROVE  /\ HasFrame(b) /\ StaysAwake(a, b) /\ (b.dma.dst = "GPU" => b.gpu.remaining >= 0)
                /\ \A x \in {"Gpu", "InputDev"} : b.last[x] \in {s.last[x], s.cycle}
                /\ \A x \in Tokens \ {"Dma"} : b.next[x] > s.cycle \/ b.next[x] = s.next[x]
    <3>1. /\ \A x \in {"Gpu", "InputDev"} : a.last[x] = s.last[x]
          /\ \A x \in Tokens \ {"Dma"} : a.next[x] = s.next[x]
      BY <1>3 DEF OthersKept, Tokens
    <3>2. HasFrame(a) /\ Timely(a)
      BY <1>9, <2>17 DEF Timely
    <3>3. CASE a.dma.dst = "GPU"
      <4>1. Onward(a, b) /\ Done(a, b, "Gpu") /\ b.gpu.remaining >= 0
        BY <1>3, <1>4, <1>5, <1>6, <3>2, <3>3, GpuMovesOn, GpuRunLemma
      <4>2. \A x \in {"Gpu", "InputDev"} : b.last[x] \in {s.last[x], s.cycle}
        BY <1>4, <3>1, <4>1 DEF Onward
      <4>3. b.next["Gpu"] > s.cycle /\ \A x \in Tokens \ {"Gpu"} : b.next[x] = a.next[x]
        BY <1>4, <2>1, <4>1 DEF Done, OthersKept
      <4> QED BY <3>1, <4>1, <4>2, <4>3 DEF Onward
    <3>4. CASE a.dma.dst # "GPU"
      <4>1. b = a
        BY <3>4
      <4> QED BY <3>1, <3>2, <3>4, <4>1 DEF StaysAwake
    <3> QED BY <3>3, <3>4
  <2> HIDE DEF b
  <2>2. /\ DOMAIN b = Fields /\ b.dma = s.dma /\ b.asked = s.asked /\ b.delivered = s.delivered
        /\ b.done = s.done
    BY <1>4, <2>1 DEF Keeps, Fields, Irq, Cpu, Dates
  <2>3. Beside(b, c)
    <3>1. {"samples", "spu", "base", "input", "mtime", "mtimecmp"} \cap G = {}
      BY DEF Irq, Cpu, Dates
    <3> HIDE DEF G
    <3> QED BY <1>4, <1>6, <2>1, <3>1, BesideElsewhere
  <2>4. b.last["Dma"] <= c /\ DmaHolds(b)
    <3>1. b.last["Dma"] = a.last["Dma"]
      BY <2>1 DEF OthersKept, Tokens
    <3> QED BY <1>2, <1>3, <2>2, <3>1 DEF DmaHolds, DmaKept
  <2>5. Moved(b, r.m) /\ r.delay \in Int /\ r.delay <= DmaPatience
    BY <1>3, <2>1, <2>2, <2>4, TransferLemma DEF GpuKept
  <2>18. Waits(b, r, e)
    BY <1>3, <2>1, <2>2, <2>4, TransferLemma DEF GpuKept
  <2> HIDE DEF r
  <2> PICK d : d = r.m
    OBVIOUS
  <2>6. /\ Keeps(b, d, {"dma", "delivered", "gpu", "last", "panicked"}) /\ OthersKept(b, d, "Dma")
        /\ Planned(d) /\ GpuTyped(d.gpu) /\ d.gpu.frame = b.gpu.frame
        /\ DmaHolds(d) /\ d.last["Dma"] <= b.last["Dma"]
    BY <2>5 DEF Moved
  <2>7. /\ DOMAIN d = Fields /\ d.mip = b.mip /\ d.mie = b.mie /\ d.irqOn = b.irqOn /\ d.wfi = b.wfi
        /\ d.unchecked = b.unchecked
        /\ d.asked = s.asked /\ d.done = s.done /\ d.program = b.program /\ d.frames = b.frames
        /\ d.base = b.base
    BY <2>2, <2>6 DEF Keeps, Fields
  <2>8. IrqSafe(d) /\ Beside(d, c)
    <3>1. {"samples", "spu", "base", "input", "mtime", "mtimecmp"}
            \cap {"dma", "delivered", "gpu", "last", "panicked"} = {}
      OBVIOUS
    <3>2. Beside(d, c)
      BY <2>2, <2>3, <2>6, <2>7, <3>1, BesideElsewhere
    <3> QED BY <2>1, <2>7, <3>2 DEF IrqSafe
  <2>9. GpuKept(d)
    <3>1. d.last["Gpu"] = b.last["Gpu"]
      BY <2>6 DEF OthersKept, Tokens
    <3> QED BY <2>1, <2>6, <2>7, <3>1 DEF GpuKept, FrameCycles
  <2>10. d.last["Dma"] <= c
    <3>1. b.last["Dma"] \in Int /\ d.last["Dma"] \in Int
      BY <2>1, <2>6 DEF Planned, Tokens
    <3> QED BY <2>4, <2>6, <3>1
  <2>11. s.asked # <<>> /\ s.done = 0
    BY <1>2, <1>8, RunningAsked DEF DmaKept
  <2>12. /\ Keeps(d, t, Irq \cup {"next", "first", "done"}) /\ OthersKept(d, t, "Dma")
         /\ IrqSafe(t) /\ Planned(t) /\ ("MTI" \in t.mip <=> "MTI" \in d.mip)
         /\ DmaKept(t, c)
         /\ Attained(t) /\ StaysAwake(d, t) /\ t.last = d.last
         /\ t.next["Dma"] = d.last["Dma"] + (IF IsRunning(d) THEN r.delay ELSE CpuFreq)
    BY <2>5, <2>6, <2>7, <2>8, <2>10, <2>11, PlanLemma
  <2> HIDE DEF t
  <2>13. DOMAIN t = Fields
    BY <2>7, <2>12 DEF Keeps
  <2>14. Beside(t, c) /\ GpuKept(t)
    <3> DEFINE H == Irq \cup {"next", "first", "done"}
    <3>1. /\ {"samples", "spu", "base", "input", "mtime", "mtimecmp"} \cap H = {}
          /\ {"program", "frames", "gpu", "base"} \cap H = {}
      BY DEF Irq, Cpu
    <3> HIDE DEF H
    <3>2. Keeps(d, t, H)
      BY <2>12 DEF H
    <3>3. Beside(t, c)
      BY <2>7, <2>8, <2>12, <3>1, <3>2, BesideElsewhere
    <3>4. GpuKept(t)
      BY <2>7, <2>9, <2>12, <3>1, <3>2, GpuElsewhere DEF Tokens
    <3> QED BY <3>3, <3>4
  <2>15. Good(t, c)
    BY <2>12, <2>13, <2>14 DEF Good, Beside
  <2>16. Keeps(s, t, DmaRuns)
    <3>1. Keeps(s, b, DmaRuns)
      BY <1>3, <2>1 DEF Keeps, DmaRuns
    <3>2. Keeps(b, d, DmaRuns)
      BY <2>6 DEF Keeps, DmaRuns, Dates
    <3>3. Keeps(d, t, DmaRuns)
      BY <2>12 DEF Keeps, DmaRuns, Dates
    <3> QED BY <3>1, <3>2, <3>3 DEF Keeps
  <2>19. ASSUME Timely(s) PROVE DmaOnward(s, t)
    <3>1. /\ d.last["Dma"] >= s.last["Dma"] /\ t.next["Dma"] >= s.cycle
          /\ ~d.panicked => t.next["Dma"] > s.cycle
          /\ IsRunning(d) => s.cycle - d.last["Dma"] < RomCost
      <4>1. s.next["Dma"] - s.last["Dma"] <= DmaPatience
        BY <1>2, <1>8 DEF DmaKept
      <4>2. b.last["Dma"] = a.last["Dma"]
        BY <2>1 DEF OthersKept, Tokens
      <4>3. GpuTyped(b.gpu)
        BY <2>1 DEF GpuKept
      <4> QED BY <1>2, <1>3, <2>5, <2>12, <2>17, <2>18, <2>19, <4>1, <4>2, <4>3, TransferDates
    <3>2. /\ t.gpu = d.gpu /\ t.dma = d.dma /\ t.panicked = d.panicked
          /\ \A x \in Tokens \ {"Dma"} : t.next[x] = b.next[x] /\ t.last[x] = b.last[x]
      BY <2>6, <2>7, <2>12 DEF Keeps, Fields, Irq, Cpu, OthersKept
    <3>3. HasFrame(t)
      BY <2>6, <2>17, <2>19, <3>2 DEF HasFrame, Tokens
    <3>4. StaysAwake(s, t)
      BY <1>4, <2>7, <2>12, <2>17, <2>19 DEF StaysAwake
    <3>5. \A x \in Tokens : t.next[x] >= s.cycle \/ t.next[x] = s.next[x]
      <4>1. t.next \in [Tokens -> Int] /\ s.cycle \in Int
        BY <1>2, <2>12 DEF Planned
      <4>2. \A x \in Tokens \ {"Dma"} : t.next[x] > s.cycle \/ t.next[x] = s.next[x]
        BY <2>17, <2>19, <3>2
      <4> QED BY <3>1, <4>1, <4>2
    <3>6. \A x \in {"Gpu", "InputDev"} : t.last[x] \in {s.last[x], s.cycle}
      BY <2>17, <2>19, <3>2 DEF Tokens
    <3>7. Onward(s, t)
      BY <2>12, <3>3, <3>4, <3>5, <3>6 DEF Onward
    <3>8. ~t.panicked => Done(s, t, "Dma")
      BY <2>17, <2>19, <3>1, <3>2 DEF Done
    <3>9. IsRunning(t) <=> IsRunning(d)
      BY <3>2 DEF IsRunning
    <3> QED BY <1>8, <2>12, <3>1, <3>7, <3>8, <3>9 DEF DmaOnward
  <2> QED BY <1>1, <1>8, <2>15, <2>16, <2>19
<1> QED BY <1>7, <1>8

\* A change of the DMA only, that plans nothing.
LEMMA DmaSet ==
  ASSUME NEW s, NEW t, NEW c \in Int, Good(s, c),
         Keeps(s, t, {"dma", "asked", "delivered", "done", "nextReg"}), DmaKept(t, c)
  PROVE  Good(t, c)
<1>1. DOMAIN s = Fields /\ DOMAIN t = Fields
  BY DEF Good, Keeps
<1>2. /\ t.last = s.last /\ t.next = s.next /\ t.first = s.first /\ t.cycle = s.cycle
      /\ t.base = s.base /\ t.gpu = s.gpu /\ t.program = s.program /\ t.frames = s.frames
      /\ t.mip = s.mip /\ t.mie = s.mie /\ t.irqOn = s.irqOn /\ t.wfi = s.wfi
      /\ t.unchecked = s.unchecked
  BY <1>1 DEF Keeps, Fields
<1>3. IrqSafe(t) /\ Planned(t) /\ GpuKept(t) /\ OthersKept(s, t, "Dma")
  BY <1>2 DEF Good, IrqSafe, Planned, GpuKept, FrameCycles, OthersKept
<1>4. {"samples", "spu", "base", "input", "mtime", "mtimecmp"}
        \cap {"dma", "asked", "delivered", "done", "nextReg"} = {}
  OBVIOUS
<1>5. Beside(t, c)
  BY <1>1, <1>2, <1>3, <1>4, BesideElsewhere DEF Good, Beside
<1> QED BY <1>1, <1>3, <1>5 DEF Good, Beside

LEMMA DmaStoreDstGood ==
  ASSUME NEW s, NEW c \in Int, Good(s, c), s.cycle <= c, NEW dst, NEW reg
  PROVE  LET t == [DmaStoreDst(s, dst) EXCEPT !.nextReg = reg]
         IN  /\ Good(t, c) /\ Keeps(s, t, DmaRuns \cup {"nextReg"})
             /\ Timely(s) => Onward(s, t) /\ (IsRunning(t) => s.cycle - t.last["Dma"] < RomCost)
<1> DEFINE u == DmaRun(s)
           t == [[u EXCEPT !.dma.dst = dst] EXCEPT !.nextReg = reg]
<1>1. /\ Good(u, c) /\ Keeps(s, u, DmaRuns) /\ DOMAIN u = Fields /\ DmaKept(u, c)
      /\ Timely(s) => DmaOnward(s, u)
  BY DmaRunGood DEF Good
<1> HIDE DEF u
<1>2. Keeps(u, t, {"dma", "nextReg"}) /\ t.dma = [u.dma EXCEPT !.dst = dst]
  BY <1>1 DEF Keeps, Fields
<1>3. [DmaStoreDst(s, dst) EXCEPT !.nextReg = reg] = t
  BY DEF DmaStoreDst, u
<1> HIDE DEF t
<1>4. /\ t.asked = u.asked /\ t.delivered = u.delivered /\ t.done = u.done
      /\ t.last = u.last /\ t.next = u.next
  BY <1>1, <1>2 DEF Keeps, Fields
<1>5. DOMAIN t.dma = DOMAIN u.dma /\ t.dma.todo = u.dma.todo /\ t.dma.buf = u.dma.buf
  BY <1>1, <1>2 DEF DmaKept, DmaHolds
<1>6. DmaKept(t, c)
  BY <1>1, <1>4, <1>5 DEF DmaKept, DmaHolds, IsRunning
<1>7. Good(t, c)
  <2>1. Keeps(u, t, {"dma", "asked", "delivered", "done", "nextReg"})
    BY <1>2 DEF Keeps
  <2> QED BY <1>1, <1>6, <2>1, DmaSet
<1>8. Keeps(s, t, DmaRuns \cup {"nextReg"})
  BY <1>1, <1>2 DEF Keeps, DmaRuns
<1>9. ASSUME Timely(s)
      PROVE  Onward(s, t) /\ (IsRunning(t) => s.cycle - t.last["Dma"] < RomCost)
  <2>1. t.first = u.first /\ t.wfi = u.wfi /\ t.gpu = u.gpu
    BY <1>1, <1>2 DEF Keeps, Fields
  <2>2. Onward(s, t)
    BY <1>1, <1>4, <1>9, <2>1, OnwardStill DEF DmaOnward
  <2> QED BY <1>1, <1>4, <1>5, <1>9, <2>2 DEF DmaOnward, IsRunning
<1> QED BY <1>3, <1>7, <1>8, <1>9

\* The words that are left are now those of another memory.
LEMMA DmaStoreSrcGood ==
  ASSUME NEW s, NEW c \in Int, Good(s, c), s.cycle <= c, NEW src, NEW rest, IsSeq(rest),
         Len(rest) = Len(DmaStoreSrc(s, src).dma.todo)
  PROVE  LET u == DmaStoreSrc(s, src)
             t == [u EXCEPT !.nextReg = "DST", !.dma.todo = rest,
                            !.asked = u.delivered \o u.dma.buf \o rest]
         IN  /\ Good(t, c) /\ Keeps(s, t, DmaRuns \cup {"nextReg", "asked"})
             /\ Timely(s) => Onward(s, t) /\ (IsRunning(t) => s.cycle - t.last["Dma"] < RomCost)
<1> DEFINE v == DmaRun(s)
           u == DmaStoreSrc(s, src)
           all == u.delivered \o u.dma.buf \o rest
           t == [u EXCEPT !.nextReg = "DST", !.dma.todo = rest, !.asked = all]
<1>1. /\ Good(v, c) /\ Keeps(s, v, DmaRuns) /\ DOMAIN v = Fields /\ DmaKept(v, c)
      /\ Timely(s) => DmaOnward(s, v)
  BY DmaRunGood DEF Good
<1>2. u = [v EXCEPT !.dma.src = src]
  BY DEF DmaStoreSrc
<1> HIDE DEF v, u
<1>3. Keeps(v, u, {"dma"}) /\ u.dma = [v.dma EXCEPT !.src = src]
  BY <1>1, <1>2 DEF Keeps, Fields
<1>4. /\ DOMAIN u = Fields /\ DOMAIN u.dma = {"src", "dst", "todo", "buf"}
      /\ u.dma.todo = v.dma.todo /\ u.dma.buf = v.dma.buf
      /\ u.asked = v.asked /\ u.delivered = v.delivered /\ u.done = v.done
      /\ u.last = v.last /\ u.next = v.next
  BY <1>1, <1>3 DEF Keeps, Fields, DmaKept, DmaHolds
<1> HIDE DEF all
<1>5. /\ Keeps(u, t, {"dma", "asked", "nextReg"}) /\ t.asked = all
      /\ t.dma = [u.dma EXCEPT !.todo = rest]
  BY <1>4 DEF Keeps, Fields
<1> HIDE DEF t
<1>6. /\ DOMAIN t.dma = {"src", "dst", "todo", "buf"} /\ t.dma.todo = rest
      /\ t.dma.buf = v.dma.buf /\ t.delivered = v.delivered /\ t.done = v.done
      /\ t.last = v.last /\ t.next = v.next
  BY <1>4, <1>5 DEF Keeps, Fields
<1>7. DmaHolds(t)
  BY <1>1, <1>4, <1>5, <1>6 DEF DmaHolds, DmaKept, all
<1>8. rest = <<>> <=> v.dma.todo = <<>>
  <2>1. Len(rest) = Len(v.dma.todo)
    BY <1>4 DEF u
  <2>2. PICK S, T : rest \in Seq(S) /\ v.dma.todo \in Seq(T)
    BY <1>1 DEF IsSeq, DmaKept, DmaHolds
  <2>3. \A q : IsSeq(q) => (q = <<>> <=> Len(q) = 0)
    <3> SUFFICES ASSUME NEW q, NEW U, q \in Seq(U) PROVE q = <<>> <=> Len(q) = 0
      BY DEF IsSeq
    <3> QED BY EmptySeq
  <2> QED BY <1>1, <2>1, <2>3 DEF DmaKept, DmaHolds
<1>9. IsRunning(t) <=> IsRunning(v)
  BY <1>6, <1>8 DEF IsRunning
<1>10. t.done = IF t.asked # <<>> /\ ~IsRunning(t) THEN 1 ELSE 0
  <2>1. v.done = IF v.asked # <<>> /\ ~IsRunning(v) THEN 1 ELSE 0
    BY <1>1 DEF DmaKept
  <2>2. CASE IsRunning(v)
    BY <1>6, <1>9, <2>1, <2>2
  <2>3. CASE ~IsRunning(v)
    <3>1. rest = v.dma.todo
      BY <1>8, <2>3 DEF IsRunning
    <3>2. t.asked = v.asked
      BY <1>1, <1>4, <1>5, <3>1 DEF all, DmaKept, DmaHolds
    <3> QED BY <1>6, <1>9, <2>1, <3>2
  <2> QED BY <2>2, <2>3
<1>11. DmaKept(t, c)
  BY <1>1, <1>6, <1>7, <1>9, <1>10 DEF DmaKept
<1>12. Good(t, c)
  <2>1. Keeps(v, t, {"dma", "asked", "delivered", "done", "nextReg"})
    BY <1>3, <1>5 DEF Keeps
  <2> QED BY <1>1, <1>11, <2>1, DmaSet
<1>13. Keeps(s, t, DmaRuns \cup {"nextReg", "asked"})
  BY <1>1, <1>3, <1>5 DEF Keeps, DmaRuns
<1>14. ASSUME Timely(s)
       PROVE  Onward(s, t) /\ (IsRunning(t) => s.cycle - t.last["Dma"] < RomCost)
  <2>1. t.first = v.first /\ t.wfi = v.wfi /\ t.gpu = v.gpu
    BY <1>1, <1>3, <1>4, <1>5 DEF Keeps, Fields
  <2>2. Onward(s, t)
    BY <1>1, <1>6, <1>14, <2>1, OnwardStill DEF DmaOnward
  <2> QED BY <1>1, <1>6, <1>9, <1>14, <2>2 DEF DmaOnward
<1> QED BY <1>12, <1>13, <1>14 DEF t, all, u

\* A transfer may be replaced in the run in which it ends, which may have been some time ago,
\* but not before the date at which DST was written.
LEMMA DmaStoreLenGood ==
  ASSUME NEW s, NEW c \in Int, Good(s, c), s.cycle <= c, NEW words, IsSeq(words), NEW reg
  PROVE  LET t == [DmaStoreLen(s, words) EXCEPT !.nextReg = reg]
         IN  /\ Good(t, c) /\ Keeps(s, t, DmaRuns \cup {"nextReg", "asked"})
             /\ Timely(s) /\ (IsRunning(s) => s.cycle - s.last["Dma"] < RomCost + Reach)
                  => Punctual(s, t)
<1> DEFINE v == DmaRun(s)
           u == [v EXCEPT !.dma.todo = words, !.dma.buf = <<>>,
                          !.asked = words, !.delivered = <<>>, !.done = 0]
           delay == IF words = <<>> THEN CpuFreq ELSE DmaStart
           w == NextEvent(u, "Dma", delay)
           t == [w EXCEPT !.nextReg = reg]
<1>1. /\ Good(v, c) /\ Keeps(s, v, DmaRuns) /\ DOMAIN v = Fields /\ DmaKept(v, c)
      /\ Timely(s) => DmaOnward(s, v)
  BY DmaRunGood DEF Good
<1>2. [DmaStoreLen(s, words) EXCEPT !.nextReg = reg] = t
  BY DEF DmaStoreLen
<1> HIDE DEF v
<1>3. /\ Keeps(v, u, {"dma", "asked", "delivered", "done"})
      /\ u.dma = [[v.dma EXCEPT !.todo = words] EXCEPT !.buf = <<>>]
      /\ u.asked = words /\ u.delivered = <<>> /\ u.done = 0
  BY <1>1 DEF Keeps, Fields
<1> HIDE DEF u
<1>4. /\ DOMAIN u = Fields /\ u.last = v.last /\ u.next = v.next /\ u.first = v.first
      /\ u.cycle = v.cycle /\ u.base = v.base /\ u.mip = v.mip /\ u.mie = v.mie
      /\ u.irqOn = v.irqOn /\ u.wfi = v.wfi /\ u.gpu = v.gpu /\ u.program = v.program
      /\ u.unchecked = v.unchecked
      /\ u.frames = v.frames
  BY <1>1, <1>3 DEF Keeps, Fields
<1>5. Planned(u) /\ OthersKept(v, u, "Dma")
  BY <1>1, <1>4 DEF Good, Planned, OthersKept
<1>6. delay \in Int /\ (words # <<>> => delay <= DmaPatience) /\ delay >= RomCost
  BY ConstantsAreNat, PatienceLemma, Proportions, PatienceFits
<1> HIDE DEF delay
<1>7. /\ Keeps(u, w, {"next", "first"}) /\ Planned(w) /\ OthersKept(u, w, "Dma")
      /\ w.next["Dma"] = u.last["Dma"] + delay /\ Attained(w)
  BY <1>4, <1>5, <1>6, NextEventLemma DEF Tokens
<1> HIDE DEF w
<1>8. Keeps(u, t, {"next", "first", "nextReg"}) /\ t.next = w.next /\ t.first = w.first
  BY <1>4, <1>7 DEF Keeps, Fields
<1> HIDE DEF t
<1>9. Keeps(v, t, {"dma", "asked", "delivered", "done", "next", "first", "nextReg"})
  BY <1>3, <1>8 DEF Keeps
<1>10. /\ DOMAIN t = Fields /\ t.last = v.last /\ t.cycle = v.cycle /\ t.base = v.base
       /\ t.mip = v.mip /\ t.mie = v.mie /\ t.irqOn = v.irqOn /\ t.wfi = v.wfi
       /\ t.unchecked = v.unchecked
       /\ t.gpu = v.gpu /\ t.program = v.program /\ t.frames = v.frames
       /\ t.dma = u.dma /\ t.asked = words /\ t.delivered = <<>> /\ t.done = 0
  BY <1>1, <1>3, <1>4, <1>8, <1>9 DEF Keeps, Fields
<1>11. Planned(t) /\ OthersKept(v, t, "Dma") /\ IrqSafe(t)
  <2>1. w.last = v.last /\ w.cycle = v.cycle /\ w.base = v.base
    BY <1>4, <1>7 DEF Keeps, Fields
  <2> QED BY <1>1, <1>5, <1>7, <1>8, <1>10, <2>1 DEF Planned, OthersKept, IrqSafe, Good
<1>12. Beside(t, c) /\ GpuKept(t)
  <2> DEFINE H == {"dma", "asked", "delivered", "done", "next", "first", "nextReg"}
  <2>1. /\ {"samples", "spu", "base", "input", "mtime", "mtimecmp"} \cap H = {}
        /\ {"program", "frames", "gpu", "base"} \cap H = {}
    OBVIOUS
  <2> HIDE DEF H
  <2>2. Keeps(v, t, H)
    BY <1>9 DEF H
  <2>3. Beside(t, c)
    BY <1>1, <1>10, <1>11, <2>1, <2>2, BesideElsewhere DEF Good, Beside
  <2>4. GpuKept(t)
    BY <1>1, <1>11, <2>1, <2>2, GpuElsewhere DEF Good, Tokens
  <2> QED BY <2>3, <2>4
<1>13. DmaHolds(t)
  <2>1. DOMAIN t.dma = {"src", "dst", "todo", "buf"} /\ t.dma.todo = words /\ t.dma.buf = <<>>
    BY <1>1, <1>3, <1>10 DEF DmaKept, DmaHolds
  <2>2. <<>> \o <<>> \o words = words
    <3>1. PICK S : words \in Seq(S)
      BY DEF IsSeq
    <3>2. <<>> \in Seq(S)
      OBVIOUS
    <3> QED BY <3>1, <3>2, ConcatEmptySeq
  <2> QED BY <1>10, <2>1, <2>2, EmptyIsSeq DEF DmaHolds
<1>14. DmaKept(t, c)
  <2>1. IsRunning(t) <=> words # <<>>
    BY <1>1, <1>3, <1>10 DEF IsRunning, DmaKept, DmaHolds
  <2>2. t.next["Dma"] = t.last["Dma"] + delay /\ t.last["Dma"] \in Int
    BY <1>4, <1>7, <1>8, <1>10, <1>11 DEF Planned, Tokens
  <2>3. words # <<>> => t.next["Dma"] - t.last["Dma"] <= DmaPatience
    <3>1. PICK l \in Int, d \in Int : l = t.last["Dma"] /\ d = delay
      BY <1>6, <2>2
    <3>2. (l + d) - l = d
      BY <3>1
    <3> QED BY <1>6, <2>2, <3>1, <3>2
  <2> QED BY <1>1, <1>10, <1>13, <2>1, <2>3 DEF DmaKept
<1>15. Good(t, c)
  BY <1>10, <1>11, <1>12, <1>14 DEF Good, Beside
<1>16. Keeps(s, t, DmaRuns \cup {"nextReg", "asked"})
  BY <1>1, <1>9 DEF Keeps, DmaRuns, Dates
<1>17. ASSUME Timely(s), IsRunning(s) => s.cycle - s.last["Dma"] < RomCost + Reach
       PROVE  Punctual(s, t)
  <2>1. DmaOnward(s, v) /\ Onward(s, v) /\ Planned(s) /\ Planned(v)
    BY <1>1, <1>17 DEF DmaOnward, Good
  <2>2. Attained(t) /\ StaysAwake(s, t)
    BY <1>7, <1>8, <1>10, <2>1 DEF Attained, Onward, StaysAwake
  <2>3. HasFrame(t)
    <3>1. t.next["Gpu"] = v.next["Gpu"]
      BY <1>11 DEF OthersKept, Tokens
    <3> QED BY <1>10, <2>1, <3>1 DEF HasFrame, Onward
  <2>4. \A d \in {"Gpu", "InputDev"} : t.last[d] \in {s.last[d], s.cycle}
    BY <1>10, <2>1 DEF Onward
  <2>5. PICK d \in Tokens : t.first = t.next[d]
    BY <2>2 DEF Attained
  <2>6. t.cycle = s.cycle
    BY <1>16, <1>10 DEF Keeps, Fields, DmaRuns, Irq, Cpu, Dates
  <2>7. PICK y \in Int, f \in Int, g \in Int, h \in Int :
          y = s.cycle /\ f = s.first /\ g = t.first /\ h = Reach /\ h > 0 /\ y - f < h
    BY <1>11, <1>17, <2>1, Proportions DEF Planned, Timely
  <2>8. ASSUME d = "Dma" PROVE y - g < h
    <3>1. PICK l \in Int, x \in Int, q \in Int :
            /\ l = s.last["Dma"] /\ x = v.last["Dma"] /\ q = delay /\ g = x + q /\ x >= l
      <4>1. s.last["Dma"] \in Int /\ v.last["Dma"] \in Int
        BY <2>1 DEF Planned, Tokens
      <4>2. g = v.last["Dma"] + delay
        BY <1>4, <1>7, <1>8, <2>5, <2>7, <2>8
      <4> QED BY <1>6, <2>1, <4>1, <4>2 DEF DmaOnward
    <3>2. x >= y \/ y - l < RomCost + h
      BY <1>17, <2>1, <2>7, <3>1 DEF DmaOnward
    <3>3. PICK r \in Int : r = RomCost
      BY ConstantsAreNat
    <3>4. x >= y \/ y - l < r + h
      BY <3>2, <3>3
    <3>5. g = x + q /\ x >= l /\ q >= r /\ r >= 0 /\ h > 0
      BY <1>6, <2>7, <3>1, <3>3, ConstantsAreNat
    <3> QED BY <3>4, <3>5
  <2>9. ASSUME d # "Dma" PROVE y - g < h
    <3>1. t.next[d] = v.next[d]
      BY <1>11, <2>9 DEF OthersKept
    <3>2. g >= y \/ g >= f
      BY <2>1, <2>5, <2>7, <3>1 DEF Onward, Planned
    <3> QED BY <2>7, <3>2
  <2>10. t.cycle - t.first < Reach
    BY <2>6, <2>7, <2>8, <2>9
  <2> QED BY <2>2, <2>3, <2>4, <2>10 DEF Punctual, Timely
<1> QED BY <1>2, <1>15, <1>16, <1>17

-----------------------------------------------------------------------------
(* The processor, and the date *)

Aside == {"irqOnPrev", "handled", "canWrite", "sent", "nextReg", "frameDone", "panicked", "cycle"}

\* A change of the processor and of its date.
LEMMA CpuOnly ==
  ASSUME NEW s, NEW t, NEW c \in Int, NEW d \in Int, c <= d, Good(s, c),
         Keeps(s, t, Irq \cup Aside), t.cycle \in Int, IrqSafe(t),
         "MTI" \in t.mip <=> "MTI" \in s.mip
  PROVE  Good(t, d)
<1>1. DOMAIN s = Fields /\ DOMAIN t = Fields
  BY DEF Good, Keeps
<1>2. /\ t.program = s.program /\ t.base = s.base /\ t.first = s.first
      /\ t.last = s.last /\ t.next = s.next /\ t.mtime = s.mtime /\ t.mtimecmp = s.mtimecmp
      /\ t.samples = s.samples /\ t.gpu = s.gpu /\ t.frames = s.frames /\ t.dma = s.dma
      /\ t.spu = s.spu /\ t.asked = s.asked /\ t.delivered = s.delivered /\ t.done = s.done
      /\ t.input = s.input
  BY <1>1 DEF Keeps, Fields, Irq, Cpu, Aside
<1>3. Planned(t) /\ GpuKept(t) /\ InputKept(t) /\ TimerArmed(t)
  BY <1>2 DEF Good, Planned, GpuKept, FrameCycles, InputKept, TimerArmed
<1>4. /\ s.last["SysTimer"] <= d /\ s.last["Spu"] <= d /\ s.last["Dma"] <= d
  <2>1. s.last["SysTimer"] \in Int /\ s.last["Spu"] \in Int /\ s.last["Dma"] \in Int
    BY DEF Good, Planned, Tokens
  <2> QED BY <2>1 DEF Good, TimerKept, SpuKept, DmaKept
<1>5. TimerKept(t, d)
  BY <1>2, <1>4 DEF Good, TimerKept
<1>6. SpuKept(t, d)
  BY <1>2, <1>4 DEF Good, SpuKept, VoiceKept
<1>7. DmaKept(t, d)
  BY <1>2, <1>4 DEF Good, DmaKept, DmaHolds, IsRunning
<1> QED BY <1>1, <1>3, <1>5, <1>6, <1>7 DEF Good

\* Between two steps nothing has run past the present date.
IInv == Good(m, m.cycle) /\ m.sent \in Nat

LEMMA ClocksAdvance ==
  ASSUME IInv, NEW t \in Ticks
  PROVE  /\ m.cycle \in Int /\ t \in Nat \ {0} /\ m.cycle + t \in Int /\ m.cycle <= m.cycle + t
<1>1. t \in Nat \ {0}
  BY MachineAssumption DEF MachineAssumption
<1> QED BY <1>1 DEF IInv, Good, Planned

LEMMA AfterLemma ==
  ASSUME IInv, NEW t \in Ticks
  PROVE  LET a == After(t)
         IN  /\ Good(a, m.cycle + t) /\ a.cycle = m.cycle + t /\ a.sent \in Nat
             /\ Keeps(m, a, {"cycle", "handled"})
<1> DEFINE a == After(t)
<1>1. DOMAIN m = Fields /\ Good(m, m.cycle)
  BY DEF IInv, Good
<1>2. Keeps(m, a, {"cycle", "handled"}) /\ a.cycle = m.cycle + t
  BY <1>1 DEF After, Keeps, Fields
<1> HIDE DEF a
<1>3. /\ a.mip = m.mip /\ a.mie = m.mie /\ a.irqOn = m.irqOn /\ a.wfi = m.wfi /\ a.sent = m.sent
      /\ a.unchecked = m.unchecked
  BY <1>1, <1>2 DEF Keeps, Fields
<1>4. IrqSafe(a) /\ a.sent \in Nat
  BY <1>3 DEF IInv, Good, IrqSafe
<1>5. Keeps(m, a, Irq \cup Aside)
  BY <1>2 DEF Keeps, Aside
<1>6. Good(a, m.cycle + t)
  BY <1>1, <1>2, <1>3, <1>4, <1>5, ClocksAdvance, CpuOnly
<1> QED BY <1>2, <1>4, <1>6 DEF a

\* A step that neither moves the date nor writes to the sound processor ends an instruction.
LEMMA InstructionEnds ==
  ASSUME IInv, NEW t \in Ticks, NEW F, {"cycle", "sent"} \cap F = {},
         NEW a, DOMAIN a = Fields, a.cycle = m.cycle + t, a.sent \in Nat,
         Keeps(a, m', F), Good(m', m.cycle + t)
  PROVE  IInv'
<1>1. m'.cycle = m.cycle + t /\ m'.sent \in Nat
  BY DEF Keeps, Fields
<1> QED BY <1>1 DEF IInv

LEMMA ProcessorSteps ==
  ASSUME IInv, NEW t \in Ticks,
         Compute(t) \/ CsrBits(t) \/ CsrSet(t) \/ Ecall(t) \/ MRet(t)
  PROVE  IInv'
<1> DEFINE a == After(t)
<1>1. /\ Good(a, m.cycle + t) /\ a.cycle = m.cycle + t /\ a.sent \in Nat
      /\ Keeps(m, a, {"cycle", "handled"}) /\ DOMAIN a = Fields
  BY AfterLemma DEF Good
<1>2. m.cycle + t \in Int
  BY ClocksAdvance
<1> DEFINE C == {"mie", "irqOn", "irqOnPrev", "wfi", "unchecked"}
<1>3. ASSUME Keeps(a, m', C), IrqSafe(m') PROVE IInv'
  <2> HIDE DEF a
  <2>1. m'.mip = a.mip /\ m'.cycle = a.cycle
    BY <1>1, <1>3 DEF Keeps, Fields
  <2>2. Keeps(a, m', Irq \cup Aside)
    BY <1>3 DEF Keeps, Irq, Cpu, Aside
  <2>3. PICK d \in Int : d = m.cycle + t
    BY <1>2
  <2>4. Good(a, d) /\ m'.cycle \in Int
    BY <1>1, <2>1, <2>3
  <2>5. Good(m', d)
    BY <1>3, <2>1, <2>2, <2>4, CpuOnly
  <2> QED BY <1>1, <1>3, <2>3, <2>5, InstructionEnds
<1>4. ASSUME NEW u, Keeps(a, u, C), m' = CheckForIrq(u) PROVE IInv'
  <2> HIDE DEF a
  <2>1. Keeps(u, m', {"mie", "irqOn", "wfi", "unchecked"}) /\ IrqSafe(m')
    BY <1>1, <1>4, CheckForIrqLemma DEF Keeps
  <2>2. Keeps(a, m', C)
    BY <1>4, <2>1 DEF Keeps
  <2> QED BY <1>3, <2>1, <2>2
<1>5. CASE Compute(t)
  <2>1. m' = a
    BY <1>5 DEF Compute
  <2> HIDE DEF a
  <2>2. Keeps(a, m', C)
    BY <2>1 DEF Keeps
  <2> QED BY <1>1, <1>3, <2>1, <2>2 DEF Good
<1>6. CASE CsrBits(t)
  <2>1. PICK u \in CsrAndOr(a) : m' = CheckForIrq(u)
    BY <1>6 DEF CsrBits
  <2> HIDE DEF a
  <2>2. Keeps(a, u, C)
    BY <1>1, CsrAndOrLemma DEF Keeps
  <2> QED BY <1>4, <2>1, <2>2
<1>7. CASE CsrSet(t)
  <2>1. PICK u \in CsrAndOr(a) : m' = [u EXCEPT !.unchecked = u.irqOn]
    BY <1>7 DEF CsrSet
  <2>2. ~m.wfi
    BY <1>7 DEF CsrSet, Instr
  <2> HIDE DEF a
  <2>3. Keeps(a, u, {"mie", "irqOn", "irqOnPrev"})
    BY <1>1, CsrAndOrLemma
  <2>4. DOMAIN u = Fields /\ ~u.wfi
    BY <1>1, <2>2, <2>3 DEF Keeps, Fields
  <2>5. Keeps(u, m', {"unchecked"}) /\ m'.unchecked = u.irqOn
    BY <2>1, <2>4 DEF Keeps, Fields
  <2>6. m'.irqOn = u.irqOn /\ ~m'.wfi
    BY <2>4, <2>5 DEF Keeps, Fields
  <2>7. IrqSafe(m') /\ Keeps(a, m', C)
    BY <2>3, <2>5, <2>6 DEF IrqSafe, Keeps
  <2> QED BY <1>3, <2>7
<1>8. CASE Ecall(t)
  <2>1. m' = TriggerTrap(a) /\ ~m.wfi
    BY <1>8 DEF Ecall, Instr
  <2> HIDE DEF a
  <2>2. ~a.wfi
    BY <1>1, <2>1 DEF Keeps, Fields, IInv, Good
  <2>3. Keeps(a, m', {"mie", "irqOn"}) /\ IrqSafe(m')
    BY <1>1, <2>1, <2>2, TriggerTrapLemma
  <2>4. Keeps(a, m', C)
    BY <2>3 DEF Keeps
  <2> QED BY <1>3, <2>3, <2>4
<1>9. CASE MRet(t)
  <2> DEFINE u == SetMpie([a EXCEPT !.irqOn = m.irqOnPrev], TRUE)
  <2>1. m' = CheckForIrq(u)
    BY <1>9 DEF MRet
  <2> HIDE DEF a
  <2>2. Keeps(a, u, C)
    BY <1>1 DEF Keeps, Fields, SetMpie
  <2> QED BY <1>4, <2>1, <2>2
<1> QED BY <1>5, <1>6, <1>7, <1>8, <1>9

\* wfi, and what the processor does while it waits: the date moves to the first event, which is
\* later.
LEMMA WaitingMoves ==
  ASSUME IInv, (\E t \in Ticks : Wfi(t)) \/ Skip
  PROVE  /\ Keeps(m, m', {"wfi", "cycle", "handled"}) /\ (m.irqOn \/ m.wfi)
         /\ m.cycle \in Int /\ m'.cycle \in Int /\ m.cycle <= m'.cycle /\ m.cycle < m.first
         /\ m'.cycle - m.first < Reach
         /\ m.nextReg = "SRC" \/ m.wfi
<1>1. ~IsEventPending(m) /\ DOMAIN m = Fields /\ Good(m, m.cycle)
  BY DEF Wfi, Skip, Instr, Running, IInv, Good
<1>2. m.cycle \in Int /\ m.first \in Int /\ m.cycle < m.first
  BY <1>1 DEF IsEventPending, Good, Planned
<1>3. PICK h \in Int : h = Reach /\ h > 0 /\ \A t \in Ticks : t <= h
  BY Proportions
<1>4. ASSUME NEW t \in Ticks, Wfi(t)
      PROVE  /\ Keeps(m, m', {"wfi", "cycle", "handled"}) /\ m.irqOn /\ m.nextReg = "SRC"
             /\ m'.cycle \in Int /\ m.cycle <= m'.cycle /\ m'.cycle - m.first < h
  <2> DEFINE u == [After(t) EXCEPT !.wfi = TRUE]
  <2>1. m' = FastForward(u) /\ m.irqOn /\ m.nextReg = "SRC"
    BY <1>4 DEF Wfi, Instr
  <2>2. Keeps(m, After(t), {"cycle", "handled"}) /\ After(t).cycle = m.cycle + t
        /\ t \in Nat /\ m.cycle + t \in Int /\ m.cycle <= m.cycle + t
    BY <1>4, AfterLemma, ClocksAdvance
  <2>3. Keeps(m, u, {"wfi", "cycle", "handled"}) /\ u.cycle = m.cycle + t
    BY <1>1, <2>2 DEF Keeps, Fields
  <2> HIDE DEF u
  <2>4. u.first = m.first /\ DOMAIN u = Fields
    BY <1>1, <2>3 DEF Keeps, Fields
  <2>5. /\ Keeps(m, m', {"wfi", "cycle", "handled"})
        /\ m'.cycle = IF m.first > 0 THEN m.first ELSE m.cycle + t
    BY <1>1, <2>1, <2>3, <2>4 DEF Keeps, Fields, FastForward
  <2> QED BY <1>2, <1>3, <2>1, <2>2, <2>5
<1>5. ASSUME Skip
      PROVE  /\ Keeps(m, m', {"wfi", "cycle", "handled"}) /\ m.wfi
             /\ m'.cycle \in Int /\ m.cycle <= m'.cycle /\ m'.cycle - m.first < h
  <2>1. m' = [FastForward(m) EXCEPT !.handled = FALSE] /\ m.wfi
    BY <1>5 DEF Skip
  <2>2. /\ Keeps(m, m', {"wfi", "cycle", "handled"})
        /\ m'.cycle = IF m.first > 0 THEN m.first ELSE m.cycle
    BY <1>1, <2>1 DEF Keeps, Fields, FastForward
  <2> QED BY <1>2, <1>3, <2>1, <2>2
<1> QED BY <1>2, <1>3, <1>4, <1>5

LEMMA WaitingSteps ==
  ASSUME IInv, (\E t \in Ticks : Wfi(t)) \/ Skip
  PROVE  IInv'
<1>1. /\ Keeps(m, m', {"wfi", "cycle", "handled"}) /\ (m.irqOn \/ m.wfi)
      /\ m.cycle \in Int /\ m'.cycle \in Int /\ m.cycle <= m'.cycle
  BY WaitingMoves
<1>2. DOMAIN m = Fields /\ Good(m, m.cycle) /\ IrqSafe(m)
  BY DEF IInv, Good
<1>3. m'.mip = m.mip /\ m'.mie = m.mie /\ m'.irqOn = m.irqOn /\ m'.unchecked = m.unchecked /\ m'.sent = m.sent
  BY <1>1, <1>2 DEF Keeps, Fields
<1>4. IrqSafe(m')
  BY <1>1, <1>2, <1>3 DEF IrqSafe
<1>5. Keeps(m, m', Irq \cup Aside)
  BY <1>1 DEF Keeps, Irq, Cpu, Aside
<1>6. Good(m', m'.cycle)
  BY <1>1, <1>2, <1>3, <1>4, <1>5, CpuOnly
<1> QED BY <1>3, <1>6 DEF IInv

\* An instruction that reaches a device.
LEMMA AccessEnds ==
  ASSUME IInv, NEW t \in Ticks, NEW F, {"cycle", "sent"} \cap F = {},
         \A c \in Int : Good(After(t), c) /\ After(t).cycle <= c => Good(m', c) /\ Keeps(After(t), m', F)
  PROVE  IInv'
<1> DEFINE a == After(t)
<1>1. Good(a, m.cycle + t) /\ a.cycle = m.cycle + t /\ a.sent \in Nat /\ m.cycle + t \in Int
  BY AfterLemma, ClocksAdvance
<1>2. PICK c \in Int : c = m.cycle + t
  BY <1>1
<1> HIDE DEF a
<1>3. \A e \in Int : Good(a, e) /\ a.cycle <= e => Good(m', e) /\ Keeps(a, m', F)
  BY DEF a
<1>4. Good(m', c) /\ Keeps(a, m', F)
  BY <1>1, <1>2, <1>3
<1>5. DOMAIN a = Fields
  BY <1>1 DEF Good
<1> QED BY <1>1, <1>2, <1>4, <1>5, InstructionEnds

LEMMA TimerSteps ==
  ASSUME IInv, NEW t \in Ticks, StoreTimer(t) \/ LoadTimer(t)
  PROVE  IInv'
<1> DEFINE a == After(t)
<1>1. CASE LoadTimer(t)
  <2>1. m' = TimerRun(a)
    BY <1>1 DEF LoadTimer
  <2>2. {"cycle", "sent"} \cap (Cpu \cup Dates \cup {"mtime"}) = {}
    BY DEF Cpu, Dates
  <2> HIDE DEF a
  <2>3. \A c \in Int : Good(a, c) /\ a.cycle <= c
          => Good(m', c) /\ Keeps(a, m', Cpu \cup Dates \cup {"mtime"})
    BY <2>1, TimerRunGood
  <2> QED BY <2>2, <2>3, AccessEnds DEF a
<1>2. CASE StoreTimer(t)
  <2>1. PICK half \in {"low", "high"}, v \in 0 .. Word - 1 : m' = TimerStore(a, half, v)
    BY <1>2 DEF StoreTimer
  <2>2. {"cycle", "sent"} \cap (Cpu \cup Dates \cup {"mtime", "mtimecmp"}) = {}
    BY DEF Cpu, Dates
  <2> HIDE DEF a
  <2>3. \A c \in Int : Good(a, c) /\ a.cycle <= c
          => Good(m', c) /\ Keeps(a, m', Cpu \cup Dates \cup {"mtime", "mtimecmp"})
    BY <2>1, TimerStoreGood
  <2> QED BY <2>2, <2>3, AccessEnds DEF a
<1> QED BY <1>1, <1>2

\* The registers of the interrupt controller.
LEMMA IrqGood ==
  ASSUME NEW s, NEW c \in Int, Good(s, c), NEW P, NEW E
  PROVE  LET t == RefreshCpuIrq([s EXCEPT !.pending = P, !.enabled = E])
         IN  Good(t, c) /\ Keeps(s, t, Irq)
<1> DEFINE t == RefreshCpuIrq([s EXCEPT !.pending = P, !.enabled = E])
<1>1. DOMAIN s = Fields /\ IrqSafe(s) /\ s.cycle \in Int
  BY DEF Good, Planned
<1>2. Keeps(s, t, Irq) /\ IrqSafe(t) /\ ("MTI" \in t.mip <=> "MTI" \in s.mip)
  BY <1>1, IrqLemma DEF Irq
<1> HIDE DEF t
<1>3. Keeps(s, t, Irq \cup Aside)
  BY <1>2 DEF Keeps
<1>4. t.cycle = s.cycle
  BY <1>1, <1>2 DEF Keeps, Fields, Irq, Cpu
<1>5. Good(t, c)
  BY <1>1, <1>2, <1>3, <1>4, CpuOnly
<1> QED BY <1>2, <1>5 DEF t

LEMMA IrqSteps ==
  ASSUME IInv, NEW t \in Ticks, StoreIrqAck(t) \/ StoreIrqEnable(t)
  PROVE  IInv'
<1> DEFINE a == After(t)
<1>1. DOMAIN a = Fields
  BY AfterLemma DEF Good
<1>2. {"cycle", "sent"} \cap Irq = {}
  BY DEF Irq, Cpu
<1>3. ASSUME NEW P, NEW E, m' = RefreshCpuIrq([a EXCEPT !.pending = P, !.enabled = E])
      PROVE  IInv'
  <2> HIDE DEF a
  <2>1. \A c \in Int : Good(a, c) /\ a.cycle <= c => Good(m', c) /\ Keeps(a, m', Irq)
    BY <1>3, IrqGood
  <2> QED BY <1>2, <2>1, AccessEnds DEF a
<1>4. CASE StoreIrqAck(t)
  <2>1. PICK S : m' = IrqAcknowledge(a, S)
    BY <1>4 DEF StoreIrqAck
  <2> HIDE DEF a
  <2>2. [a EXCEPT !.pending = @ \ S] = [a EXCEPT !.pending = a.pending \ S, !.enabled = a.enabled]
    BY <1>1 DEF Fields
  <2> QED BY <1>3, <2>1, <2>2 DEF IrqAcknowledge
<1>5. CASE StoreIrqEnable(t)
  <2>1. PICK S : m' = IrqEnable(a, S)
    BY <1>5 DEF StoreIrqEnable
  <2> HIDE DEF a
  <2>2. [a EXCEPT !.enabled = S] = [a EXCEPT !.pending = a.pending, !.enabled = S]
    BY <1>1 DEF Fields
  <2> QED BY <1>3, <2>1, <2>2 DEF IrqEnable
<1> QED BY <1>4, <1>5

LEMMA InputSteps ==
  ASSUME IInv, NEW t \in Ticks, StoreInputConf(t) \/ StoreInputTx(t) \/ LoadInputRx(t)
  PROVE  IInv'
<1> DEFINE a == After(t)
           F == Irq \cup Dates \cup {"input"}
<1>1. {"cycle", "sent"} \cap F = {}
  BY DEF Irq, Cpu, Dates
<1>2. m' = InputConf(a) \/ (\E b : m' = InputTx(a, b)) \/ m' = InputRx(a)
  BY DEF StoreInputConf, StoreInputTx, LoadInputRx
<1> HIDE DEF a
<1>3. \A c \in Int : Good(a, c) /\ a.cycle <= c => Good(m', c) /\ Keeps(a, m', F)
  BY <1>2, InputConfGood, InputTxGood, InputRxGood
<1> HIDE DEF F
<1> QED BY <1>1, <1>3, AccessEnds DEF a

\* A change of the processor's own fields after an access that did not move the date.
LEMMA AsideGood ==
  ASSUME NEW s, NEW c \in Int, Good(s, c), NEW t, Keeps(s, t, {"canWrite", "sent", "handled", "frameDone"})
  PROVE  Good(t, c)
<1>1. DOMAIN s = Fields /\ IrqSafe(s) /\ s.cycle \in Int
  BY DEF Good, Planned
<1>2. t.mip = s.mip /\ t.mie = s.mie /\ t.irqOn = s.irqOn /\ t.unchecked = s.unchecked /\ t.wfi = s.wfi /\ t.cycle = s.cycle
  BY <1>1 DEF Keeps, Fields
<1>3. Keeps(s, t, Irq \cup Aside)
  BY DEF Keeps, Aside
<1>4. IrqSafe(t) /\ t.cycle \in Int
  BY <1>1, <1>2 DEF IrqSafe
<1> QED BY <1>2, <1>3, <1>4, CpuOnly

LEMMA GpuSteps ==
  ASSUME IInv, NEW t \in Ticks, LoadGpu(t) \/ StoreGpu(t) \/ GpuCanWrite(t)
  PROVE  IInv'
<1> DEFINE a == After(t)
           F == Irq \cup Dates \cup {"gpu", "frames", "frameDone", "canWrite"}
<1>1. {"cycle", "sent"} \cap F = {}
  BY DEF Irq, Cpu, Dates
<1>2. \/ m' = GpuRun(a) \/ (\E cmd : m' = GpuStore(a, cmd))
      \/ m' = [GpuRun(a) EXCEPT !.canWrite = ~IsFull(GpuRun(a))]
  BY DEF LoadGpu, StoreGpu, GpuCanWrite
<1> HIDE DEF a
<1>3. ASSUME NEW c \in Int, Good(a, c) PROVE Good(m', c) /\ Keeps(a, m', F)
  <2>1. CASE m' = GpuRun(a)
    BY <1>3, <2>1, GpuRunGood DEF Keeps
  <2>2. CASE \E cmd : m' = GpuStore(a, cmd)
    BY <1>3, <2>2, GpuStoreGood DEF Keeps
  <2>3. CASE m' = [GpuRun(a) EXCEPT !.canWrite = ~IsFull(GpuRun(a))]
    <3>1. PICK s : s = GpuRun(a)
      OBVIOUS
    <3>2. Good(s, c) /\ Keeps(a, s, Irq \cup Dates \cup {"gpu", "frames", "frameDone"})
      BY <1>3, <3>1, GpuRunGood
    <3>3. DOMAIN s = Fields
      BY <3>2 DEF Good
    <3>4. Keeps(s, m', {"canWrite"})
      BY <2>3, <3>1, <3>3 DEF Keeps, Fields
    <3>5. Keeps(s, m', {"canWrite", "sent", "handled", "frameDone"})
      BY <3>4 DEF Keeps
    <3>6. Good(m', c)
      BY <3>2, <3>5, AsideGood
    <3>7. Keeps(a, m', F)
      BY <3>2, <3>4 DEF Keeps
    <3> QED BY <3>6, <3>7
  <2> QED BY <1>2, <2>1, <2>2, <2>3
<1> HIDE DEF F
<1> QED BY <1>1, <1>3, AccessEnds DEF a

\* A word of the program is written: it is counted first.
LEMMA CountedGood ==
  ASSUME IInv, NEW t \in Ticks, NEW w
  PROVE  LET b == [After(t) EXCEPT !.canWrite = w, !.sent = @ + 1]
         IN  /\ Good(b, m.cycle + t) /\ b.cycle = m.cycle + t /\ b.sent \in Nat
             /\ DOMAIN b = Fields /\ Keeps(m, b, {"cycle", "handled", "canWrite", "sent"})
<1> DEFINE a == After(t)
           b == [a EXCEPT !.canWrite = w, !.sent = @ + 1]
<1>1. /\ Good(a, m.cycle + t) /\ a.cycle = m.cycle + t /\ a.sent \in Nat /\ m.cycle + t \in Int
      /\ Keeps(m, a, {"cycle", "handled"})
  BY AfterLemma, ClocksAdvance
<1> HIDE DEF a
<1>2. DOMAIN a = Fields
  BY <1>1 DEF Good
<1>3. Keeps(a, b, {"canWrite", "sent"}) /\ b.sent = a.sent + 1 /\ b.cycle = a.cycle /\ DOMAIN b = Fields
  BY <1>2 DEF Keeps, Fields
<1> HIDE DEF b
<1>4. Keeps(a, b, {"canWrite", "sent", "handled", "frameDone"})
  BY <1>3 DEF Keeps
<1>5. Good(b, m.cycle + t)
  BY <1>1, <1>4, AsideGood
<1>6. b.sent \in Nat
  BY <1>1, <1>3
<1>7. Keeps(m, b, {"cycle", "handled", "canWrite", "sent"})
  BY <1>1, <1>3 DEF Keeps
<1> QED BY <1>1, <1>3, <1>5, <1>6, <1>7 DEF a, b

LEMMA SendToGpuStep ==
  ASSUME IInv, NEW t \in Ticks, SendToGpu(t)
  PROVE  IInv'
<1> DEFINE b == [After(t) EXCEPT !.canWrite = FALSE, !.sent = @ + 1]
           F == Irq \cup Dates \cup {"gpu", "frames", "frameDone"}
<1>1. PICK w : m' = GpuStore(b, w)
  BY DEF SendToGpu
<1>2. Good(b, m.cycle + t) /\ b.cycle = m.cycle + t /\ b.sent \in Nat /\ DOMAIN b = Fields
  BY CountedGood
<1>3. {"cycle", "sent"} \cap F = {}
  BY DEF Irq, Cpu, Dates
<1> HIDE DEF b
<1>4. m.cycle + t \in Int
  BY ClocksAdvance
<1>5. Good(m', m.cycle + t) /\ Keeps(b, m', F)
  BY <1>1, <1>2, <1>4, GpuStoreGood
<1> HIDE DEF F
<1> QED BY <1>2, <1>3, <1>5, InstructionEnds

\* The program writes to registers of the sound processor.
LEMMA StoreSpuLemma ==
  ASSUME IInv, m.sent < Len(m.program.stores)
  PROVE  IsStore(m.program.stores[m.sent + 1])
<1>1. m.program \in Programs /\ m.sent \in Nat
  BY DEF IInv, Good, GpuKept
<1>2. PICK p \in Programs : p = m.program
  BY <1>1
<1>3. /\ Len(p.stores) \in Nat
      /\ \A i \in 1 .. Len(p.stores) : IsStore(p.stores[i])
  BY ProgramFacts
<1>4. PICK n \in Nat : n = Len(p.stores)
  BY <1>3
<1>5. m.sent + 1 \in 1 .. n
  BY <1>1, <1>2, <1>4
<1> QED BY <1>2, <1>3, <1>4, <1>5

LEMMA StoreSpuStep ==
  ASSUME IInv, NEW t \in Ticks, StoreSpu(t)
  PROVE  IInv'
<1> DEFINE b == [After(t) EXCEPT !.sent = @ + 1]
           F == Dates \cup {"samples", "spu"}
           w == m.program.stores[m.sent + 1]
<1>1. m' = SpuStore(b, w) /\ m.sent < Len(m.program.stores)
  BY DEF StoreSpu
<1>2. DOMAIN After(t) = Fields
  BY AfterLemma DEF Good
<1>3. b = [After(t) EXCEPT !.canWrite = After(t).canWrite, !.sent = @ + 1]
  BY <1>2 DEF Fields
<1>4. Good(b, m.cycle + t) /\ b.cycle = m.cycle + t /\ b.sent \in Nat /\ DOMAIN b = Fields
  BY <1>3, CountedGood
<1>5. {"cycle", "sent"} \cap F = {}
  BY DEF Dates
<1>6. IsStore(w)
  BY <1>1, StoreSpuLemma
<1> HIDE DEF b, w
<1>7. m.cycle + t \in Int
  BY ClocksAdvance
<1>8. Good(m', m.cycle + t) /\ Keeps(b, m', F)
  BY <1>1, <1>4, <1>6, <1>7, SpuStoreGood
<1> HIDE DEF F
<1> QED BY <1>4, <1>5, <1>8, InstructionEnds

\* What is left of a transfer is read from where SRC now points to.
LEMMA StoreDmaSrcLemma ==
  ASSUME NEW t, StoreDmaSrc(t), NEW c \in Int, Good(After(t), c), After(t).cycle <= c
  PROVE  LET a == After(t)
         IN  /\ Good(m', c) /\ Keeps(a, m', DmaRuns \cup {"nextReg", "asked"})
             /\ Timely(a) => Onward(a, m') /\ (IsRunning(m') => a.cycle - m'.last["Dma"] < RomCost)
<1> DEFINE a == After(t)
<1>1. PICK src \in {"RAM", "ROM"}, memory \in Buffers :
        LET u == DmaStoreSrc(a, src)
            rest == SubSeq(memory, 1, Len(u.dma.todo))
        IN  /\ Len(memory) >= Len(u.dma.todo)
            /\ m' = [u EXCEPT !.nextReg = "DST", !.dma.todo = rest,
                              !.asked = u.delivered \o u.dma.buf \o rest]
  BY Zenon DEF StoreDmaSrc
<1>2. IsSeq(memory)
  BY MachineAssumption, Zenon DEF MachineAssumption, IsSeq
<1> DEFINE u == DmaStoreSrc(a, src)
<1> HIDE DEF a
<1>3. Good(a, c) /\ a.cycle <= c
  BY DEF a
<1>4. Good(DmaRun(a), c)
  BY <1>3, DmaRunGood
<1>5. IsSeq(u.dma.todo)
  BY <1>4 DEF DmaStoreSrc, Good, DmaKept, DmaHolds, Fields
<1>6. PICK n \in Nat : n = Len(u.dma.todo)
  BY <1>5, LenOfSeq
<1>7. PICK rest : rest = SubSeq(memory, 1, n)
  OBVIOUS
<1>8. Len(memory) >= n
  BY <1>1, <1>6
<1>9. IsSeq(rest) /\ Len(rest) = n
  <2>1. Len(memory) \in Nat
    BY <1>2, LenOfSeq
  <2>2. PICK k \in Nat : k = Len(memory)
    BY <2>1
  <2>3. n \in 0 .. Len(memory)
    BY <1>8, <2>2
  <2> QED BY <1>2, <1>7, <2>3, CutLemma
<1>10. m' = [u EXCEPT !.nextReg = "DST", !.dma.todo = rest,
                      !.asked = u.delivered \o u.dma.buf \o rest]
  BY <1>1, <1>6, <1>7
<1>11. Len(rest) = Len(DmaStoreSrc(a, src).dma.todo)
  BY <1>6, <1>9
<1>12. /\ Good(m', c) /\ Keeps(a, m', DmaRuns \cup {"nextReg", "asked"})
       /\ Timely(a) => Onward(a, m') /\ (IsRunning(m') => a.cycle - m'.last["Dma"] < RomCost)
  BY <1>3, <1>9, <1>10, <1>11, DmaStoreSrcGood
<1> QED BY <1>12 DEF a

LEMMA DmaSteps ==
  ASSUME IInv, NEW t \in Ticks, StoreDmaSrc(t) \/ StoreDmaDst(t) \/ StoreDmaLen(t)
  PROVE  IInv'
<1> DEFINE a == After(t)
           F == DmaRuns \cup {"nextReg", "asked"}
<1>1. {"cycle", "sent"} \cap F = {}
  BY DEF DmaRuns, Irq, Cpu, Dates
<1>2. ASSUME \A c \in Int : Good(a, c) /\ a.cycle <= c => Good(m', c) /\ Keeps(a, m', F)
      PROVE  IInv'
  <2> HIDE DEF a, F
  <2> QED BY <1>1, <1>2, AccessEnds DEF a
<1>3. CASE StoreDmaDst(t)
  <2>1. PICK dst : m' = [DmaStoreDst(a, dst) EXCEPT !.nextReg = "LEN"]
    BY <1>3 DEF StoreDmaDst
  <2> HIDE DEF a
  <2>2. ASSUME NEW c \in Int, Good(a, c), a.cycle <= c PROVE Good(m', c) /\ Keeps(a, m', F)
    <3>1. Good(m', c) /\ Keeps(a, m', DmaRuns \cup {"nextReg"})
      BY <2>1, <2>2, DmaStoreDstGood
    <3> QED BY <3>1 DEF Keeps
  <2> QED BY <1>2, <2>2
<1>4. CASE StoreDmaLen(t)
  <2>1. PICK words \in Buffers : m' = [DmaStoreLen(a, words) EXCEPT !.nextReg = "SRC"]
    BY <1>4 DEF StoreDmaLen
  <2>2. IsSeq(words)
    BY MachineAssumption, Zenon DEF MachineAssumption, IsSeq
  <2> HIDE DEF a
  <2>3. \A c \in Int : Good(a, c) /\ a.cycle <= c => Good(m', c) /\ Keeps(a, m', F)
    BY <2>1, <2>2, DmaStoreLenGood
  <2> QED BY <1>2, <2>3
<1>5. CASE StoreDmaSrc(t)
  BY <1>2, <1>5, StoreDmaSrcLemma
<1> QED BY <1>3, <1>4, <1>5

-----------------------------------------------------------------------------
(* The events, the end of a frame and the beginning *)

LEMMA RunIfDueGood ==
  ASSUME NEW s, NEW c \in Int, Good(s, c), s.cycle <= c, NEW who \in Tokens
  PROVE  LET t == RunIfDue(s, who)
         IN  Good(t, c) /\ t.cycle = s.cycle /\ t.sent = s.sent /\ t.nextReg = s.nextReg
<1> DEFINE t == Run(s, who)
           F == DmaRuns \cup {"mtime", "samples", "spu", "input"}
<1>1. ASSUME NEW G, G \subseteq F, Good(t, c) /\ Keeps(s, t, G)
      PROVE  Good(t, c) /\ t.cycle = s.cycle /\ t.sent = s.sent /\ t.nextReg = s.nextReg
  <2>1. DOMAIN s = Fields
    BY DEF Good
  <2>2. "cycle" \notin F /\ "sent" \notin F /\ "nextReg" \notin F
    BY DEF DmaRuns, Irq, Cpu, Dates
  <2> HIDE DEF F, t
  <2> QED BY <1>1, <2>1, <2>2 DEF Keeps, Fields
<1>2. CASE who = "SysTimer"
  <2>1. t = TimerRun(s)
    BY <1>2, Zenon DEF Run
  <2>2. Cpu \cup Dates \cup {"mtime"} \subseteq F
    BY DEF DmaRuns, Irq
  <2> HIDE DEF F
  <2> QED BY <1>1, <2>1, <2>2, TimerRunGood DEF RunIfDue
<1>3. CASE who = "Gpu"
  <2>1. t = GpuRun(s)
    BY <1>3 DEF Run
  <2>2. Irq \cup Dates \cup {"gpu", "frames", "frameDone"} \subseteq F
    BY DEF DmaRuns
  <2> HIDE DEF F
  <2> QED BY <1>1, <2>1, <2>2, GpuRunGood DEF RunIfDue
<1>4. CASE who = "Spu"
  <2>1. t = SpuRun(s)
    BY <1>4 DEF Run
  <2>2. Dates \cup {"samples", "spu"} \subseteq F
    BY DEF DmaRuns
  <2> HIDE DEF F
  <2> QED BY <1>1, <2>1, <2>2, SpuRunGood DEF RunIfDue
<1>5. CASE who = "InputDev"
  <2>1. t = InputRun(s)
    BY <1>5 DEF Run
  <2>2. Irq \cup Dates \cup {"input"} \subseteq F
    BY DEF DmaRuns
  <2> HIDE DEF F
  <2> QED BY <1>1, <2>1, <2>2, InputRunGood DEF RunIfDue
<1>6. CASE who = "Dma"
  <2>1. t = DmaRun(s)
    BY <1>6 DEF Run
  <2>2. DmaRuns \subseteq F
    OBVIOUS
  <2> HIDE DEF F
  <2> QED BY <1>1, <2>1, <2>2, DmaRunGood DEF RunIfDue
<1> QED BY <1>2, <1>3, <1>4, <1>5, <1>6 DEF Tokens

LEMMA RunDueGood ==
  ASSUME NEW s, NEW c \in Int, Good(s, c), s.cycle <= c
  PROVE  LET t == RunDue(s)
         IN  Good(t, c) /\ t.cycle = s.cycle /\ t.sent = s.sent /\ t.nextReg = s.nextReg
<1>1. PICK s1 : s1 = RunIfDue(s, "SysTimer")
  OBVIOUS
<1>2. Good(s1, c) /\ s1.cycle = s.cycle /\ s1.sent = s.sent /\ s1.nextReg = s.nextReg
  BY <1>1, RunIfDueGood DEF Tokens
<1>3. PICK s2 : s2 = RunIfDue(s1, "Gpu")
  OBVIOUS
<1>4. Good(s2, c) /\ s2.cycle = s.cycle /\ s2.sent = s.sent /\ s2.nextReg = s.nextReg
  BY <1>2, <1>3, RunIfDueGood DEF Tokens
<1>5. PICK s3 : s3 = RunIfDue(s2, "Spu")
  OBVIOUS
<1>6. Good(s3, c) /\ s3.cycle = s.cycle /\ s3.sent = s.sent /\ s3.nextReg = s.nextReg
  BY <1>4, <1>5, RunIfDueGood DEF Tokens
<1>7. PICK s4 : s4 = RunIfDue(s3, "InputDev")
  OBVIOUS
<1>8. Good(s4, c) /\ s4.cycle = s.cycle /\ s4.sent = s.sent /\ s4.nextReg = s.nextReg
  BY <1>6, <1>7, RunIfDueGood DEF Tokens
<1>9. PICK s5 : s5 = RunIfDue(s4, "Dma")
  OBVIOUS
<1>10. Good(s5, c) /\ s5.cycle = s.cycle /\ s5.sent = s.sent /\ s5.nextReg = s.nextReg
  BY <1>8, <1>9, RunIfDueGood DEF Tokens
<1>11. RunDue(s) = s5
  BY <1>1, <1>3, <1>5, <1>7, <1>9, Zenon DEF RunDue
<1> QED BY <1>10, <1>11

\* The cycle goes back to the date of the event, and forth by as much.
LEMMA EventsRun ==
  ASSUME IInv, HandleEvents
  PROVE  \E u, v : /\ Keeps(m, u, {"cycle"}) /\ u.cycle = m.first /\ u.cycle <= m.cycle
                   /\ v = RunDue(u) /\ DOMAIN v = Fields
                   /\ Keeps(v, m', {"cycle", "handled"}) /\ m'.cycle = m.cycle
                   /\ Good(u, m.cycle) /\ Good(v, m.cycle)
<1> DEFINE u == [m EXCEPT !.cycle = m.first]
           v == RunDue(u)
           late == m.cycle - m.first
           w == [v EXCEPT !.cycle = @ + late, !.handled = TRUE]
<1>1. m' = w /\ m.cycle >= m.first
  BY DEF HandleEvents, RunEvents, IsEventPending
<1>2. /\ Good(m, m.cycle) /\ DOMAIN m = Fields /\ IrqSafe(m)
      /\ m.cycle \in Int /\ m.first \in Int
  BY DEF IInv, Good, Planned
<1>3. PICK c \in Int : c = m.cycle
  BY <1>2
<1>4. Keeps(m, u, {"cycle"}) /\ u.cycle = m.first /\ u.mip = m.mip
      /\ u.mie = m.mie /\ u.irqOn = m.irqOn /\ u.unchecked = m.unchecked /\ u.wfi = m.wfi
  BY <1>2 DEF Keeps, Fields
<1> HIDE DEF u
<1>5. Keeps(m, u, Irq \cup Aside)
  BY <1>4 DEF Keeps, Aside
<1>6. IrqSafe(u)
  BY <1>2, <1>4 DEF IrqSafe
<1>7. Good(u, c)
  <2>1. Good(m, c) /\ c <= c /\ u.cycle \in Int /\ ("MTI" \in u.mip <=> "MTI" \in m.mip)
    BY <1>2, <1>3, <1>4
  <2> QED BY <1>5, <1>6, <2>1, CpuOnly
<1>8. u.cycle <= c
  BY <1>1, <1>2, <1>3, <1>4
<1>9. Good(v, c) /\ v.cycle = m.first /\ DOMAIN v = Fields
  BY <1>4, <1>7, <1>8, RunDueGood DEF Good
<1> HIDE DEF v
<1>11. Keeps(v, w, {"cycle", "handled"}) /\ w.cycle = v.cycle + late
  BY <1>9 DEF Keeps, Fields
<1> HIDE DEF w
<1>12. w.cycle = c
  BY <1>2, <1>3, <1>9, <1>11
<1> QED BY <1>1, <1>3, <1>4, <1>7, <1>8, <1>9, <1>11, <1>12 DEF v

LEMMA HandleEventsStep ==
  ASSUME IInv, HandleEvents
  PROVE  IInv'
<1>1. PICK u, v : /\ Keeps(m, u, {"cycle"}) /\ u.cycle = m.first /\ u.cycle <= m.cycle
                  /\ v = RunDue(u) /\ DOMAIN v = Fields
                  /\ Keeps(v, m', {"cycle", "handled"}) /\ m'.cycle = m.cycle
                  /\ Good(u, m.cycle) /\ Good(v, m.cycle)
  BY EventsRun
<1>2. m.cycle \in Int /\ m.sent \in Nat /\ DOMAIN m = Fields
  BY DEF IInv, Good, Planned
<1>3. u.sent = m.sent /\ v.sent = u.sent
  BY <1>1, <1>2, RunDueGood DEF Keeps, Fields
<1>4. /\ m'.sent = v.sent /\ m'.mip = v.mip /\ m'.mie = v.mie /\ m'.irqOn = v.irqOn
      /\ m'.unchecked = v.unchecked
      /\ m'.wfi = v.wfi
  BY <1>1 DEF Keeps, Fields
<1>5. Keeps(v, m', Irq \cup Aside)
  BY <1>1 DEF Keeps, Aside
<1>6. IrqSafe(m')
  BY <1>1, <1>4 DEF IrqSafe, Good
<1>7. Good(m', m.cycle)
  BY <1>1, <1>2, <1>4, <1>5, <1>6, CpuOnly
<1> QED BY <1>1, <1>2, <1>3, <1>4, <1>7 DEF IInv

\* Every date goes back by the cycle, and the date of cycle 0 forth.
LEMMA RebaseGood ==
  ASSUME NEW s, Good(s, s.cycle)
  PROVE  Good(Rebase(s), 0) /\ Rebase(s).cycle = 0 /\ Rebase(s).sent = s.sent
<1> DEFINE t == Rebase(s)
           c == s.cycle
<1>1. /\ DOMAIN s = Fields /\ IrqSafe(s) /\ Planned(s) /\ TimerKept(s, c) /\ TimerArmed(s)
      /\ SpuKept(s, c) /\ GpuKept(s) /\ InputKept(s) /\ DmaKept(s, c)
  BY DEF Good
<1>2. /\ Keeps(s, t, {"last", "next", "first", "base", "cycle"})
      /\ t.last = [d \in Tokens |-> s.last[d] - s.cycle]
      /\ t.next = [d \in Tokens |-> s.next[d] - s.cycle]
      /\ t.first = s.first - s.cycle /\ t.base = s.base + s.cycle /\ t.cycle = 0
  BY <1>1 DEF Rebase, Keeps, Fields
<1> HIDE DEF t
<1>3. /\ DOMAIN t = Fields
      /\ t.program = s.program /\ t.sent = s.sent
      /\ t.mip = s.mip /\ t.mie = s.mie /\ t.irqOn = s.irqOn /\ t.wfi = s.wfi
      /\ t.unchecked = s.unchecked
      /\ t.mtime = s.mtime /\ t.mtimecmp = s.mtimecmp /\ t.samples = s.samples
      /\ t.gpu = s.gpu /\ t.frames = s.frames /\ t.dma = s.dma /\ t.spu = s.spu
      /\ t.asked = s.asked /\ t.delivered = s.delivered /\ t.done = s.done /\ t.input = s.input
  BY <1>1, <1>2 DEF Keeps, Fields
<1>4. PICK k \in Int : k = s.cycle
  BY <1>1 DEF Planned
<1>5. PICK b \in Int : b = s.base
  BY <1>1 DEF Planned
<1>6. \A d \in Tokens : /\ s.last[d] \in Int /\ s.next[d] \in Int
                        /\ t.last[d] = s.last[d] - k /\ t.next[d] = s.next[d] - k
                        /\ t.next[d] - t.last[d] = s.next[d] - s.last[d]
                        /\ t.base + t.last[d] = s.base + s.last[d]
                        /\ s.last[d] <= k => t.last[d] <= 0
  <2> SUFFICES ASSUME NEW d \in Tokens
      PROVE  /\ s.last[d] \in Int /\ s.next[d] \in Int
             /\ t.last[d] = s.last[d] - k /\ t.next[d] = s.next[d] - k
             /\ t.next[d] - t.last[d] = s.next[d] - s.last[d]
             /\ t.base + t.last[d] = s.base + s.last[d]
             /\ s.last[d] <= k => t.last[d] <= 0
    OBVIOUS
  <2>1. PICK l \in Int : l = s.last[d]
    BY <1>1 DEF Planned
  <2>2. PICK n \in Int : n = s.next[d]
    BY <1>1 DEF Planned
  <2>3. t.last[d] = l - k /\ t.next[d] = n - k /\ t.base = b + k
    BY <1>2, <1>4, <1>5, <2>1, <2>2
  <2> QED BY <1>5, <2>1, <2>2, <2>3
<1>7. Planned(t)
  <2>1. PICK f \in Int : f = s.first
    BY <1>1 DEF Planned
  <2>2. t.first = f - k /\ t.base = b + k
    BY <1>2, <1>4, <1>5, <2>1
  <2>3. t.last \in [Tokens -> Int] /\ t.next \in [Tokens -> Int]
    BY <1>2, <1>4, <1>6
  <2>4. \A d \in Tokens : t.first <= t.next[d]
    BY <1>1, <1>6, <2>1, <2>2 DEF Planned
  <2> QED BY <1>2, <2>2, <2>3, <2>4 DEF Planned
<1>8. TimerKept(t, 0) /\ TimerArmed(t)
  <2>1. /\ t.next["SysTimer"] - t.last["SysTimer"] = s.next["SysTimer"] - s.last["SysTimer"]
        /\ t.base + t.last["SysTimer"] = s.base + s.last["SysTimer"]
        /\ t.last["SysTimer"] <= 0
    BY <1>1, <1>4, <1>6 DEF Tokens, TimerKept
  <2> QED BY <1>1, <1>3, <2>1 DEF TimerKept, TimerArmed
<1>9. SpuKept(t, 0)
  <2>1. t.base + t.last["Spu"] = s.base + s.last["Spu"] /\ t.last["Spu"] <= 0
    BY <1>1, <1>4, <1>6 DEF Tokens, SpuKept
  <2> QED BY <1>1, <1>3, <2>1 DEF SpuKept, VoiceKept
<1>10. GpuKept(t)
  <2>1. t.base + t.last["Gpu"] = s.base + s.last["Gpu"]
    BY <1>6 DEF Tokens
  <2> QED BY <1>1, <1>3, <2>1 DEF GpuKept, FrameCycles
<1>11. DmaKept(t, 0)
  <2>1. /\ t.next["Dma"] - t.last["Dma"] = s.next["Dma"] - s.last["Dma"]
        /\ t.last["Dma"] <= 0
    BY <1>1, <1>4, <1>6 DEF Tokens, DmaKept
  <2> QED BY <1>1, <1>3, <2>1 DEF DmaKept, DmaHolds, IsRunning
<1>12. IrqSafe(t) /\ InputKept(t)
  BY <1>1, <1>3 DEF IrqSafe, InputKept
<1>13. Good(t, 0)
  BY <1>3, <1>7, <1>8, <1>9, <1>10, <1>11, <1>12 DEF Good
<1> QED BY <1>2, <1>3, <1>13 DEF t

LEMMA EndFrameStep ==
  ASSUME IInv, EndFrame
  PROVE  IInv'
<1>1. Good(m, m.cycle) /\ DOMAIN m = Fields /\ m.cycle \in Int /\ m.sent \in Nat
  BY DEF IInv, Good, Planned
<1>2. PICK s : s = SpuRun(m)
  OBVIOUS
<1>3. Good(s, m.cycle) /\ Keeps(m, s, Dates \cup {"samples", "spu"})
  BY <1>1, <1>2, SpuRunGood
<1>4. s.cycle = m.cycle /\ s.sent = m.sent
  BY <1>1, <1>3 DEF Keeps, Fields, Dates
<1>5. PICK r : r = Rebase(s)
  OBVIOUS
<1>6. Good(r, 0) /\ r.cycle = 0 /\ r.sent = m.sent
  BY <1>3, <1>4, <1>5, RebaseGood
<1>7. m' = [r EXCEPT !.frameDone = FALSE, !.handled = FALSE]
  BY <1>2, <1>5 DEF EndFrame
<1>8. DOMAIN r = Fields
  BY <1>6 DEF Good
<1>9. /\ Keeps(r, m', {"frameDone", "handled"})
      /\ m'.cycle = r.cycle /\ m'.sent = r.sent
  BY <1>7, <1>8 DEF Keeps, Fields
<1>10. Keeps(r, m', {"canWrite", "sent", "handled", "frameDone"})
  BY <1>9 DEF Keeps
<1>11. Good(m', 0)
  BY <1>6, <1>10, AsideGood
<1> QED BY <1>1, <1>6, <1>9, <1>11 DEF IInv

LEMMA InitGood == Init => IInv
<1> SUFFICES ASSUME Init PROVE IInv
  OBVIOUS
<1>1. PICK p \in Programs :
  m = [ program |-> p, cycle |-> 0, base |-> 0, first |-> 0,
        last |-> [d \in Tokens |-> 0], next |-> [d \in Tokens |-> 0],
        mip |-> {}, mie |-> {}, irqOn |-> FALSE, irqOnPrev |-> FALSE, wfi |-> FALSE,
        unchecked |-> FALSE,
        pending |-> {}, enabled |-> {},
        mtime |-> 0, mtimecmp |-> Word * Word - 1, samples |-> 0,
        gpu |-> NewGpu(p.frame), frames |-> 0, frameDone |-> FALSE,
        dma |-> [src |-> "RAM", dst |-> "RAM", todo |-> <<>>, buf |-> <<>>],
        spu |-> NewSpu(p.ram), sent |-> 0, canWrite |-> FALSE,
        nextReg |-> "SRC", asked |-> <<>>, delivered |-> <<>>, done |-> 0,
        input |-> [tx |-> <<>>, rx |-> <<>>, irq |-> FALSE, div |-> 1, count |-> 0],
        handled |-> FALSE, panicked |-> FALSE ]
  BY Zenon DEF Init
<1>2. /\ DOMAIN m = Fields /\ m.program = p /\ m.cycle = 0 /\ m.base = 0 /\ m.first = 0
      /\ m.last = [d \in Tokens |-> 0] /\ m.next = [d \in Tokens |-> 0]
      /\ m.mip = {} /\ m.mtime = 0 /\ m.mtimecmp = Word * Word - 1 /\ m.samples = 0
      /\ m.gpu = NewGpu(p.frame)
      /\ m.frames = 0 /\ m.dma = [src |-> "RAM", dst |-> "RAM", todo |-> <<>>, buf |-> <<>>]
      /\ m.spu = NewSpu(p.ram) /\ m.sent = 0
      /\ m.asked = <<>> /\ m.delivered = <<>> /\ m.done = 0
      /\ m.input = [tx |-> <<>>, rx |-> <<>>, irq |-> FALSE, div |-> 1, count |-> 0]
  BY <1>1 DEF Fields
<1>3. Planned(m)
  BY <1>2 DEF Planned
<1>4. m.last["SysTimer"] = 0 /\ m.next["SysTimer"] = 0 /\ m.last["Spu"] = 0
      /\ m.last["Gpu"] = 0 /\ m.last["Dma"] = 0
  BY <1>2 DEF Tokens
<1>5. TimerKept(m, 0) /\ TimerArmed(m)
  <2>1. PICK k \in Int : k = Word * Word - 1
    BY ConstantsAreNat
  <2>2. k > 0
    <3>1. Word \in Nat /\ Word >= 2
      BY ConstantsAreNat
    <3>2. Word * Word >= 2 * Word
      BY <3>1
    <3> QED BY <2>1, <3>1, <3>2
  <2>3. ClkDiv \in Nat
    BY ConstantsAreNat
  <2>4. ClkDiv * (k - 0) >= 0
    BY <2>2, <2>3
  <2>5. 0 * ClkDiv = 0
    BY <2>3
  <2> QED BY <1>2, <1>4, <2>1, <2>2, <2>4, <2>5 DEF TimerKept, TimerArmed
<1>6. SpuKept(m, 0)
  <2>1. 0 * AudioDiv = 0
    BY ConstantsAreNat
  <2>2. /\ DOMAIN m.spu = {"ram", "ptr", "voice"} /\ m.spu.voice = NewVoice
    BY <1>2 DEF NewSpu
  <2>3. /\ DOMAIN NewVoice = VoiceFields /\ NewVoice.played = 0 /\ NewVoice.startedAt = -1
        /\ NewVoice.level = 0 /\ NewVoice.state = "Stopped" /\ NewVoice.params = Params(NoConfig)
        /\ NewVoice.queue = <<>> /\ NewVoice.line = <<>> /\ NewVoice.heard = 0
        /\ NewVoice.phase = 0 /\ NewVoice.step = 0
    BY DEF NewVoice, VoiceFields
  <2>5. EnvelopeKept(NewVoice)
    <3>1. NoConfig \in Configs
      BY DEF NoConfig, Configs
    <3>2. ParamsKept(NewVoice.params)
      BY <2>3, <3>1, ParamsLemma
    <3>3. IsLevel(NewVoice.level)
      BY <2>3 DEF IsLevel, Within, Max16
    <3> QED BY <2>3, <3>2, <3>3 DEF EnvelopeKept
  <2>6. SoundKept(NewVoice)
    <3>1. IsSeq(<<>>) /\ Len(<<>>) = 0 /\ <<>> = SubSeq(<<>>, 0 + 1, 0)
      BY EmptyIsSeq, SubSeqEmpty
    <3>2. LineKept(NewVoice)
      BY <2>3, <3>1 DEF LineKept
    <3>3. 0 <= Ahead + 3
      BY MachineAssumption DEF MachineAssumption
    <3> QED BY <2>3, <3>1, <3>2, <3>3 DEF SoundKept
  <2>4. VoiceKept(m)
    BY <2>2, <2>3, <2>5, <2>6 DEF VoiceKept
  <2> QED BY <1>2, <1>4, <2>1, <2>4 DEF SpuKept
<1>7. GpuKept(m)
  <2>4. DOMAIN m.gpu = GpuFields /\ m.gpu.fifo = <<>> /\ m.gpu.remaining = 0 /\ m.gpu.frame = p.frame
    BY <1>2 DEF NewGpu, GpuFields
  <2>5. p.frame \in Nat
    BY ProgramFacts
  <2>6. IsSeq(m.gpu.fifo) /\ Len(m.gpu.fifo) = 0 /\ FifoSize \in Nat
    BY <2>4, EmptyIsSeq, ConstantsAreNat
  <2>7. GpuTyped(m.gpu)
    BY <2>4, <2>5, <2>6, PatienceLemma DEF GpuTyped
  <2> QED BY <1>2, <1>4, <2>4, <2>5, <2>7 DEF GpuKept, FrameCycles
<1>8. InputKept(m)
  BY <1>2, EmptyIsSeq DEF InputKept
<1>9. DmaKept(m, 0)
  <2>1. DmaHolds(m)
    BY <1>2, EmptyIsSeq, NothingAfter DEF DmaHolds
  <2> QED BY <1>2, <1>4, <2>1 DEF DmaKept, IsRunning
<1>10. IrqSafe(m)
  BY <1>2 DEF IrqSafe
<1> QED BY <1>2, <1>3, <1>5, <1>6, <1>7, <1>8, <1>9, <1>10 DEF IInv, Good

LEMMA NextKeepsIInv == IInv /\ [Next]_m => IInv'
<1> SUFFICES ASSUME IInv, [Next]_m PROVE IInv'
  OBVIOUS
<1>1. CASE Step
  <2>1. PICK t \in Ticks :
          \/ Compute(t) \/ CsrBits(t) \/ CsrSet(t) \/ Ecall(t) \/ MRet(t) \/ Wfi(t)
          \/ StoreTimer(t) \/ LoadTimer(t) \/ StoreIrqAck(t) \/ StoreIrqEnable(t)
          \/ LoadGpu(t) \/ StoreGpu(t) \/ GpuCanWrite(t) \/ SendToGpu(t) \/ StoreSpu(t)
          \/ StoreDmaSrc(t) \/ StoreDmaDst(t) \/ StoreDmaLen(t)
          \/ StoreInputConf(t) \/ StoreInputTx(t) \/ LoadInputRx(t)
    BY <1>1, Zenon DEF Step
  <2> QED BY <2>1, ProcessorSteps, WaitingSteps, TimerSteps, IrqSteps, GpuSteps, SendToGpuStep,
             StoreSpuStep, DmaSteps, InputSteps, Zenon
<1>2. CASE HandleEvents
  BY <1>2, HandleEventsStep
<1>3. CASE Skip
  BY <1>3, WaitingSteps
<1>4. CASE EndFrame
  BY <1>4, EndFrameStep
<1>5. CASE UNCHANGED m
  BY <1>5 DEF IInv
<1> QED BY <1>1, <1>2, <1>3, <1>4, <1>5 DEF Next

-----------------------------------------------------------------------------
(* The dates, from one step to the next: the second invariant rests on the first. *)

\* The events are looked at in time, and neither the GPU nor the input port is ahead of the date.
OnTime(s) ==
  /\ Attained(s) /\ Timely(s)
  /\ \A d \in {"Gpu", "InputDev"} : s.last[d] <= s.cycle

\* From one register of the DMA to the next, what is left of a transfer keeps up with the date
\* to within a word, and the processor does not wait.
Registers(s) ==
  /\ s.nextReg # "SRC" /\ IsRunning(s) => s.cycle - s.last["Dma"] < RomCost
  /\ s.wfi => s.nextReg = "SRC"

DatesInv == IInv /\ OnTime(m) /\ Registers(m)

LEMMA StaysOnTime ==
  ASSUME NEW s, NEW t, Planned(s), OnTime(s), Punctual(s, t), t.cycle = s.cycle
  PROVE  OnTime(t)
<1>1. \A d \in {"Gpu", "InputDev"} : t.last[d] <= t.cycle
  <2> SUFFICES ASSUME NEW d \in {"Gpu", "InputDev"} PROVE t.last[d] <= t.cycle
    OBVIOUS
  <2>1. t.last[d] \in {s.last[d], s.cycle} /\ s.last[d] <= s.cycle
    BY DEF OnTime, Punctual
  <2>2. s.cycle \in Int
    BY DEF Planned
  <2> QED BY <2>1, <2>2
<1> QED BY <1>1 DEF OnTime, Punctual

\* An instruction has taken its time, when no event was due, and has not had its effect yet.
LEMMA InstructionOnTime ==
  ASSUME DatesInv, NEW t \in Ticks, ~IsEventPending(m), NEW b,
         Keeps(m, b, {"cycle", "handled", "canWrite", "sent"}), b.cycle = m.cycle + t
  PROVE  /\ DOMAIN m = Fields /\ DOMAIN b = Fields /\ Planned(b) /\ OnTime(b)
         /\ b.cycle - m.cycle <= Reach /\ b.cycle \in Int /\ m.cycle \in Int
<1>1. Planned(m) /\ DOMAIN m = Fields /\ OnTime(m)
  BY DEF DatesInv, IInv, Good
<1>2. /\ b.first = m.first /\ b.last = m.last /\ b.next = m.next /\ b.gpu = m.gpu
      /\ b.base = m.base /\ DOMAIN b = Fields
  BY <1>1 DEF Keeps, Fields
<1>3. PICK c \in Int, f \in Int, h \in Int, k \in Int :
        /\ c = m.cycle /\ f = m.first /\ h = Reach /\ k = t /\ k > 0 /\ k <= h /\ c < f
        /\ b.cycle = c + k
  BY <1>1, Proportions, ClocksAdvance DEF Planned, IsEventPending, DatesInv
<1>4. Planned(b) /\ b.cycle - b.first < Reach /\ b.cycle - m.cycle <= Reach
  BY <1>1, <1>2, <1>3 DEF Planned
<1>5. HasFrame(b) /\ Attained(b)
  BY <1>1, <1>2 DEF OnTime, Timely, HasFrame, Attained
<1>6. \A d \in {"Gpu", "InputDev"} : b.last[d] <= b.cycle
  <2> SUFFICES ASSUME NEW d \in {"Gpu", "InputDev"} PROVE b.last[d] <= b.cycle
    OBVIOUS
  <2>1. m.last[d] \in Int /\ m.last[d] <= c
    BY <1>1, <1>3 DEF Planned, Tokens, OnTime
  <2> QED BY <1>2, <1>3, <2>1
<1> QED BY <1>1, <1>2, <1>3, <1>4, <1>5, <1>6 DEF OnTime, Timely

\* An instruction that is not of the transfer's registers.
LEMMA OtherAccess ==
  ASSUME DatesInv, IInv', NEW t \in Ticks, NEW op, Instr(op), op # "dma", NEW b, NEW F,
         Keeps(m, b, {"cycle", "handled", "canWrite", "sent"}), b.cycle = m.cycle + t,
         Keeps(b, m', F), {"cycle", "nextReg"} \cap F = {}, OnTime(b) => Onward(b, m')
  PROVE  DatesInv'
<1>1. ~IsEventPending(m) /\ m.nextReg = "SRC"
  BY DEF Instr, Running
<1>2. DOMAIN m = Fields /\ DOMAIN b = Fields /\ Planned(b) /\ OnTime(b)
  BY <1>1, InstructionOnTime
<1>3. m'.cycle = b.cycle /\ m'.nextReg = b.nextReg /\ b.nextReg = m.nextReg
  BY <1>2 DEF Keeps, Fields
<1>4. Planned(m')
  BY DEF IInv, Good
<1>5. OnTime(m')
  BY <1>2, <1>3, <1>4, OnwardIsPunctual, StaysOnTime DEF OnTime
<1>6. Registers(m')
  BY <1>1, <1>3 DEF Registers
<1> QED BY <1>5, <1>6 DEF DatesInv, OnTime, Timely, HasFrame, Attained, Registers, IsRunning

\* The same, when the access follows the time it takes at once.
LEMMA PlainAccess ==
  ASSUME DatesInv, IInv', NEW t \in Ticks, NEW op, Instr(op), op # "dma", NEW F,
         {"cycle", "nextReg"} \cap F = {},
         \A c \in Int : Good(After(t), c) /\ After(t).cycle <= c /\ OnTime(After(t))
                          => Keeps(After(t), m', F) /\ Onward(After(t), m')
  PROVE  DatesInv'
<1> DEFINE b == After(t)
<1>1. Good(b, m.cycle + t) /\ b.cycle = m.cycle + t /\ Keeps(m, b, {"cycle", "handled"})
  BY AfterLemma DEF DatesInv
<1>2. m.cycle + t \in Int /\ ~IsEventPending(m)
  BY ClocksAdvance DEF DatesInv, Instr, Running
<1>3. PICK c \in Int : c = m.cycle + t
  BY <1>2
<1> HIDE DEF b
<1>4. Keeps(m, b, {"cycle", "handled", "canWrite", "sent"})
  BY <1>1 DEF Keeps
<1>5. OnTime(b)
  BY <1>1, <1>2, <1>4, InstructionOnTime
<1>6. \A e \in Int : Good(b, e) /\ b.cycle <= e /\ OnTime(b) => Keeps(b, m', F) /\ Onward(b, m')
  BY DEF b
<1>7. Keeps(b, m', F) /\ Onward(b, m')
  BY <1>1, <1>3, <1>5, <1>6
<1> QED BY <1>1, <1>4, <1>7, OtherAccess

\* The processor alone moves no date.
LEMMA OnwardProcessor ==
  ASSUME NEW s, NEW t, NEW F, DOMAIN s = Fields, OnTime(s), Keeps(s, t, F),
         {"first", "last", "next", "gpu"} \cap F = {}, StaysAwake(s, t)
  PROVE  Onward(s, t)
<1>1. t.first = s.first /\ t.last = s.last /\ t.next = s.next /\ t.gpu = s.gpu
  BY DEF Keeps, Fields
<1> QED BY <1>1 DEF Onward, OnTime, Timely, HasFrame, Attained

LEMMA ProcessorDates ==
  ASSUME DatesInv, IInv', NEW t \in Ticks,
         Compute(t) \/ CsrBits(t) \/ CsrSet(t) \/ Ecall(t) \/ MRet(t)
  PROVE  DatesInv'
<1> DEFINE a == After(t)
           C == {"mie", "irqOn", "irqOnPrev", "wfi", "unchecked"}
<1>1. DOMAIN a = Fields
  BY AfterLemma DEF DatesInv, Good
<1>2. PICK op \in {"compute", "csr", "trap"} : Instr(op)
  BY DEF Compute, CsrBits, CsrSet, Ecall, MRet
<1>3. ASSUME Keeps(a, m', C), StaysAwake(a, m') PROVE DatesInv'
  <2>1. OnTime(a) => Onward(a, m')
    <3> HIDE DEF a
    <3> QED BY <1>1, <1>3, OnwardProcessor
  <2>2. {"cycle", "nextReg"} \cap C = {} /\ op # "dma"
    OBVIOUS
  <2> HIDE DEF C
  <2> QED BY <1>2, <1>3, <2>1, <2>2, PlainAccess
<1> HIDE DEF a
<1>4. ASSUME NEW u, Keeps(a, u, C \ {"wfi"}), m' = CheckForIrq(u) PROVE DatesInv'
  <2>1. DOMAIN u = Fields /\ u.wfi = a.wfi
    BY <1>1, <1>4 DEF Keeps, Fields
  <2>2. Keeps(u, m', {"mie", "irqOn", "wfi", "unchecked"}) /\ StaysAwake(u, m')
    BY <1>4, <2>1, CheckForIrqLemma
  <2>3. Keeps(a, m', C) /\ StaysAwake(a, m')
    BY <1>4, <2>1, <2>2 DEF Keeps, StaysAwake
  <2> QED BY <1>3, <2>3
<1>5. CASE Compute(t)
  <2>1. m' = a
    BY <1>5 DEF Compute, a
  <2> QED BY <1>3, <2>1 DEF Keeps, StaysAwake
<1>6. CASE CsrBits(t)
  <2>1. PICK u \in CsrAndOr(a) : m' = CheckForIrq(u)
    BY <1>6 DEF CsrBits, a
  <2>2. Keeps(a, u, C \ {"wfi"})
    BY <1>1, CsrAndOrLemma DEF Keeps
  <2> QED BY <1>4, <2>1, <2>2
<1>7. CASE CsrSet(t)
  <2>1. PICK u \in CsrAndOr(a) : m' = [u EXCEPT !.unchecked = u.irqOn]
    BY <1>7 DEF CsrSet, a
  <2>2. Keeps(a, u, {"mie", "irqOn", "irqOnPrev"})
    BY <1>1, CsrAndOrLemma
  <2>3. DOMAIN u = Fields
    BY <1>1, <2>2 DEF Keeps
  <2>4. Keeps(u, m', {"unchecked"})
    BY <2>1, <2>3 DEF Keeps, Fields
  <2>5. Keeps(a, m', C) /\ m'.wfi = a.wfi
    BY <1>1, <2>2, <2>3, <2>4 DEF Keeps, Fields
  <2> QED BY <1>3, <2>5 DEF StaysAwake
<1>8. CASE Ecall(t)
  <2>1. m' = TriggerTrap(a)
    BY <1>8 DEF Ecall, a
  <2>2. Keeps(a, m', {"mie", "irqOn"})
    BY <1>1, <2>1, TriggerTrapLemma
  <2>3. m'.wfi = a.wfi /\ Keeps(a, m', C)
    BY <1>1, <2>2 DEF Keeps, Fields
  <2> QED BY <1>3, <2>3 DEF StaysAwake
<1>9. CASE MRet(t)
  <2> DEFINE u == SetMpie([a EXCEPT !.irqOn = m.irqOnPrev], TRUE)
  <2>1. m' = CheckForIrq(u)
    BY <1>9 DEF MRet, a
  <2>2. Keeps(a, u, C \ {"wfi"})
    BY <1>1 DEF Keeps, Fields, SetMpie
  <2> QED BY <1>4, <2>1, <2>2
<1> QED BY <1>5, <1>6, <1>7, <1>8, <1>9

LEMMA TimerDates ==
  ASSUME DatesInv, IInv', NEW t \in Ticks, StoreTimer(t) \/ LoadTimer(t)
  PROVE  DatesInv'
<1> DEFINE a == After(t)
           F == Cpu \cup Dates \cup {"mtime", "mtimecmp"}
<1>1. {"cycle", "nextReg"} \cap F = {} /\ Instr("timer") /\ "timer" # "dma"
  BY DEF Cpu, Dates, StoreTimer, LoadTimer
<1>2. m' = TimerRun(a) \/ \E half \in {"low", "high"}, v \in 0 .. Word - 1 : m' = TimerStore(a, half, v)
  BY DEF StoreTimer, LoadTimer
<1> HIDE DEF a
<1>3. ASSUME NEW c \in Int, Good(a, c), a.cycle <= c, OnTime(a) PROVE Keeps(a, m', F) /\ Onward(a, m')
  <2>1. Timely(a)
    BY <1>3 DEF OnTime
  <2>2. CASE m' = TimerRun(a)
    <3>1. Keeps(a, m', Cpu \cup Dates \cup {"mtime"}) /\ Onward(a, m')
      BY <1>3, <2>1, <2>2, TimerRunGood, TimerMovesOn
    <3> QED BY <3>1 DEF Keeps
  <2>3. CASE \E half \in {"low", "high"}, v \in 0 .. Word - 1 : m' = TimerStore(a, half, v)
    BY <1>3, <2>1, <2>3, TimerStoreGood
  <2> QED BY <1>2, <2>2, <2>3
<1> HIDE DEF F
<1> QED BY <1>1, <1>3, PlainAccess DEF a

LEMMA IrqDates ==
  ASSUME DatesInv, IInv', NEW t \in Ticks, StoreIrqAck(t) \/ StoreIrqEnable(t)
  PROVE  DatesInv'
<1> DEFINE a == After(t)
<1>1. {"cycle", "nextReg"} \cap Irq = {} /\ {"first", "last", "next", "gpu"} \cap Irq = {}
  BY DEF Irq, Cpu
<1>2. Instr("irq") /\ "irq" # "dma"
  BY DEF StoreIrqAck, StoreIrqEnable
<1>3. DOMAIN a = Fields
  BY AfterLemma DEF DatesInv, Good
<1>4. \E P, E : m' = RefreshCpuIrq([a EXCEPT !.pending = P, !.enabled = E])
  <2>1. CASE StoreIrqAck(t)
    <3>1. PICK S : m' = IrqAcknowledge(a, S)
      BY <2>1 DEF StoreIrqAck
    <3> HIDE DEF a
    <3>2. [a EXCEPT !.pending = @ \ S] = [a EXCEPT !.pending = a.pending \ S, !.enabled = a.enabled]
      BY <1>3 DEF Fields
    <3> QED BY <3>1, <3>2 DEF IrqAcknowledge
  <2>2. CASE StoreIrqEnable(t)
    <3>1. PICK S : m' = IrqEnable(a, S)
      BY <2>2 DEF StoreIrqEnable
    <3> HIDE DEF a
    <3>2. [a EXCEPT !.enabled = S] = [a EXCEPT !.pending = a.pending, !.enabled = S]
      BY <1>3 DEF Fields
    <3> QED BY <3>1, <3>2 DEF IrqEnable
  <2> QED BY <2>1, <2>2
<1> HIDE DEF a
<1>5. ASSUME NEW c \in Int, Good(a, c), OnTime(a) PROVE Keeps(a, m', Irq) /\ Onward(a, m')
  <2>1. Keeps(a, m', Irq) /\ StaysAwake(a, m')
    BY <1>3, <1>4, <1>5, IrqLemma DEF Good, Irq
  <2> QED BY <1>1, <1>3, <1>5, <2>1, OnwardProcessor
<1> QED BY <1>1, <1>2, <1>5, PlainAccess DEF a

LEMMA InputDates ==
  ASSUME DatesInv, IInv', NEW t \in Ticks, StoreInputConf(t) \/ StoreInputTx(t) \/ LoadInputRx(t)
  PROVE  DatesInv'
<1> DEFINE a == After(t)
           F == Irq \cup Dates \cup {"input"}
<1>1. {"cycle", "nextReg"} \cap F = {} /\ Instr("input") /\ "input" # "dma"
  BY DEF Irq, Cpu, Dates, StoreInputConf, StoreInputTx, LoadInputRx
<1>2. m' = InputConf(a) \/ (\E b : m' = InputTx(a, b)) \/ m' = InputRx(a)
  BY DEF StoreInputConf, StoreInputTx, LoadInputRx
<1> HIDE DEF a
<1>3. ASSUME NEW c \in Int, Good(a, c), OnTime(a) PROVE Keeps(a, m', F) /\ Onward(a, m')
  BY <1>2, <1>3, InputConfGood, InputTxGood, InputRxGood DEF OnTime
<1> HIDE DEF F
<1> QED BY <1>1, <1>3, PlainAccess DEF a

LEMMA GpuDates ==
  ASSUME DatesInv, IInv', NEW t \in Ticks, LoadGpu(t) \/ StoreGpu(t) \/ GpuCanWrite(t)
  PROVE  DatesInv'
<1> DEFINE a == After(t)
           G == Irq \cup Dates \cup {"gpu", "frames", "frameDone"}
           F == G \cup {"canWrite"}
<1>1. {"cycle", "nextReg"} \cap F = {} /\ \E op \in {"gpu", "draw"} : Instr(op) /\ op # "dma"
  BY DEF Irq, Cpu, Dates, LoadGpu, StoreGpu, GpuCanWrite
<1>2. \/ m' = GpuRun(a) \/ (\E cmd : m' = GpuStore(a, cmd))
      \/ m' = [GpuRun(a) EXCEPT !.canWrite = ~IsFull(GpuRun(a))]
  BY DEF LoadGpu, StoreGpu, GpuCanWrite
<1> HIDE DEF a, G
<1>3. ASSUME NEW c \in Int, Good(a, c), OnTime(a) PROVE Keeps(a, m', F) /\ Onward(a, m')
  <2>1. Timely(a)
    BY <1>3 DEF OnTime
  <2>2. Keeps(a, GpuRun(a), G) /\ Onward(a, GpuRun(a)) /\ Good(GpuRun(a), c)
    BY <1>3, <2>1, GpuRunGood, GpuMovesOn DEF Good, G
  <2>3. CASE m' = GpuRun(a)
    BY <2>2, <2>3 DEF Keeps
  <2>4. CASE \E cmd : m' = GpuStore(a, cmd)
    <3>1. Keeps(a, m', G) /\ Onward(a, m')
      BY <1>3, <2>1, <2>4, GpuStoreGood DEF G
    <3> QED BY <3>1 DEF Keeps
  <2>5. CASE m' = [GpuRun(a) EXCEPT !.canWrite = ~IsFull(GpuRun(a))]
    <3>1. PICK s : s = GpuRun(a)
      OBVIOUS
    <3>2. DOMAIN s = Fields
      BY <2>2, <3>1 DEF Good
    <3>3. /\ Keeps(s, m', {"canWrite"}) /\ m'.next = s.next /\ m'.last = s.last
          /\ m'.first = s.first /\ m'.wfi = s.wfi /\ m'.gpu = s.gpu
      BY <2>5, <3>1, <3>2 DEF Keeps, Fields
    <3>4. Keeps(a, m', F)
      BY <2>2, <3>1, <3>3 DEF Keeps
    <3> QED BY <2>2, <3>1, <3>3, <3>4, OnwardStill
  <2> QED BY <1>2, <2>3, <2>4, <2>5
<1> HIDE DEF F
<1> QED BY <1>1, <1>3, PlainAccess DEF a

LEMMA SendToGpuDates ==
  ASSUME DatesInv, IInv', NEW t \in Ticks, SendToGpu(t)
  PROVE  DatesInv'
<1> DEFINE b == [After(t) EXCEPT !.canWrite = FALSE, !.sent = @ + 1]
           F == Irq \cup Dates \cup {"gpu", "frames", "frameDone"}
<1>1. PICK w : m' = GpuStore(b, w)
  BY DEF SendToGpu
<1>2. /\ Good(b, m.cycle + t) /\ b.cycle = m.cycle + t
      /\ Keeps(m, b, {"cycle", "handled", "canWrite", "sent"})
  BY CountedGood DEF DatesInv
<1>3. {"cycle", "nextReg"} \cap F = {} /\ Instr("draw") /\ "draw" # "dma"
  BY DEF Irq, Cpu, Dates, SendToGpu
<1>4. m.cycle + t \in Int
  BY ClocksAdvance DEF DatesInv
<1> HIDE DEF b
<1>5. Keeps(b, m', F) /\ (OnTime(b) => Onward(b, m'))
  BY <1>1, <1>2, <1>4, GpuStoreGood DEF OnTime
<1> HIDE DEF F
<1> QED BY <1>2, <1>3, <1>5, OtherAccess

LEMMA StoreSpuDates ==
  ASSUME DatesInv, IInv', NEW t \in Ticks, StoreSpu(t)
  PROVE  DatesInv'
<1> DEFINE b == [After(t) EXCEPT !.sent = @ + 1]
           F == Dates \cup {"samples", "spu"}
           w == m.program.stores[m.sent + 1]
<1>1. m' = SpuStore(b, w) /\ IsStore(w)
  BY StoreSpuLemma DEF StoreSpu, DatesInv
<1>2. DOMAIN After(t) = Fields
  BY AfterLemma DEF Good, DatesInv
<1>3. b = [After(t) EXCEPT !.canWrite = After(t).canWrite, !.sent = @ + 1]
  BY <1>2 DEF Fields
<1>4. /\ Good(b, m.cycle + t) /\ b.cycle = m.cycle + t
      /\ Keeps(m, b, {"cycle", "handled", "canWrite", "sent"})
  BY <1>3, CountedGood DEF DatesInv
<1>5. {"cycle", "nextReg"} \cap F = {} /\ Instr("spu") /\ "spu" # "dma"
  BY DEF Dates, StoreSpu
<1>6. m.cycle + t \in Int
  BY ClocksAdvance DEF DatesInv
<1> HIDE DEF b, w
<1>7. Keeps(b, m', F) /\ (OnTime(b) => Onward(b, m'))
  BY <1>1, <1>4, <1>6, SpuStoreGood DEF OnTime
<1> HIDE DEF F
<1> QED BY <1>4, <1>5, <1>7, OtherAccess

LEMMA WaitingDates ==
  ASSUME DatesInv, IInv', (\E t \in Ticks : Wfi(t)) \/ Skip
  PROVE  DatesInv'
<1>1. /\ Keeps(m, m', {"wfi", "cycle", "handled"}) /\ m.cycle \in Int /\ m'.cycle \in Int
      /\ m.cycle <= m'.cycle /\ m'.cycle - m.first < Reach /\ (m.nextReg = "SRC" \/ m.wfi)
  BY WaitingMoves DEF DatesInv
<1>2. DOMAIN m = Fields /\ Planned(m) /\ OnTime(m) /\ m.nextReg = "SRC"
  BY <1>1 DEF DatesInv, IInv, Good, Registers
<1>3. /\ m'.first = m.first /\ m'.last = m.last /\ m'.next = m.next /\ m'.gpu = m.gpu
      /\ m'.nextReg = m.nextReg
  BY <1>1, <1>2 DEF Keeps, Fields
<1>4. \A d \in {"Gpu", "InputDev"} : m'.last[d] <= m'.cycle
  <2> SUFFICES ASSUME NEW d \in {"Gpu", "InputDev"} PROVE m'.last[d] <= m'.cycle
    OBVIOUS
  <2>1. m.last[d] \in Int /\ m.last[d] <= m.cycle
    BY <1>2 DEF Planned, Tokens, OnTime
  <2> QED BY <1>1, <1>3, <2>1
<1>5. OnTime(m')
  BY <1>1, <1>2, <1>3, <1>4 DEF OnTime, Timely, HasFrame, Attained
<1>6. Registers(m')
  BY <1>2, <1>3 DEF Registers
<1> QED BY <1>5, <1>6 DEF DatesInv, OnTime, Timely, HasFrame, Attained, Registers, IsRunning

LEMMA DmaDates ==
  ASSUME DatesInv, IInv', NEW t \in Ticks, StoreDmaSrc(t) \/ StoreDmaDst(t) \/ StoreDmaLen(t)
  PROVE  DatesInv'
<1> DEFINE a == After(t)
           F == DmaRuns \cup {"nextReg", "asked"}
<1>1. /\ Good(a, m.cycle + t) /\ a.cycle = m.cycle + t /\ Keeps(m, a, {"cycle", "handled"})
      /\ m.cycle + t \in Int
  BY AfterLemma, ClocksAdvance DEF DatesInv
<1>2. PICK c \in Int : c = m.cycle + t
  BY <1>1
<1>3. Good(a, c) /\ a.cycle = c /\ a.cycle <= c
  BY <1>1, <1>2
<1>4. Keeps(m, a, {"cycle", "handled", "canWrite", "sent"})
  BY <1>1 DEF Keeps
<1>5. ~IsEventPending(m) /\ ~m.wfi
  <2>1. Instr("dma")
    BY Zenon DEF StoreDmaSrc, StoreDmaDst, StoreDmaLen, StoreDma
  <2> QED BY <2>1, Zenon DEF Instr, Running
<1>6. /\ DOMAIN m = Fields /\ DOMAIN a = Fields /\ Planned(a) /\ OnTime(a) /\ Timely(a)
      /\ a.cycle - m.cycle <= Reach /\ m.cycle \in Int
  BY <1>1, <1>4, <1>5, InstructionOnTime DEF OnTime
<1>7. a.wfi = m.wfi /\ a.dma = m.dma /\ a.last = m.last
  BY <1>4, <1>6 DEF Keeps, Fields
<1>8. Planned(m')
  BY DEF IInv, Good
<1>9. ASSUME Punctual(a, m'), Keeps(a, m', F),
             m'.nextReg # "SRC" /\ IsRunning(m') => a.cycle - m'.last["Dma"] < RomCost
      PROVE  DatesInv'
  <2>1. "cycle" \notin F
    BY DEF DmaRuns, Irq, Cpu, Dates
  <2> HIDE DEF a, F
  <2>2. m'.cycle = a.cycle
    BY <1>6, <1>9, <2>1 DEF Keeps, Fields
  <2>3. OnTime(m')
    BY <1>6, <1>9, <2>2, StaysOnTime
  <2>4. ~m'.wfi
    BY <1>5, <1>7, <1>9 DEF Punctual, StaysAwake
  <2>5. Registers(m')
    BY <1>9, <2>2, <2>4 DEF Registers
  <2> QED BY <2>3, <2>5 DEF DatesInv, OnTime, Timely, HasFrame, Attained, Registers, IsRunning
<1>10. ASSUME Onward(a, m'), Keeps(a, m', F), IsRunning(m') => a.cycle - m'.last["Dma"] < RomCost
       PROVE  DatesInv'
  <2>1. "cycle" \notin F
    BY DEF DmaRuns, Irq, Cpu, Dates
  <2>2. m'.cycle = a.cycle
    <3> HIDE DEF a, F
    <3> QED BY <1>6, <1>10, <2>1 DEF Keeps, Fields
  <2>3. Punctual(a, m')
    <3> HIDE DEF a, F
    <3> QED BY <1>6, <1>8, <1>10, <2>2, OnwardIsPunctual
  <2> HIDE DEF a, F
  <2> QED BY <1>9, <1>10, <2>3
<1>11. CASE StoreDmaSrc(t)
  BY <1>3, <1>6, <1>10, <1>11, StoreDmaSrcLemma
<1>12. CASE StoreDmaDst(t)
  <2>1. PICK dst : m' = [DmaStoreDst(a, dst) EXCEPT !.nextReg = "LEN"]
    BY <1>12 DEF StoreDmaDst
  <2>2. /\ Keeps(a, m', DmaRuns \cup {"nextReg"}) /\ Onward(a, m')
        /\ IsRunning(m') => a.cycle - m'.last["Dma"] < RomCost
    <3> HIDE DEF a
    <3> QED BY <1>3, <1>6, <2>1, DmaStoreDstGood
  <2>3. Keeps(a, m', F)
    BY <2>2 DEF Keeps
  <2> HIDE DEF a, F
  <2> QED BY <1>10, <2>2, <2>3
<1>13. CASE StoreDmaLen(t)
  <2>1. PICK words \in Buffers : m' = [DmaStoreLen(a, words) EXCEPT !.nextReg = "SRC"]
    BY <1>13 DEF StoreDmaLen
  <2>2. IsSeq(words)
    BY MachineAssumption, Zenon DEF MachineAssumption, IsSeq
  <2>3. m.nextReg = "LEN"
    BY <1>13 DEF StoreDmaLen, StoreDma
  <2> HIDE DEF a
  <2>4. IsRunning(a) => a.cycle - a.last["Dma"] < RomCost + Reach
    <3>1. IsRunning(a) => m.cycle - m.last["Dma"] < RomCost
      BY <1>7, <2>3 DEF DatesInv, Registers, IsRunning
    <3>2. PICK l \in Int : l = m.last["Dma"]
      BY <1>6, <1>7 DEF Planned, Tokens
    <3>3. PICK h \in Int : h = Reach
      BY Proportions
    <3> QED BY <1>3, <1>6, <1>7, <3>1, <3>2, <3>3, ConstantsAreNat
  <2>5. Keeps(a, m', F) /\ Punctual(a, m')
    BY <1>3, <1>6, <2>1, <2>2, <2>4, DmaStoreLenGood
  <2>6. m'.nextReg = "SRC"
    <3>1. DOMAIN m' = Fields /\ m' = [DmaStoreLen(a, words) EXCEPT !.nextReg = "SRC"]
      BY <2>1 DEF IInv, Good
    <3> QED BY <3>1 DEF Fields
  <2> HIDE DEF F
  <2> QED BY <1>9, <2>5, <2>6
<1> QED BY <1>11, <1>12, <1>13

\* A device that runs when its event is due; the dates that are not due any longer stay so.
LEMMA RunIfDueDates ==
  ASSUME NEW s, NEW c \in Int, Good(s, c), s.cycle <= c, Attained(s), Timely(s),
         \A d \in Tokens : s.next[d] >= s.cycle, NEW who \in Tokens
  PROVE  LET t == RunIfDue(s, who)
         IN  /\ Onward(s, t) /\ (who # "Dma" \/ ~t.panicked => Done(s, t, who))
             /\ t.last["Dma"] >= s.last["Dma"] /\ (IsRunning(t) => IsRunning(s))
<1> DEFINE t == Run(s, who)
<1>1. DOMAIN s = Fields /\ Planned(s) /\ s.cycle \in Int /\ s.last["Dma"] \in Int
  BY DEF Good, Planned, Tokens
<1>2. CASE s.first < s.next[who]
  <2>1. RunIfDue(s, who) = s
    BY <1>1, <1>2 DEF RunIfDue, Planned
  <2>2. s.first >= s.cycle
    BY DEF Attained
  <2>3. s.next[who] > s.cycle
    BY <1>1, <1>2, <2>2 DEF Planned
  <2> QED BY <1>1, <2>1, <2>3 DEF Onward, Done, StaysAwake, Timely
<1>3. CASE s.first >= s.next[who]
  <2>1. RunIfDue(s, who) = t
    BY <1>3 DEF RunIfDue
  <2>2. ASSUME NEW F, Keeps(s, t, F), "dma" \notin F, OthersKept(s, t, who), who # "Dma"
        PROVE  t.last["Dma"] >= s.last["Dma"] /\ (IsRunning(t) => IsRunning(s))
    <3> HIDE DEF t
    <3>1. t.dma = s.dma /\ t.last["Dma"] = s.last["Dma"]
      BY <1>1, <2>2 DEF Keeps, Fields, OthersKept, Tokens
    <3> QED BY <1>1, <3>1 DEF IsRunning
  <2>3. CASE who = "SysTimer"
    <3>1. t = TimerRun(s)
      BY <2>3, Zenon DEF Run
    <3>2. Onward(s, t) /\ Done(s, t, who)
      BY <2>3, <3>1, TimerMovesOn
    <3> DEFINE F == Cpu \cup Dates \cup {"mtime"}
    <3>3. Keeps(s, t, F) /\ OthersKept(s, t, who)
      BY <2>3, <3>1, TimerRunLemma DEF Good
    <3>4. "dma" \notin F
      BY DEF Cpu, Dates
    <3> HIDE DEF F, t
    <3> QED BY <2>1, <2>2, <2>3, <3>2, <3>3, <3>4
  <2>4. CASE who = "Gpu"
    <3>1. t = GpuRun(s)
      BY <2>4 DEF Run
    <3>2. Onward(s, t) /\ Done(s, t, who)
      BY <2>4, <3>1, GpuMovesOn DEF Good
    <3> DEFINE F == Irq \cup Dates \cup {"gpu", "frames", "frameDone"}
    <3>3. Keeps(s, t, F) /\ OthersKept(s, t, who)
      BY <2>4, <3>1, GpuRunGood
    <3>4. "dma" \notin F
      BY DEF Irq, Cpu, Dates
    <3> HIDE DEF F, t
    <3> QED BY <2>1, <2>2, <2>4, <3>2, <3>3, <3>4
  <2>5. CASE who = "Spu"
    <3>1. t = SpuRun(s)
      BY <2>5 DEF Run
    <3>2. Onward(s, t) /\ Done(s, t, who)
      BY <2>5, <3>1, SpuMovesOn
    <3> DEFINE F == Dates \cup {"samples", "spu"}
    <3>3. Keeps(s, t, F) /\ OthersKept(s, t, who)
      BY <2>5, <3>1, SpuRunLemma DEF Good
    <3>4. "dma" \notin F
      BY DEF Dates
    <3> HIDE DEF F, t
    <3> QED BY <2>1, <2>2, <2>5, <3>2, <3>3, <3>4
  <2>6. CASE who = "InputDev"
    <3>1. t = InputRun(s)
      BY <2>6 DEF Run
    <3>2. Onward(s, t) /\ Done(s, t, who)
      BY <2>6, <3>1, InputMovesOn
    <3> DEFINE F == Irq \cup Dates \cup {"input"}
    <3>3. Keeps(s, t, F) /\ OthersKept(s, t, who)
      BY <2>6, <3>1, InputRunGood
    <3>4. "dma" \notin F
      BY DEF Irq, Cpu, Dates
    <3> HIDE DEF F, t
    <3> QED BY <2>1, <2>2, <2>6, <3>2, <3>3, <3>4
  <2>7. CASE who = "Dma"
    <3>1. t = DmaRun(s)
      BY <2>7 DEF Run
    <3>2. DmaOnward(s, t)
      BY <3>1, DmaRunGood
    <3> HIDE DEF t
    <3> QED BY <2>1, <2>7, <3>2 DEF DmaOnward
  <2> QED BY <2>3, <2>4, <2>5, <2>6, <2>7 DEF Tokens
<1>4. s.first \in Int /\ s.next[who] \in Int
  BY <1>1 DEF Planned
<1> QED BY <1>2, <1>3, <1>4

\* No event is due before the date, nor is one at this date for those of W.
Past(s, W) ==
  /\ Attained(s) /\ Timely(s) /\ \A d \in Tokens : s.next[d] >= s.cycle
  /\ \A d \in W : s.next[d] > s.cycle

\* One more device has run.
LEMMA OneMorePast ==
  ASSUME NEW s, NEW c \in Int, Good(s, c), s.cycle <= c, NEW W \in SUBSET Tokens, Past(s, W),
         NEW who \in Tokens
  PROVE  LET t == RunIfDue(s, who)
         IN  /\ Good(t, c) /\ t.cycle = s.cycle /\ Past(t, {}) /\ Onward(s, t)
             /\ who # "Dma" \/ ~t.panicked => Past(t, W \cup {who})
             /\ t.last["Dma"] >= s.last["Dma"] /\ (IsRunning(t) => IsRunning(s))
<1> DEFINE t == RunIfDue(s, who)
<1>1. Good(t, c) /\ t.cycle = s.cycle
  BY RunIfDueGood
<1>2. /\ Onward(s, t) /\ (who # "Dma" \/ ~t.panicked => Done(s, t, who))
      /\ t.last["Dma"] >= s.last["Dma"] /\ (IsRunning(t) => IsRunning(s))
  BY RunIfDueDates DEF Past
<1> HIDE DEF t
<1>3. Attained(t) /\ Timely(t) /\ \A d \in Tokens : t.next[d] >= t.cycle
  BY <1>1, <1>2, StaysTimely DEF Good, Past, Onward
<1>4. Past(t, {})
  BY <1>3 DEF Past
<1>5. ASSUME who # "Dma" \/ ~t.panicked PROVE Past(t, W \cup {who})
  BY <1>1, <1>2, <1>3, <1>5 DEF Past, Done
<1> QED BY <1>1, <1>2, <1>4, <1>5 DEF t

\* All have.
LEMMA AllPast ==
  ASSUME NEW s, NEW c \in Int, Good(s, c), s.cycle <= c, Past(s, {})
  PROVE  LET t == RunDue(s)
         IN  /\ Past(t, {}) /\ Onward(s, t) /\ (~t.panicked => Past(t, Tokens))
             /\ t.last["Dma"] >= s.last["Dma"] /\ (IsRunning(t) => IsRunning(s))
<1> DEFINE Ran(t, u) ==
      /\ t.cycle = s.cycle /\ Good(t, c) /\ Past(t, {}) /\ Onward(s, t)
      /\ t.last["Dma"] >= s.last["Dma"] /\ (IsRunning(t) => IsRunning(s))
      /\ t.last["Dma"] \in Int /\ Past(t, u)
<1>0. s.last["Dma"] \in Int
  BY DEF Good, Planned, Tokens
<1>1. ASSUME NEW t, NEW W \in SUBSET Tokens, Ran(t, W), NEW who \in Tokens \ {"Dma"}, NEW u,
             u = RunIfDue(t, who)
      PROVE  Ran(u, W \cup {who})
  <2>1. /\ Good(u, c) /\ u.cycle = t.cycle /\ Past(u, {}) /\ Onward(t, u)
        /\ Past(u, W \cup {who})
        /\ u.last["Dma"] >= t.last["Dma"] /\ (IsRunning(u) => IsRunning(t))
    BY <1>1, OneMorePast
  <2>2. u.last["Dma"] \in Int
    BY <2>1 DEF Good, Planned, Tokens
  <2>3. Onward(s, u)
    BY <1>1, <2>1, OnwardTwice
  <2> QED BY <1>0, <1>1, <2>1, <2>2, <2>3
<1>2. Ran(s, {})
  BY <1>0 DEF Past, Onward, Timely, StaysAwake
<1>3. PICK s1 : s1 = RunIfDue(s, "SysTimer")
  OBVIOUS
<1>4. PICK s2 : s2 = RunIfDue(s1, "Gpu")
  OBVIOUS
<1>5. PICK s3 : s3 = RunIfDue(s2, "Spu")
  OBVIOUS
<1>6. PICK s4 : s4 = RunIfDue(s3, "InputDev")
  OBVIOUS
<1>7. PICK s5 : s5 = RunIfDue(s4, "Dma")
  OBVIOUS
<1>8. RunDue(s) = s5
  BY <1>3, <1>4, <1>5, <1>6, <1>7, Zenon DEF RunDue
<1> DEFINE W1 == {} \cup {"SysTimer"}
           W2 == W1 \cup {"Gpu"}
           W3 == W2 \cup {"Spu"}
           W4 == W3 \cup {"InputDev"}
<1>9. /\ {} \in SUBSET Tokens /\ W1 \in SUBSET Tokens /\ W2 \in SUBSET Tokens /\ W3 \in SUBSET Tokens
      /\ W4 \in SUBSET Tokens /\ W4 \cup {"Dma"} = Tokens
      /\ {"SysTimer", "Gpu", "Spu", "InputDev"} \subseteq Tokens \ {"Dma"} /\ "Dma" \in Tokens
  BY DEF Tokens
<1> HIDE DEF Ran
<1>10. Ran(s1, W1)
  BY <1>1, <1>2, <1>3, <1>9
<1> HIDE DEF W1
<1>11. Ran(s2, W2)
  BY <1>1, <1>4, <1>9, <1>10
<1> HIDE DEF W2
<1>12. Ran(s3, W3)
  BY <1>1, <1>5, <1>9, <1>11
<1> HIDE DEF W3
<1>13. Ran(s4, W4)
  BY <1>1, <1>6, <1>9, <1>12
<1> HIDE DEF W4
<1>14. /\ Good(s4, c) /\ s4.cycle = s.cycle /\ Past(s4, W4) /\ Onward(s, s4)
       /\ s4.last["Dma"] >= s.last["Dma"] /\ (IsRunning(s4) => IsRunning(s))
       /\ s4.last["Dma"] \in Int
  BY <1>13 DEF Ran
<1>15. /\ Good(s5, c) /\ s5.cycle = s4.cycle /\ Past(s5, {}) /\ Onward(s4, s5)
       /\ "Dma" # "Dma" \/ ~s5.panicked => Past(s5, W4 \cup {"Dma"})
       /\ s5.last["Dma"] >= s4.last["Dma"] /\ (IsRunning(s5) => IsRunning(s4))
  BY <1>7, <1>9, <1>14, OneMorePast
<1>16. Onward(s, s5)
  BY <1>14, <1>15, OnwardTwice
<1>17. s5.last["Dma"] >= s.last["Dma"]
  <2>1. s5.last["Dma"] \in Int
    BY <1>15 DEF Good, Planned, Tokens
  <2> QED BY <1>0, <1>14, <1>15, <2>1
<1> QED BY <1>8, <1>9, <1>14, <1>15, <1>16, <1>17

\* The events due at a date are all handled, and the date comes back.
LEMMA EventsPast ==
  ASSUME DatesInv, HandleEvents
  PROVE  \E u, v : /\ Keeps(m, u, {"cycle"}) /\ DOMAIN u = Fields /\ u.cycle = m.first
                   /\ m.first <= m.cycle
                   /\ Keeps(v, m', {"cycle", "handled"}) /\ DOMAIN v = Fields
                   /\ m'.cycle = m.cycle /\ v.cycle = m.first /\ v.nextReg = m.nextReg
                   /\ Planned(v) /\ Past(v, {}) /\ Onward(u, v) /\ (~v.panicked => Past(v, Tokens))
                   /\ v.last["Dma"] >= u.last["Dma"] /\ (IsRunning(v) => IsRunning(u))
<1>1. /\ DOMAIN m = Fields /\ Planned(m) /\ m.cycle \in Int /\ OnTime(m)
  BY DEF DatesInv, IInv, Good, Planned
<1>2. PICK u, v : /\ Keeps(m, u, {"cycle"}) /\ u.cycle = m.first /\ u.cycle <= m.cycle
                  /\ v = RunDue(u) /\ DOMAIN v = Fields
                  /\ Keeps(v, m', {"cycle", "handled"}) /\ m'.cycle = m.cycle
                  /\ Good(u, m.cycle) /\ Good(v, m.cycle)
  BY EventsRun DEF DatesInv
<1>3. /\ DOMAIN u = Fields /\ u.first = m.first /\ u.next = m.next /\ u.last = m.last
      /\ u.gpu = m.gpu /\ u.nextReg = m.nextReg
  BY <1>1, <1>2 DEF Keeps, Fields
<1>4. Attained(u)
  BY <1>1, <1>3 DEF OnTime, Attained
<1>5. Timely(u)
  <2>1. HasFrame(u)
    BY <1>1, <1>3 DEF OnTime, Timely, HasFrame
  <2>2. u.cycle - u.first < Reach
    <3>1. PICK f \in Int : f = m.first
      BY <1>1 DEF Planned
    <3>2. f - f < Reach
      BY Proportions
    <3> QED BY <1>2, <1>3, <3>1, <3>2
  <2> QED BY <2>1, <2>2 DEF Timely
<1>6. Past(u, {})
  BY <1>1, <1>2, <1>3, <1>4, <1>5 DEF Past, Planned
<1>7. /\ Past(v, {}) /\ Onward(u, v) /\ (~v.panicked => Past(v, Tokens))
      /\ v.last["Dma"] >= u.last["Dma"] /\ (IsRunning(v) => IsRunning(u))
  BY <1>1, <1>2, <1>6, AllPast
<1>8. v.cycle = m.first /\ v.nextReg = m.nextReg
  BY <1>1, <1>2, <1>3, RunDueGood
<1> QED BY <1>2, <1>3, <1>7, <1>8 DEF Good

LEMMA HandleEventsDates ==
  ASSUME DatesInv, IInv', HandleEvents
  PROVE  DatesInv'
<1>1. PICK u, v : /\ Keeps(m, u, {"cycle"}) /\ DOMAIN u = Fields /\ u.cycle = m.first
                  /\ m.first <= m.cycle
                  /\ Keeps(v, m', {"cycle", "handled"}) /\ DOMAIN v = Fields
                  /\ m'.cycle = m.cycle /\ v.cycle = m.first /\ v.nextReg = m.nextReg
                  /\ Planned(v) /\ Past(v, {}) /\ Onward(u, v) /\ (~v.panicked => Past(v, Tokens))
                  /\ v.last["Dma"] >= u.last["Dma"] /\ (IsRunning(v) => IsRunning(u))
  BY EventsPast
<1>2. Planned(m) /\ OnTime(m) /\ Registers(m)
  BY DEF DatesInv, IInv, Good
<1>3. u.last = m.last /\ u.dma = m.dma /\ u.wfi = m.wfi
  BY <1>1 DEF Keeps, Fields
<1>4. /\ m'.last = v.last /\ m'.next = v.next /\ m'.first = v.first /\ m'.gpu = v.gpu
      /\ m'.dma = v.dma /\ m'.wfi = v.wfi /\ m'.nextReg = v.nextReg
  BY <1>1 DEF Keeps, Fields
<1>5. PICK y \in Int : y = m.cycle
  BY <1>2 DEF Planned
<1>6. PICK f \in Int : f = m.first
  BY <1>2 DEF Planned
<1>7. PICK g \in Int : g = v.first
  BY <1>1 DEF Planned
<1>8. f <= y /\ g >= f
  BY <1>1, <1>5, <1>6, <1>7 DEF Past, Attained
<1>9. OnTime(m')
  <2>1. Attained(m')
    BY <1>1, <1>4 DEF Past, Attained
  <2>2. HasFrame(m')
    BY <1>1, <1>4 DEF Onward, HasFrame
  <2>3. m'.cycle - m'.first < Reach
    <3>1. y - f < Reach
      BY <1>2, <1>5, <1>6 DEF OnTime, Timely
    <3>2. PICK r \in Int : r = Reach
      BY Proportions
    <3>3. y - g < r
      BY <1>8, <3>1, <3>2
    <3> QED BY <1>1, <1>4, <1>5, <1>7, <3>2, <3>3
  <2>4. ASSUME NEW d \in {"Gpu", "InputDev"} PROVE m'.last[d] <= m'.cycle
    <3>1. v.last[d] \in {u.last[d], m.first}
      BY <1>1 DEF Onward
    <3>2. m.last[d] <= m.cycle
      BY <1>2 DEF OnTime
    <3> QED BY <1>1, <1>3, <1>4, <3>1, <3>2
  <2> QED BY <2>1, <2>2, <2>3, <2>4 DEF OnTime, Timely
<1>10. Registers(m')
  <2>1. ASSUME m'.nextReg # "SRC", IsRunning(m') PROVE m'.cycle - m'.last["Dma"] < RomCost
    <3>1. m.nextReg # "SRC" /\ IsRunning(m)
      BY <1>1, <1>3, <1>4, <2>1 DEF IsRunning
    <3>2. m.cycle - m.last["Dma"] < RomCost
      BY <1>2, <3>1 DEF Registers
    <3>3. PICK l \in Int : l = m.last["Dma"]
      BY <1>2 DEF Planned, Tokens
    <3>4. PICK x \in Int : x = v.last["Dma"]
      BY <1>1 DEF Planned, Tokens
    <3>5. y - l < RomCost /\ x >= l
      BY <1>1, <1>3, <1>5, <3>2, <3>3, <3>4
    <3>6. y - x < RomCost
      BY <3>5, ConstantsAreNat
    <3> QED BY <1>1, <1>4, <1>5, <3>4, <3>6
  <2>2. m'.wfi => m'.nextReg = "SRC"
    BY <1>1, <1>2, <1>3, <1>4 DEF Registers, Onward, StaysAwake
  <2> QED BY <2>1, <2>2 DEF Registers
<1>11. OnTime(m)' /\ Registers(m)'
  BY <1>9, <1>10 DEF OnTime, Attained, Timely, HasFrame, Registers, IsRunning
<1> QED BY <1>11 DEF DatesInv

\* Unless the DMA has given up, what was due is done: the next event is later than the last.
LEMMA EventsGoOn ==
  ASSUME DatesInv, HandleEvents, ~m'.panicked
  PROVE  m'.first > m.first
<1>1. PICK u, v : /\ Keeps(m, u, {"cycle"}) /\ DOMAIN u = Fields /\ u.cycle = m.first
                  /\ m.first <= m.cycle
                  /\ Keeps(v, m', {"cycle", "handled"}) /\ DOMAIN v = Fields
                  /\ m'.cycle = m.cycle /\ v.cycle = m.first /\ v.nextReg = m.nextReg
                  /\ Planned(v) /\ Past(v, {}) /\ Onward(u, v) /\ (~v.panicked => Past(v, Tokens))
                  /\ v.last["Dma"] >= u.last["Dma"] /\ (IsRunning(v) => IsRunning(u))
  BY EventsPast
<1>2. m'.first = v.first /\ m'.panicked = v.panicked
  BY <1>1 DEF Keeps, Fields
<1>3. Past(v, Tokens)
  BY <1>1, <1>2
<1> QED BY <1>1, <1>2, <1>3 DEF Past, Attained

\* Going back by the cycle changes no distance between dates.
LEMMA RebaseDates ==
  ASSUME NEW s, Good(s, s.cycle), OnTime(s), Registers(s)
  PROVE  OnTime(Rebase(s)) /\ Registers(Rebase(s))
<1> DEFINE t == Rebase(s)
<1>1. DOMAIN s = Fields /\ Planned(s)
  BY DEF Good
<1>2. /\ Keeps(s, t, {"last", "next", "first", "base", "cycle"})
      /\ t.last = [d \in Tokens |-> s.last[d] - s.cycle]
      /\ t.next = [d \in Tokens |-> s.next[d] - s.cycle]
      /\ t.first = s.first - s.cycle /\ t.cycle = 0
  <2>1. /\ DOMAIN t = DOMAIN s
        /\ t.last = [d \in Tokens |-> s.last[d] - s.cycle]
        /\ t.next = [d \in Tokens |-> s.next[d] - s.cycle]
        /\ t.first = s.first - s.cycle /\ t.cycle = 0
    BY <1>1 DEF Rebase, Fields
  <2>2. \A g \in DOMAIN s \ {"last", "next", "first", "base", "cycle"} : t[g] = s[g]
    BY DEF Rebase
  <2> QED BY <2>1, <2>2 DEF Keeps
<1> HIDE DEF t
<1>3. t.gpu = s.gpu /\ t.dma = s.dma /\ t.wfi = s.wfi /\ t.nextReg = s.nextReg
  BY <1>1, <1>2 DEF Keeps, Fields
<1>4. PICK k \in Int : k = s.cycle
  BY <1>1 DEF Planned
<1>5. PICK f \in Int : f = s.first
  BY <1>1 DEF Planned
<1>6. \A d \in Tokens : /\ s.last[d] \in Int /\ s.next[d] \in Int
                        /\ t.last[d] = s.last[d] - k /\ t.next[d] = s.next[d] - k
  BY <1>1, <1>2, <1>4 DEF Planned
<1>7. t.first = f - k /\ t.cycle = 0
  BY <1>2, <1>4, <1>5
<1>8. Attained(t)
  <2>1. PICK d \in Tokens : s.first = s.next[d]
    BY DEF OnTime, Attained
  <2>2. t.first = t.next[d]
    BY <1>5, <1>6, <1>7, <2>1
  <2> QED BY <2>2 DEF Attained
<1>9. HasFrame(t)
  <2>1. s.gpu.frame > 0 /\ s.next["Gpu"] <= s.last["Gpu"] + s.gpu.frame
    BY DEF OnTime, Timely, HasFrame
  <2>2. PICK l \in Int : l = s.last["Gpu"]
    BY <1>6 DEF Tokens
  <2>3. PICK n \in Int : n = s.next["Gpu"]
    BY <1>6 DEF Tokens
  <2>4. t.last["Gpu"] = l - k /\ t.next["Gpu"] = n - k
    BY <1>6, <2>2, <2>3 DEF Tokens
  <2>5. s.gpu.frame \in Int
    BY DEF Good, GpuKept, GpuTyped
  <2>6. PICK g \in Int : g = s.gpu.frame
    BY <2>5
  <2>7. n <= l + g
    BY <2>1, <2>2, <2>3, <2>6
  <2>8. n - k <= (l - k) + g
    BY <2>7
  <2> QED BY <1>3, <2>1, <2>4, <2>6, <2>8 DEF HasFrame
<1>10. t.cycle - t.first < Reach
  <2>1. k - f < Reach
    BY <1>4, <1>5 DEF OnTime, Timely
  <2>2. 0 - (f - k) = k - f
    OBVIOUS
  <2> QED BY <1>7, <2>1, <2>2
<1>11. ASSUME NEW d \in {"Gpu", "InputDev"} PROVE t.last[d] <= t.cycle
  <2>1. s.last[d] <= k
    BY <1>4 DEF OnTime
  <2>2. s.last[d] \in Int /\ t.last[d] = s.last[d] - k
    BY <1>6 DEF Tokens
  <2> QED BY <1>7, <2>1, <2>2
<1>12. ASSUME t.nextReg # "SRC", IsRunning(t) PROVE t.cycle - t.last["Dma"] < RomCost
  <2>1. k - s.last["Dma"] < RomCost
    BY <1>3, <1>4, <1>12 DEF Registers, IsRunning
  <2>2. PICK l \in Int : l = s.last["Dma"]
    BY <1>6 DEF Tokens
  <2>3. t.last["Dma"] = l - k
    BY <1>6, <2>2 DEF Tokens
  <2>4. 0 - (l - k) = k - l
    OBVIOUS
  <2> QED BY <1>7, <2>1, <2>2, <2>3, <2>4
<1>13. OnTime(t)
  BY <1>8, <1>9, <1>10, <1>11 DEF OnTime, Timely
<1>14. Registers(t)
  BY <1>3, <1>12 DEF Registers
<1> QED BY <1>13, <1>14 DEF t

LEMMA EndFrameDates ==
  ASSUME DatesInv, IInv', EndFrame
  PROVE  DatesInv'
<1>1. /\ Good(m, m.cycle) /\ DOMAIN m = Fields /\ Planned(m) /\ m.cycle \in Int
      /\ OnTime(m) /\ Timely(m) /\ Registers(m)
  BY DEF DatesInv, IInv, Good, Planned, OnTime
<1>2. PICK s : s = SpuRun(m)
  OBVIOUS
<1>3. PICK r : r = Rebase(s)
  OBVIOUS
<1>4. m' = [r EXCEPT !.frameDone = FALSE, !.handled = FALSE]
  BY <1>2, <1>3 DEF EndFrame
<1>5. Good(s, m.cycle) /\ Keeps(m, s, Dates \cup {"samples", "spu"})
  BY <1>1, <1>2, SpuRunGood
<1>6. OthersKept(m, s, "Spu") /\ Planned(s)
  BY <1>1, <1>2, SpuRunLemma DEF Good
<1>7. Onward(m, s)
  BY <1>1, <1>2, SpuMovesOn
<1>8. s.cycle = m.cycle /\ s.dma = m.dma /\ s.wfi = m.wfi /\ s.nextReg = m.nextReg
  BY <1>1, <1>5 DEF Keeps, Fields, Dates
<1>9. OnTime(s)
  BY <1>1, <1>6, <1>7, <1>8, OnwardIsPunctual, StaysOnTime
<1>10. s.last["Dma"] = m.last["Dma"]
  BY <1>6 DEF OthersKept, Tokens
<1>11. Registers(s)
  BY <1>1, <1>8, <1>10 DEF Registers, IsRunning
<1>12. Good(s, s.cycle)
  BY <1>5, <1>8
<1>13. OnTime(r) /\ Registers(r)
  BY <1>3, <1>9, <1>11, <1>12, RebaseDates
<1>14. DOMAIN r = Fields
  BY <1>3, <1>12, RebaseGood DEF Good
<1>15. /\ m'.first = r.first /\ m'.last = r.last /\ m'.next = r.next /\ m'.gpu = r.gpu
       /\ m'.nextReg = r.nextReg /\ m'.cycle = r.cycle /\ m'.wfi = r.wfi /\ m'.dma = r.dma
  BY <1>4, <1>14 DEF Fields
<1>16. OnTime(m)' /\ Registers(m)'
  BY <1>13, <1>15 DEF OnTime, Attained, Timely, HasFrame, Registers, IsRunning
<1> QED BY <1>16 DEF DatesInv

LEMMA InitDates == Init => DatesInv
<1> SUFFICES ASSUME Init PROVE DatesInv
  OBVIOUS
<1>1. IInv
  BY InitGood
<1>2. PICK p \in Programs :
  m = [ program |-> p, cycle |-> 0, base |-> 0, first |-> 0,
        last |-> [d \in Tokens |-> 0], next |-> [d \in Tokens |-> 0],
        mip |-> {}, mie |-> {}, irqOn |-> FALSE, irqOnPrev |-> FALSE, wfi |-> FALSE,
        unchecked |-> FALSE,
        pending |-> {}, enabled |-> {},
        mtime |-> 0, mtimecmp |-> Word * Word - 1, samples |-> 0,
        gpu |-> NewGpu(p.frame), frames |-> 0, frameDone |-> FALSE,
        dma |-> [src |-> "RAM", dst |-> "RAM", todo |-> <<>>, buf |-> <<>>],
        spu |-> NewSpu(p.ram), sent |-> 0, canWrite |-> FALSE,
        nextReg |-> "SRC", asked |-> <<>>, delivered |-> <<>>, done |-> 0,
        input |-> [tx |-> <<>>, rx |-> <<>>, irq |-> FALSE, div |-> 1, count |-> 0],
        handled |-> FALSE, panicked |-> FALSE ]
  BY Zenon DEF Init
<1>3. /\ m.cycle = 0 /\ m.first = 0 /\ m.nextReg = "SRC" /\ m.gpu = NewGpu(p.frame)
      /\ m.last = [d \in Tokens |-> 0] /\ m.next = [d \in Tokens |-> 0]
  BY <1>2
<1>4. \A d \in Tokens : m.last[d] = 0 /\ m.next[d] = 0
  BY <1>3
<1>5. m.gpu.frame = p.frame /\ p.frame \in Nat \ {0}
  BY <1>3, ProgramFacts DEF NewGpu
<1>6. Attained(m)
  BY <1>3, <1>4 DEF Attained, Tokens
<1>7. HasFrame(m)
  <2>1. m.last["Gpu"] = 0 /\ m.next["Gpu"] = 0
    BY <1>4 DEF Tokens
  <2>2. PICK g \in Int : g = m.gpu.frame /\ g > 0
    BY <1>5
  <2> QED BY <2>1, <2>2 DEF HasFrame
<1>8. m.cycle - m.first < Reach
  BY <1>3, Proportions
<1>9. \A d \in {"Gpu", "InputDev"} : m.last[d] <= m.cycle
  BY <1>3, <1>4 DEF Tokens
<1> QED BY <1>1, <1>3, <1>6, <1>7, <1>8, <1>9 DEF DatesInv, OnTime, Timely, Registers

\* No instruction begins, nor does a frame end, while an event is due.
LEMMA EventsFirst ==
  ASSUME IsEventPending(m), Step \/ Skip \/ EndFrame
  PROVE  FALSE
<1>1. CASE Step
  <2>1. PICK t \in Ticks :
          \/ Compute(t) \/ CsrBits(t) \/ CsrSet(t) \/ Ecall(t) \/ MRet(t) \/ Wfi(t)
          \/ StoreTimer(t) \/ LoadTimer(t) \/ StoreIrqAck(t) \/ StoreIrqEnable(t)
          \/ LoadGpu(t) \/ StoreGpu(t) \/ GpuCanWrite(t) \/ SendToGpu(t) \/ StoreSpu(t)
          \/ StoreDmaSrc(t) \/ StoreDmaDst(t) \/ StoreDmaLen(t)
          \/ StoreInputConf(t) \/ StoreInputTx(t) \/ LoadInputRx(t)
    BY <1>1, Zenon DEF Step
  <2>2. \E op : Instr(op)
    BY <2>1, Zenon DEF Compute, CsrBits, CsrSet, Ecall, MRet, Wfi, StoreTimer, LoadTimer,
         StoreIrqAck, StoreIrqEnable, LoadGpu, StoreGpu, GpuCanWrite, SendToGpu, StoreSpu,
         StoreDmaSrc, StoreDmaDst, StoreDmaLen, StoreDma, StoreInputConf, StoreInputTx, LoadInputRx
  <2> QED BY <2>2 DEF Instr, Running
<1>2. CASE Skip
  BY <1>2 DEF Skip, Running
<1>3. CASE EndFrame
  BY <1>3 DEF EndFrame
<1> QED BY <1>1, <1>2, <1>3

LEMMA NextKeepsDates == DatesInv /\ [Next]_m => DatesInv'
<1> SUFFICES ASSUME DatesInv, [Next]_m PROVE DatesInv'
  OBVIOUS
<1>0. IInv'
  BY NextKeepsIInv DEF DatesInv
<1>1. CASE Step
  <2>1. PICK t \in Ticks :
          \/ Compute(t) \/ CsrBits(t) \/ CsrSet(t) \/ Ecall(t) \/ MRet(t) \/ Wfi(t)
          \/ StoreTimer(t) \/ LoadTimer(t) \/ StoreIrqAck(t) \/ StoreIrqEnable(t)
          \/ LoadGpu(t) \/ StoreGpu(t) \/ GpuCanWrite(t) \/ SendToGpu(t) \/ StoreSpu(t)
          \/ StoreDmaSrc(t) \/ StoreDmaDst(t) \/ StoreDmaLen(t)
          \/ StoreInputConf(t) \/ StoreInputTx(t) \/ LoadInputRx(t)
    BY <1>1, Zenon DEF Step
  <2> QED BY <1>0, <2>1, ProcessorDates, WaitingDates, TimerDates, IrqDates, GpuDates,
             SendToGpuDates, StoreSpuDates, DmaDates, InputDates, Zenon
<1>2. CASE HandleEvents
  BY <1>0, <1>2, HandleEventsDates
<1>3. CASE Skip
  BY <1>0, <1>3, WaitingDates
<1>4. CASE EndFrame
  BY <1>0, <1>4, EndFrameDates
<1>5. CASE UNCHANGED m
  BY <1>0, <1>5 DEF DatesInv, OnTime, Attained, Timely, HasFrame, Registers, IsRunning
<1> QED BY <1>1, <1>2, <1>3, <1>4, <1>5 DEF Next

-----------------------------------------------------------------------------
(* Theorems *)

\* The machine is always in order: its clocks agree, its events are planned, its interrupts are
\* taken.  Each of the following is a part of this.
THEOREM MachineInvariant == Spec => []IInv
BY InitGood, NextKeepsIInv, PTL DEF Spec

\* An interrupt that is up, enabled and let through is taken at once, by whatever device it was
\* raised and whatever instruction let it through, and never finds the processor asleep.
THEOREM InterruptsAreTaken == Spec => []NoInterruptMissed
<1>1. IInv => NoInterruptMissed
  BY DEF IInv, Good, IrqSafe, NoInterruptMissed
<1> QED BY <1>1, MachineInvariant, PTL

\* The devices that keep time neither lose nor repeat a cycle, however late, early or in the past
\* they run, and through every rebase.
THEOREM ClocksAgree == Spec => []TimeConserved
<1>1. ASSUME IInv PROVE TimeConserved
  <2>1. Good(m, m.cycle)
    BY <1>1 DEF IInv
  <2>2. PICK b \in Int : b = m.base
    BY <2>1 DEF Good, Planned
  <2>3. PICK k \in Int : k = m.cycle
    BY <2>1 DEF Good, Planned
  <2>4. \A d \in Tokens : Clock - (m.cycle - m.last[d]) = m.base + m.last[d]
    <3> SUFFICES ASSUME NEW d \in Tokens
                 PROVE  Clock - (m.cycle - m.last[d]) = m.base + m.last[d]
      OBVIOUS
    <3>1. PICK l \in Int : l = m.last[d]
      BY <2>1 DEF Good, Planned
    <3> QED BY <2>2, <2>3, <3>1 DEF Clock
  <2>5. /\ Clock - (m.cycle - m.last["SysTimer"]) = m.base + m.last["SysTimer"]
        /\ Clock - (m.cycle - m.last["Spu"]) = m.base + m.last["Spu"]
        /\ Clock - (m.cycle - m.last["Gpu"]) = m.base + m.last["Gpu"]
    BY <2>4 DEF Tokens
  <2>6. /\ m.mtime * ClkDiv = m.base + m.last["SysTimer"]
        /\ m.samples * AudioDiv = m.base + m.last["Spu"]
        /\ (m.frames + 1) * FrameCycles(m) - m.gpu.frame = m.base + m.last["Gpu"]
        /\ LET v == m.spu.voice
           IN  v.startedAt # -1 => v.played = m.samples - v.startedAt \div AudioDiv
    BY <2>1 DEF Good, TimerKept, SpuKept, VoiceKept, GpuKept
  <2> QED BY <2>5, <2>6, Zenon DEF TimeConserved
<1> QED BY <1>1, MachineInvariant, PTL

\* A released voice ends and an attack rises, whatever the configuration, the level that was
\* written and the moment: a step of the envelope never leaves the level where it was.
THEOREM EnvelopesMove == Spec => []EnvelopeMoves
<1>1. ASSUME IInv PROVE EnvelopeMoves
  <2>1. EnvelopeKept(m.spu.voice)
    BY <1>1 DEF IInv, Good, SpuKept, VoiceKept
  <2>2. PICK v : v = m.spu.voice
    OBVIOUS
  <2>3. /\ Within(v.level, 0, Max16)
        /\ v.level < Max16 => NextLevel(v.params.Attack, v.level) > v.level
        /\ v.level > 0 => NextLevel(v.params.Release, v.level) < v.level
    BY <2>1, <2>2, EnvelopeMovesLemma
  <2>4. v.level \in 0 .. Max16
    <3>1. PICK most \in Int : most = Max16
      BY DEF Max16
    <3> QED BY <2>3, <3>1 DEF Within
  <2> QED BY <2>2, <2>3, <2>4, Zenon DEF EnvelopeMoves
<1> QED BY <1>1, MachineInvariant, PTL

\* No sample is lost on its way from the decoder to the speaker, repeated or taken out of turn,
\* whatever the pitch and the sizes: the queue, which drops what comes when it is full, never is
\* when a word is decoded.
THEOREM SamplesAreQueued == Spec => []QueueFollows
<1>1. ASSUME IInv PROVE QueueFollows
  <2>1. SoundKept(m.spu.voice)
    BY <1>1 DEF IInv, Good, SpuKept, VoiceKept
  <2> QED BY <2>1 DEF SoundKept, LineKept, QueueFollows
<1> QED BY <1>1, MachineInvariant, PTL

\* Between instructions the timer's line is up exactly when the time has come, though nobody
\* brings MTIME up to date until an event or an access: the event is never planned too late.
THEOREM TimerIsExact == Spec => []TimerExact
<1>1. ASSUME IInv PROVE TimerExact
  <2>1. Good(m, m.cycle)
    BY <1>1 DEF IInv
  <2>2. SUFFICES ASSUME m.cycle < m.first
        PROVE  "MTI" \in m.mip
               <=> m.mtime + ((m.cycle - m.last["SysTimer"]) \div ClkDiv) >= m.mtimecmp
    <3>1. m.cycle \in Int /\ m.first \in Int
      BY <2>1 DEF Good, Planned
    <3> QED BY <2>2, <3>1 DEF TimerExact, IsEventPending
  <2>3. PICK l \in Int : l = m.last["SysTimer"]
    BY <2>1 DEF Good, Planned, Tokens
  <2>4. PICK n \in Int : n = m.next["SysTimer"]
    BY <2>1 DEF Good, Planned, Tokens
  <2>5. PICK k \in Int : k = m.cycle
    BY <2>1 DEF Good, Planned
  <2>6. l <= k /\ k < n
    <3>1. m.first \in Int /\ m.first <= n
      BY <2>1, <2>4 DEF Good, Planned, Tokens
    <3>2. m.last["SysTimer"] <= m.cycle
      BY <2>1 DEF Good, TimerKept
    <3> QED BY <2>2, <2>3, <2>5, <3>1, <3>2
  <2>7. PICK now \in Int : now = m.mtime
    BY <2>1 DEF Good, TimerKept
  <2>8. PICK cmp \in Int : cmp = m.mtimecmp
    BY <2>1 DEF Good, TimerKept
  <2>9. ClkDiv \in Nat \ {0}
    BY ConstantsAreNat
  <2>16. PICK e \in Int : e = k - l
    OBVIOUS
  <2>10. PICK q \in Int : q = e \div ClkDiv
    BY <2>9, DivMod
  <2>17. e % ClkDiv \in 0 .. ClkDiv - 1 /\ e = q * ClkDiv + (e % ClkDiv)
    BY <2>9, <2>10, DivMod
  <2>11. PICK r \in 0 .. ClkDiv - 1 : k - l = q * ClkDiv + r
    BY <2>16, <2>17
  <2>12. q >= 0
    <3> SUFFICES ASSUME q <= -1 PROVE FALSE
      OBVIOUS
    <3>1. q * ClkDiv <= -ClkDiv
      BY <2>9
    <3> QED BY <2>6, <2>9, <2>11, <3>1
  <2>13. ASSUME now < cmp PROVE q < cmp - now
    <3>1. n - l <= ClkDiv * (cmp - now)
      BY <2>1, <2>3, <2>4, <2>7, <2>8, <2>13 DEF Good, TimerArmed
    <3>2. q * ClkDiv < ClkDiv * (cmp - now)
      <4>1. PICK w \in Int : w = ClkDiv * (cmp - now)
        BY <2>9
      <4>2. PICK x \in Int : x = q * ClkDiv
        BY <2>9
      <4> QED BY <2>6, <2>9, <2>11, <3>1, <4>1, <4>2
    <3> SUFFICES ASSUME q >= cmp - now PROVE FALSE
      OBVIOUS
    <3>3. (q - (cmp - now)) * ClkDiv >= 0
      BY <2>9
    <3>4. (q - (cmp - now)) * ClkDiv = q * ClkDiv - ClkDiv * (cmp - now)
      BY <2>9
    <3> QED BY <2>9, <3>2, <3>3, <3>4
  <2>14. "MTI" \in m.mip <=> now >= cmp
    BY <2>1, <2>7, <2>8 DEF Good, TimerArmed
  <2>15. "MTI" \in m.mip <=> now + q >= cmp
    BY <2>12, <2>13, <2>14
  <2> QED BY <2>3, <2>5, <2>7, <2>8, <2>10, <2>15, <2>16
<1> QED BY <1>1, MachineInvariant, PTL

\* The words of a transfer reach their destination once and in order, whatever the sizes of the
\* memory, the FIFO and the buffer, and whatever is written to the registers meanwhile; the
\* interrupt is raised once, at the end; and the transfer is never left alone for longer than the
\* longest command takes.
THEOREM TransfersAreDelivered == Spec => []DmaDelivers
<1>1. ASSUME IInv PROVE DmaDelivers
  <2>1. Good(m, m.cycle)
    BY <1>1 DEF IInv
  <2>2. m.delivered \o m.dma.buf \o m.dma.todo = m.asked
    BY <2>1 DEF Good, DmaKept, DmaHolds
  <2>3. m.done = (IF m.asked # <<>> /\ ~IsRunning(m) THEN 1 ELSE 0)
    BY <2>1 DEF Good, DmaKept
  <2>4. ASSUME IsRunning(m) PROVE m.next["Dma"] - m.cycle <= DmaPatience
    <3>1. m.next["Dma"] - m.last["Dma"] <= DmaPatience /\ m.last["Dma"] <= m.cycle
      BY <2>1, <2>4 DEF Good, DmaKept
    <3>2. m.next["Dma"] \in Int /\ m.last["Dma"] \in Int /\ m.cycle \in Int
      BY <2>1 DEF Good, Planned, Tokens
    <3> QED BY <3>1, <3>2, PatienceLemma
  <2> QED BY <2>2, <2>3, <2>4 DEF DmaDelivers
<1> QED BY <1>1, MachineInvariant, PTL

\* The dates are always in order: the events are looked at in time, no device is ahead of the
\* date, and the DMA keeps up while the processor writes its registers.
THEOREM DatesInvariant == Spec => []DatesInv
BY InitDates, NextKeepsDates, PTL DEF Spec

\* When an event is handled, no device has run past the date of the event by as much as the
\* longest instruction takes: resync asserts as much of the time that has elapsed (sync.rs:57).
THEOREM DevicesStayClose == Spec => []NeverFarAhead
<1>1. ASSUME DatesInv PROVE NeverFarAhead
  <2>1. Good(m, m.cycle) /\ OnTime(m) /\ Planned(m)
    BY <1>1 DEF DatesInv, IInv, Good
  <2>2. SUFFICES ASSUME NEW d \in Tokens PROVE m.last[d] - m.first < Max(Ticks)
    BY DEF NeverFarAhead
  <2>3. m.last[d] <= m.cycle
    BY <2>1 DEF Good, TimerKept, SpuKept, DmaKept, OnTime, Tokens
  <2>4. PICK l \in Int : l = m.last[d]
    BY <2>1 DEF Planned
  <2>5. PICK k \in Int : k = m.cycle
    BY <2>1 DEF Planned
  <2>6. PICK f \in Int : f = m.first
    BY <2>1 DEF Planned
  <2>7. PICK r \in Int : r = Reach
    BY Proportions
  <2>8. k - f < r
    BY <2>1, <2>5, <2>6, <2>7 DEF OnTime, Timely
  <2>9. l - f < r
    BY <2>3, <2>4, <2>5, <2>8
  <2> QED BY <2>4, <2>6, <2>7, <2>9 DEF Reach
<1> QED BY <1>1, DatesInvariant, PTL

\* The loop that handles the events ends: each turn leaves the first event later than it was,
\* whichever devices were due and whatever they plan, so no event is handled twice at a date.
THEOREM EventsMoveOn == Spec => EventsAdvance
<1>1. ASSUME DatesInv, [Next]_m
      PROVE  [IsEventPending(m) /\ ~m'.panicked => m'.first > m.first]_m
  <2>1. CASE HandleEvents
    BY <1>1, <2>1, EventsGoOn
  <2>2. CASE Step \/ Skip \/ EndFrame
    BY <2>2, EventsFirst
  <2>3. CASE UNCHANGED m
    BY <2>3
  <2> QED BY <1>1, <2>1, <2>2, <2>3 DEF Next
<1> QED BY <1>1, DatesInvariant, PTL DEF Spec, EventsAdvance
=============================================================================
