--------------------------- MODULE MpmcFifoProofs ---------------------------
(***************************************************************************)
(* Proofs about MpmcFifo, for any number of threads, slots and items, over *)
(* any number of rounds of the wrapping indices: no slot is raced for, and *)
(* the queue implements the abstract one.                                  *)
(* At the end, proofs about Semaphore by itself.                           *)
(***************************************************************************)
EXTENDS MpmcFifo, Semaphore, FiniteSetTheorems, SequenceTheorems, TLAPS

\* What the code takes for granted of its compare-and-exchange: between a thread's
\* look at an index and its attempt to move it, the other threads do not claim as
\* many positions as the index has values, so that an index that looks the same is
\* the same.
NotLapped == \A t \in Threads : fpc[t] = "cas" => TrueIndex(t) - seen[t] < W

-----------------------------------------------------------------------------
(* The inductive invariant *)

Claiming == {"load", "seq", "cas"}
Owning == {"data", "publish"}
TakeAt == {"try", "wait", "add", "futex", "asleep", "sub", "won", "lost"}
GiveAt == {"out", "post", "check", "wake"}
SemAt == TakeAt \cup GiveAt

\* A semaphore's value is a number, and try_wait only loops while its guess is
\* positive.
SemaphoreOK(v, s, c) ==
  /\ v \in Nat /\ s \in [Threads -> SemAt] /\ c \in [Threads -> Nat]
  /\ \A t \in Threads : s[t] \in {"try", "wait"} => c[t] > 0

\* A thread is in at most one semaphore: a producer takes from empty_cells and gives
\* to filled_cells, a consumer the other way round.  T is the kind of thread that
\* takes from the semaphore in which the threads' places are s.
PlacesIn(T, p, s) ==
  \A t \in Threads :
    IF t \in T THEN s[t] \in (IF p[t] = "take" THEN TakeAt ELSE {"out"})
    ELSE s[t] \in (IF p[t] = "give" THEN GiveAt ELSE {"out"})
Places == PlacesIn(Producers, fpc, eSpc) /\ PlacesIn(Consumers, fpc, fSpc)

Data ==
  /\ seq \in [Slots -> Nat] /\ elems \in [Slots -> Values \cup {Uninit}]
  /\ pos \in [Threads -> Nat] /\ seen \in [Threads -> Nat]
  /\ got \in [Threads -> Values \cup {Uninit}]

\* A call that is under way was among those the thread was to make.
CallsLeft ==
  \E load \in Loads : /\ left \in [Threads -> Nat]
                      /\ \A t \in Threads : /\ left[t] <= load[t]
                                            /\ fpc[t] # "idle" => left[t] > 0

\* The threads that hold a cell of the semaphore: one that has taken it and has not
\* claimed a position, or has claimed one and not yet given the cell.
Held(T, p, s) ==
  {t \in Threads : IF t \in T THEN s[t] = "won" \/ p[t] \in Claiming
                   ELSE s[t] = "post" \/ p[t] \in Owning}
EmptyHeld == Held(Producers, fpc, eSpc)
FilledHeld == Held(Consumers, fpc, fSpc)

\* No cell is lost: each is in a semaphore, in the hands of a thread, or a position
\* between the indices.
Cells ==
  /\ eVal + Cardinality(EmptyHeld) = N - (writes - reads)
  /\ fVal + Cardinality(FilledHeld) = writes - reads

\* The parts of the invariant that are about cells and places.
Counted ==
  /\ fpc \in [Threads -> FPositions]
  /\ SemaphoreOK(eVal, eSpc, eCurV) /\ SemaphoreOK(fVal, fSpc, fCurV)
  /\ writes \in Nat /\ reads \in Nat /\ Places /\ Cells

\* The indices and the positions, unwrapped.
Unwrapped ==
  /\ writeIdx = writes % W /\ readIdx = reads % W
  /\ \A t \in Threads : pos[t] = seen[t] % W /\ seen[t] <= TrueIndex(t)

\* While the index has not moved, what a thread saw of the slot stays true.
SeenIsTrue ==
  \A t \in Threads : fpc[t] = "cas" /\ seen[t] = TrueIndex(t) => Expected(t, pos[t])

\* A writer owns a position of the queue, a reader one that has left it and whose
\* slot has not been claimed again; no two own the same.
Writers == {t \in Producers : fpc[t] \in Owning}
Readers == {t \in Consumers : fpc[t] \in Owning}
Owners ==
  /\ \A t \in Writers : /\ reads <= seen[t] /\ seen[t] < writes
                        /\ seq[SlotOf(pos[t])] = pos[t]
                        /\ fpc[t] = "publish" => elems[SlotOf(pos[t])] # Uninit
  /\ \A t \in Readers : /\ seen[t] < reads /\ writes <= seen[t] + N
                        /\ seq[SlotOf(pos[t])] = Plus(pos[t], 1)
                        /\ elems[SlotOf(pos[t])] # Uninit
  /\ \A t, u \in Threads : t # u /\ fpc[t] \in Owning /\ fpc[u] \in Owning => seen[t] # seen[u]

\* A position of the queue that no writer owns has been written.
Written ==
  \A p \in reads .. writes - 1 :
    (\E t \in Writers : seen[t] = p) \/ elems[p % N] # Uninit

Ring == Unwrapped /\ SeenIsTrue /\ Owners /\ Written

IInv == Counted /\ Data /\ CallsLeft /\ Ring
-----------------------------------------------------------------------------
(* Numbers *)

\* What is assumed of the sizes.
LEMMA Sizes ==
  /\ N \in Nat /\ N > 0 /\ W \in Nat /\ W > 1 /\ N < W /\ Base \in Nat /\ Base < W
  /\ Slots = 0 .. N - 1
BY FifoAssumption DEF Slots

\* Euclid.
LEMMA Division ==
  ASSUME NEW x \in Int, NEW b \in Nat, b > 0
  PROVE  \E q \in Int, m \in Nat : x = q * b + m /\ m = x % b /\ m < b
<1>1. /\ x = b * (x \div b) + (x % b) /\ x \div b \in Int
      /\ x % b \in 0 .. b - 1
  OBVIOUS
<1>2. PICK q \in Int : q = x \div b
  BY <1>1
<1>3. PICK m \in Nat : m = x % b /\ m < b
  BY <1>1
<1>4. x = q * b + m
  BY <1>1, <1>2, <1>3
<1> QED
  BY <1>3, <1>4

\* A positive multiple of b is no less than b.
LEMMA MultipleGrows ==
  ASSUME NEW d \in Int, NEW b \in Nat, d >= 1
  PROVE  d * b >= b
<1>1. d * b = (d - 1) * b + b
  OBVIOUS
<1>2. PICK e \in Nat : e = d - 1
  OBVIOUS
<1>3. e * b >= 0
  OBVIOUS
<1> QED
  BY <1>1, <1>2, <1>3

\* A quotient and a small remainder are the quotient and the remainder.
LEMMA Remainder ==
  ASSUME NEW x \in Int, NEW b \in Nat, NEW q \in Int, NEW r \in Nat, x = q * b + r, r < b
  PROVE  x % b = r
<1>1. b > 0
  OBVIOUS
<1>2. PICK k \in Int, m \in Nat : x = k * b + m /\ m = x % b /\ m < b
  BY <1>1, Division
<1>3. ASSUME NEW i \in Int, NEW j \in Int, NEW u \in Nat, NEW v \in Nat,
             i * b + u = j * b + v, i < j, u < b
      PROVE  FALSE
  <2>1. (j - i) * b = u - v
    <3>1. (j - i) * b = j * b - i * b
      OBVIOUS
    <3>2. i * b \in Int /\ j * b \in Int
      OBVIOUS
    <3> QED
      BY <1>3, <3>1, <3>2
  <2>2. j - i \in Int /\ j - i >= 1
    BY <1>3
  <2>3. (j - i) * b >= b
    BY <2>2, MultipleGrows
  <2> QED
    BY <1>3, <2>1, <2>3
<1>4. k * b + m = q * b + r
  BY <1>1, <1>2
<1>5. k = q
  BY <1>2, <1>3, <1>4
<1> QED
  <2>1. PICK c \in Int : c = k * b
    OBVIOUS
  <2>2. c + m = c + r
    BY <1>4, <1>5, <2>1
  <2>3. m = r
    BY <2>2
  <2> QED
    BY <1>2, <2>3

\* A multiple of b more or less changes nothing.
LEMMA Shift ==
  ASSUME NEW x \in Int, NEW k \in Int, NEW b \in Nat, b > 0
  PROVE  (x + k * b) % b = x % b
<1>1. b > 0
  OBVIOUS
<1>2. PICK q \in Int, m \in Nat : x = q * b + m /\ m = x % b /\ m < b
  BY <1>1, Division
<1>3. x + k * b = (q + k) * b + m
  BY <1>1, <1>2
<1>4. q + k \in Int /\ x + k * b \in Int
  OBVIOUS
<1> QED
  BY <1>2, <1>3, <1>4, Remainder

\* Numbers less than b apart differ.
LEMMA Close ==
  ASSUME NEW x \in Int, NEW y \in Int, NEW b \in Nat, x < y, y < x + b
  PROVE  x % b # y % b
<1> SUFFICES ASSUME x % b = y % b PROVE FALSE
  OBVIOUS
<1>0. b > 0
  OBVIOUS
<1>1. PICK q \in Int, m \in Nat : x = q * b + m /\ m = x % b /\ m < b
  BY <1>0, Division
<1>2. PICK k \in Int, n \in Nat : y = k * b + n /\ n = y % b /\ n < b
  BY <1>0, Division
<1>3. (k - q) * b = y - x /\ k - q \in Int
  <2>1. (k - q) * b = k * b - q * b /\ q * b \in Int /\ k * b \in Int
    OBVIOUS
  <2> QED
    BY <1>1, <1>2, <2>1
<1>4. CASE k - q >= 1
  BY <1>3, <1>4, MultipleGrows
<1>5. CASE k - q <= 0
  <2> PICK d \in Nat : d = q - k
    BY <1>5
  <2>1. d * b >= 0 /\ (k - q) * b = 0 - d * b
    OBVIOUS
  <2> QED
    BY <1>3, <2>1
<1> QED
  BY <1>3, <1>4, <1>5

\* Unwrapped numbers are moved first and wrapped later.
LEMMA Wrap ==
  ASSUME NEW x \in Nat, NEW k \in Nat
  PROVE  /\ x % W \in Nat /\ x % W < W /\ (x + k) % W \in Nat
         /\ Plus(x % W, k) = (x + k) % W
<1>1. x \in Int /\ W > 0
  BY Sizes
<1>2. PICK q \in Int, m \in Nat : x = q * W + m /\ m = x % W /\ m < W
  BY <1>1, Sizes, Division
<1>3. x + k = (m + k) + q * W
  BY <1>1, <1>2, Sizes
<1>4. (x + k) % W = (m + k) % W
  <2>1. m + k \in Int /\ W \in Nat /\ W > 0
    BY Sizes
  <2>2. ((m + k) + q * W) % W = (m + k) % W
    BY <2>1, Shift
  <2> QED
    BY <1>3, <2>2
<1>5. (x + k) % W \in Nat
  <2>1. x + k \in Int
    OBVIOUS
  <2> QED
    BY <1>1, <2>1, Sizes, Division
<1> QED
  BY <1>2, <1>4, <1>5 DEF Plus

\* The slot of a position does not depend on the wraps: W is a multiple of N.
LEMMA SlotUnwrapped ==
  ASSUME NEW x \in Nat
  PROVE  SlotOf(x % W) = x % N /\ x % N \in Slots
<1>1. PICK j \in Int : W = j * N
  <2>1. PICK j \in Int, m \in Nat : W = j * N + m /\ m = W % N /\ m < N
    <3>1. W \in Int
      BY Sizes
    <3> QED
      BY <3>1, Sizes, Division
  <2>2. W % N = 0 /\ j * N \in Int
    BY FifoAssumption, Sizes
  <2> QED
    BY <2>1, <2>2
<1>2. x \in Int /\ W > 0 /\ N > 0
  BY Sizes
<1>3. PICK q \in Int, m \in Nat : x = q * W + m /\ m = x % W /\ m < W
  BY <1>2, Sizes, Division
<1>4. PICK i \in Int : i = q * j
  OBVIOUS
<1>5. x = m + i * N
  <2>1. q * W = (q * j) * N
    BY <1>1, Sizes
  <2> QED
    BY <1>3, <1>4, <2>1, Sizes
<1>6. (m + i * N) % N = m % N
  <2>1. m \in Int /\ N \in Nat
    BY Sizes
  <2> QED
    BY <1>2, <2>1, Shift
<1>7. x % N \in Nat /\ x % N < N
  BY <1>2, Sizes, Division
<1>8. SlotOf(x % W) = m % N /\ x % N = m % N
  BY <1>3, <1>5, <1>6 DEF SlotOf
<1> QED
  BY <1>7, <1>8, Sizes

\* The difference of the indices is that of the unwrapped ones.
LEMMA Distance ==
  ASSUME NEW a \in Nat, NEW b \in Nat, b <= a, a <= b + N
  PROVE  ((a % W) - (b % W)) % W = a - b
<1>0. a \in Int /\ b \in Int /\ W \in Nat /\ W > 0
  BY Sizes
<1>1. PICK p \in Int, m \in Nat : a = p * W + m /\ m = a % W /\ m < W
  BY <1>0, Division
<1>2. PICK q \in Int, n \in Nat : b = q * W + n /\ n = b % W /\ n < W
  BY <1>0, Division
<1>3. m - n = (q - p) * W + (a - b) /\ m - n \in Int /\ q - p \in Int
  <2>1. (q - p) * W = q * W - p * W /\ q * W \in Int /\ p * W \in Int
    BY Sizes
  <2> QED
    BY <1>0, <1>1, <1>2, <2>1
<1>4. a - b \in Nat /\ a - b < W
  BY Sizes
<1>5. (m - n) % W = a - b
  BY <1>0, <1>3, <1>4, Remainder
<1> QED
  BY <1>1, <1>2, <1>5
-----------------------------------------------------------------------------
(* The semaphores *)

\* What a step of thread t inside a semaphore does to its value and to the places of
\* the threads: a unit is taken, a unit is given, a thread goes on, or it wakes
\* another.
Moves(p, q) ==
  \/ p \in TakeAt \ {"won", "lost"} /\ q \in TakeAt \ {"won"}
  \/ p \in {"check", "wake"} /\ q \in {"wake", "out"}
InsideStep(t, v, s, w, r) ==
  \/ s[t] \in {"try", "wait"} /\ v > 0 /\ w = v - 1 /\ r = [s EXCEPT ![t] = "won"]
  \/ s[t] = "post" /\ w = v + 1 /\ r = [s EXCEPT ![t] = "check"]
  \/ w = v /\ \E q \in SemAt : Moves(s[t], q) /\ r = [s EXCEPT ![t] = q]
  \/ /\ w = v /\ s[t] = "wake"
     /\ \E u \in Threads : s[u] = "asleep" /\ r = [s EXCEPT ![t] = "out", ![u] = "sub"]

\* A step inside empty_cells.
LEMMA EmptyInside ==
  ASSUME SemaphoreOK(eVal, eSpc, eCurV), NEW t \in Threads, Empty!Inside(t)
  PROVE  SemaphoreOK(eVal', eSpc', eCurV') /\ InsideStep(t, eVal, eSpc, eVal', eSpc')
<1> USE DEF Empty!SGoto, TakeAt, GiveAt, SemAt
<1>1. eVal \in Nat /\ eSpc \in [Threads -> SemAt] /\ eCurV \in [Threads -> Nat]
      /\ \A u \in Threads : eSpc[u] \in {"try", "wait"} => eCurV[u] > 0
  BY DEF SemaphoreOK
<1>2. CASE Empty!CasOk(t)
  <2>1. PICK v \in Nat : v = eCurV[t] - 1 /\ eVal = eCurV[t] /\ v = eVal - 1 /\ eVal > 0
    BY <1>1, <1>2 DEF Empty!CasOk
  <2>2. eVal' = v /\ eSpc' = [eSpc EXCEPT ![t] = "won"] /\ eCurV' = eCurV
        /\ eSpc[t] \in {"try", "wait"}
    BY <1>2, <2>1 DEF Empty!CasOk
  <2> QED
    BY <1>1, <2>1, <2>2 DEF SemaphoreOK, InsideStep
<1>3. CASE Empty!CasFailed(t)
  <2>1. /\ eVal' = eVal /\ eCurV' = [eCurV EXCEPT ![t] = eVal] /\ eSpc[t] \in {"try", "wait"}
        /\ \/ eVal > 0 /\ eSpc' = eSpc
           \/ ~(eVal > 0) /\ eSpc' = [eSpc EXCEPT ![t] = IF eSpc[t] = "try" THEN "lost" ELSE "add"]
    BY <1>3 DEF Empty!CasFailed
  <2>2. SemaphoreOK(eVal', eSpc', eCurV')
    BY <1>1, <2>1 DEF SemaphoreOK
  <2>3. \E q \in SemAt : Moves(eSpc[t], q) /\ eSpc' = [eSpc EXCEPT ![t] = q]
    <3>1. CASE eVal > 0
      <4>1. eSpc' = [eSpc EXCEPT ![t] = eSpc[t]] /\ Moves(eSpc[t], eSpc[t]) /\ eSpc[t] \in SemAt
        BY <1>1, <2>1, <3>1 DEF Moves
      <4> QED
        BY <4>1
    <3>2. CASE ~(eVal > 0)
      <4> PICK q : q = IF eSpc[t] = "try" THEN "lost" ELSE "add"
        OBVIOUS
      <4>1. q \in SemAt /\ Moves(eSpc[t], q) /\ eSpc' = [eSpc EXCEPT ![t] = q]
        BY <2>1, <3>2 DEF Moves
      <4> QED
        BY <4>1, Zenon
    <3> QED
      BY <3>1, <3>2
  <2> QED
    BY <2>1, <2>2, <2>3 DEF InsideStep
<1>4. CASE Empty!WaitingAdd(t) \/ Empty!FutexWait(t) \/ Empty!WaitingSub(t) \/ Empty!PostCheck(t)
           \/ (Empty!PostWake(t) /\ eSpc' = [eSpc EXCEPT ![t] = "out"])
  <2>1. PICK q \in SemAt : Moves(eSpc[t], q) /\ eSpc' = [eSpc EXCEPT ![t] = q]
                           /\ (q = "wait" => eCurV' = [eCurV EXCEPT ![t] = 1])
                           /\ (q # "wait" => eCurV' = eCurV) /\ q # "try"
    <3>1. CASE Empty!WaitingAdd(t)
      BY <3>1 DEF Empty!WaitingAdd, Moves
    <3>2. CASE Empty!FutexWait(t)
      BY <3>2 DEF Empty!FutexWait, Moves
    <3>3. CASE Empty!WaitingSub(t)
      BY <3>3 DEF Empty!WaitingSub, Moves
    <3>4. CASE Empty!PostCheck(t)
      <4> PICK q : q = IF eWaiting > 0 THEN "wake" ELSE "out"
        OBVIOUS
      <4>1. /\ q \in SemAt /\ Moves(eSpc[t], q) /\ eSpc' = [eSpc EXCEPT ![t] = q]
            /\ eCurV' = eCurV /\ q # "wait" /\ q # "try"
        BY <3>4 DEF Empty!PostCheck, Moves
      <4> QED
        BY <4>1
    <3>5. CASE Empty!PostWake(t) /\ eSpc' = [eSpc EXCEPT ![t] = "out"]
      BY <3>5 DEF Empty!PostWake, Moves
    <3> QED
      BY <1>4, <3>1, <3>2, <3>3, <3>4, <3>5
  <2>2. eVal' = eVal
    BY <1>4 DEF Empty!WaitingAdd, Empty!FutexWait, Empty!WaitingSub, Empty!PostCheck, Empty!PostWake
  <2>3. SemaphoreOK(eVal', eSpc', eCurV')
    BY <1>1, <2>1, <2>2 DEF SemaphoreOK
  <2> QED
    BY <2>1, <2>2, <2>3 DEF InsideStep
<1>5. CASE Empty!PostAdd(t)
  <2>1. PICK v \in Nat : v = eVal + 1
    BY <1>1
  <2>2. eVal' = v /\ eSpc' = [eSpc EXCEPT ![t] = "check"] /\ eCurV' = eCurV /\ eSpc[t] = "post"
    BY <1>5, <2>1 DEF Empty!PostAdd
  <2> QED
    BY <1>1, <2>1, <2>2 DEF SemaphoreOK, InsideStep
<1>6. CASE Empty!PostWake(t) /\ eSpc' # [eSpc EXCEPT ![t] = "out"]
  <2>1. PICK u \in Threads : eSpc[u] = "asleep" /\ eSpc' = [eSpc EXCEPT ![t] = "out", ![u] = "sub"]
    BY <1>6 DEF Empty!PostWake, Empty!Asleep, Empty!At
  <2>2. eVal' = eVal /\ eCurV' = eCurV /\ eSpc[t] = "wake"
    BY <1>6 DEF Empty!PostWake
  <2> QED
    BY <1>1, <2>1, <2>2 DEF SemaphoreOK, InsideStep
<1> QED
  BY <1>2, <1>3, <1>4, <1>5, <1>6 DEF Empty!Inside

\* A step inside filled_cells.
LEMMA FilledInside ==
  ASSUME SemaphoreOK(fVal, fSpc, fCurV), NEW t \in Threads, Filled!Inside(t)
  PROVE  SemaphoreOK(fVal', fSpc', fCurV') /\ InsideStep(t, fVal, fSpc, fVal', fSpc')
<1> USE DEF Filled!SGoto, TakeAt, GiveAt, SemAt
<1>1. fVal \in Nat /\ fSpc \in [Threads -> SemAt] /\ fCurV \in [Threads -> Nat]
      /\ \A u \in Threads : fSpc[u] \in {"try", "wait"} => fCurV[u] > 0
  BY DEF SemaphoreOK
<1>2. CASE Filled!CasOk(t)
  <2>1. PICK v \in Nat : v = fCurV[t] - 1 /\ fVal = fCurV[t] /\ v = fVal - 1 /\ fVal > 0
    BY <1>1, <1>2 DEF Filled!CasOk
  <2>2. fVal' = v /\ fSpc' = [fSpc EXCEPT ![t] = "won"] /\ fCurV' = fCurV
        /\ fSpc[t] \in {"try", "wait"}
    BY <1>2, <2>1 DEF Filled!CasOk
  <2> QED
    BY <1>1, <2>1, <2>2 DEF SemaphoreOK, InsideStep
<1>3. CASE Filled!CasFailed(t)
  <2>1. /\ fVal' = fVal /\ fCurV' = [fCurV EXCEPT ![t] = fVal] /\ fSpc[t] \in {"try", "wait"}
        /\ \/ fVal > 0 /\ fSpc' = fSpc
           \/ ~(fVal > 0) /\ fSpc' = [fSpc EXCEPT ![t] = IF fSpc[t] = "try" THEN "lost" ELSE "add"]
    BY <1>3 DEF Filled!CasFailed
  <2>2. SemaphoreOK(fVal', fSpc', fCurV')
    BY <1>1, <2>1 DEF SemaphoreOK
  <2>3. \E q \in SemAt : Moves(fSpc[t], q) /\ fSpc' = [fSpc EXCEPT ![t] = q]
    <3>1. CASE fVal > 0
      <4>1. fSpc' = [fSpc EXCEPT ![t] = fSpc[t]] /\ Moves(fSpc[t], fSpc[t]) /\ fSpc[t] \in SemAt
        BY <1>1, <2>1, <3>1 DEF Moves
      <4> QED
        BY <4>1
    <3>2. CASE ~(fVal > 0)
      <4> PICK q : q = IF fSpc[t] = "try" THEN "lost" ELSE "add"
        OBVIOUS
      <4>1. q \in SemAt /\ Moves(fSpc[t], q) /\ fSpc' = [fSpc EXCEPT ![t] = q]
        BY <2>1, <3>2 DEF Moves
      <4> QED
        BY <4>1, Zenon
    <3> QED
      BY <3>1, <3>2
  <2> QED
    BY <2>1, <2>2, <2>3 DEF InsideStep
<1>4. CASE Filled!WaitingAdd(t) \/ Filled!FutexWait(t) \/ Filled!WaitingSub(t) \/ Filled!PostCheck(t)
           \/ (Filled!PostWake(t) /\ fSpc' = [fSpc EXCEPT ![t] = "out"])
  <2>1. PICK q \in SemAt : Moves(fSpc[t], q) /\ fSpc' = [fSpc EXCEPT ![t] = q]
                           /\ (q = "wait" => fCurV' = [fCurV EXCEPT ![t] = 1])
                           /\ (q # "wait" => fCurV' = fCurV) /\ q # "try"
    <3>1. CASE Filled!WaitingAdd(t)
      BY <3>1 DEF Filled!WaitingAdd, Moves
    <3>2. CASE Filled!FutexWait(t)
      BY <3>2 DEF Filled!FutexWait, Moves
    <3>3. CASE Filled!WaitingSub(t)
      BY <3>3 DEF Filled!WaitingSub, Moves
    <3>4. CASE Filled!PostCheck(t)
      <4> PICK q : q = IF fWaiting > 0 THEN "wake" ELSE "out"
        OBVIOUS
      <4>1. /\ q \in SemAt /\ Moves(fSpc[t], q) /\ fSpc' = [fSpc EXCEPT ![t] = q]
            /\ fCurV' = fCurV /\ q # "wait" /\ q # "try"
        BY <3>4 DEF Filled!PostCheck, Moves
      <4> QED
        BY <4>1
    <3>5. CASE Filled!PostWake(t) /\ fSpc' = [fSpc EXCEPT ![t] = "out"]
      BY <3>5 DEF Filled!PostWake, Moves
    <3> QED
      BY <1>4, <3>1, <3>2, <3>3, <3>4, <3>5
  <2>2. fVal' = fVal
    BY <1>4 DEF Filled!WaitingAdd, Filled!FutexWait, Filled!WaitingSub, Filled!PostCheck, Filled!PostWake
  <2>3. SemaphoreOK(fVal', fSpc', fCurV')
    BY <1>1, <2>1, <2>2 DEF SemaphoreOK
  <2> QED
    BY <2>1, <2>2, <2>3 DEF InsideStep
<1>5. CASE Filled!PostAdd(t)
  <2>1. PICK v \in Nat : v = fVal + 1
    BY <1>1
  <2>2. fVal' = v /\ fSpc' = [fSpc EXCEPT ![t] = "check"] /\ fCurV' = fCurV /\ fSpc[t] = "post"
    BY <1>5, <2>1 DEF Filled!PostAdd
  <2> QED
    BY <1>1, <2>1, <2>2 DEF SemaphoreOK, InsideStep
<1>6. CASE Filled!PostWake(t) /\ fSpc' # [fSpc EXCEPT ![t] = "out"]
  <2>1. PICK u \in Threads : fSpc[u] = "asleep" /\ fSpc' = [fSpc EXCEPT ![t] = "out", ![u] = "sub"]
    BY <1>6 DEF Filled!PostWake, Filled!Asleep, Filled!At
  <2>2. fVal' = fVal /\ fCurV' = fCurV /\ fSpc[t] = "wake"
    BY <1>6 DEF Filled!PostWake
  <2> QED
    BY <1>1, <2>1, <2>2 DEF SemaphoreOK, InsideStep
<1> QED
  BY <1>2, <1>3, <1>4, <1>5, <1>6 DEF Filled!Inside

-----------------------------------------------------------------------------
(* Counting threads *)

\* A set that one thread joins or leaves.
LEMMA CountMove ==
  ASSUME NEW A, NEW B, A \subseteq Threads, B \subseteq Threads, NEW t \in Threads,
         \A u \in Threads : u # t => (u \in A <=> u \in B)
  PROVE  /\ Cardinality(A) \in Nat /\ Cardinality(B) \in Nat
         /\ (t \in A <=> t \in B) => Cardinality(B) = Cardinality(A)
         /\ t \notin A /\ t \in B => Cardinality(B) = Cardinality(A) + 1
         /\ t \in A /\ t \notin B => Cardinality(B) = Cardinality(A) - 1
<1>1. IsFiniteSet(A) /\ IsFiniteSet(B)
  BY FifoAssumption, FS_Subset
<1>2. Cardinality(A) \in Nat /\ Cardinality(B) \in Nat
  BY <1>1, FS_CardinalityType
<1>3. CASE t \in A <=> t \in B
  <2>1. A = B
    BY <1>3
  <2> QED
    BY <1>2, <1>3, <2>1
<1>4. CASE t \notin A /\ t \in B
  <2>1. B = A \cup {t}
    BY <1>4
  <2> QED
    BY <1>1, <1>2, <1>4, <2>1, FS_AddElement
<1>5. CASE t \in A /\ t \notin B
  <2>1. B = A \ {t}
    BY <1>5
  <2> QED
    BY <1>1, <1>2, <1>5, <2>1, FS_RemoveElement
<1> QED
  BY <1>3, <1>4, <1>5

\* A thread in a set counts, and two threads count two.
LEMMA CountMembers ==
  ASSUME NEW A, A \subseteq Threads, NEW t \in A
  PROVE  /\ Cardinality(A) \in Nat /\ Cardinality(A) >= 1
         /\ \A u \in A : u # t => Cardinality(A) >= 2
<1>1. Cardinality(A \ {t}) \in Nat /\ Cardinality(A) = Cardinality(A \ {t}) + 1
  <2>1. A \ {t} \subseteq Threads /\ t \in Threads
    OBVIOUS
  <2> QED
    BY <2>1, CountMove
<1>2. ASSUME NEW u \in A, u # t PROVE Cardinality(A \ {t}) >= 1
  <2>1. /\ A \ {t} \subseteq Threads /\ (A \ {t}) \ {u} \subseteq Threads /\ u \in Threads
        /\ u \in A \ {t}
    BY <1>2
  <2>2. Cardinality((A \ {t}) \ {u}) \in Nat
        /\ Cardinality(A \ {t}) = Cardinality((A \ {t}) \ {u}) + 1
    BY <2>1, CountMove
  <2> QED
    BY <2>2
<1> QED
  BY <1>1, <1>2
-----------------------------------------------------------------------------
(* The cells *)

\* A step inside a semaphore loses no cell and leaves every thread at its place.
LEMMA InsideKeepsCells ==
  ASSUME NEW T, NEW p, NEW t \in Threads, NEW s, NEW v \in Nat, NEW u, NEW w \in Nat,
         s \in [Threads -> SemAt], PlacesIn(T, p, s), InsideStep(t, v, s, w, u)
  PROVE  /\ PlacesIn(T, p, u)
         /\ w + Cardinality(Held(T, p, u)) = v + Cardinality(Held(T, p, s))
<1> USE DEF TakeAt, GiveAt, SemAt
<1> DEFINE A == Held(T, p, s)
           B == Held(T, p, u)
<1>1. /\ A \subseteq Threads /\ B \subseteq Threads
      /\ \A x \in Threads : x \in A <=> IF x \in T THEN s[x] = "won" \/ p[x] \in Claiming
                                        ELSE s[x] = "post" \/ p[x] \in Owning
      /\ \A x \in Threads : x \in B <=> IF x \in T THEN u[x] = "won" \/ p[x] \in Claiming
                                        ELSE u[x] = "post" \/ p[x] \in Owning
  BY DEF Held
<1> HIDE DEF A, B
<1>2. CASE s[t] \in {"try", "wait"} /\ v > 0 /\ w = v - 1 /\ u = [s EXCEPT ![t] = "won"]
  <2>1. u[t] = "won" /\ \A x \in Threads : x # t => u[x] = s[x]
    BY <1>2
  <2>2. t \in T /\ p[t] = "take"
    BY <1>2 DEF PlacesIn
  <2>3. PlacesIn(T, p, u)
    BY <2>1, <2>2 DEF PlacesIn
  <2>4. t \notin A /\ t \in B /\ \A x \in Threads : x # t => (x \in A <=> x \in B)
    BY <1>1, <1>2, <2>1, <2>2 DEF Claiming
  <2>5. Cardinality(A) \in Nat /\ Cardinality(B) = Cardinality(A) + 1
    BY <1>1, <2>4, CountMove
  <2> QED
    BY <1>2, <2>3, <2>5 DEF A, B
<1>3. CASE s[t] = "post" /\ w = v + 1 /\ u = [s EXCEPT ![t] = "check"]
  <2>1. u[t] = "check" /\ \A x \in Threads : x # t => u[x] = s[x]
    BY <1>3
  <2>2. t \notin T /\ p[t] = "give"
    BY <1>3 DEF PlacesIn
  <2>3. PlacesIn(T, p, u)
    BY <2>1, <2>2 DEF PlacesIn
  <2>4. t \in A /\ t \notin B /\ \A x \in Threads : x # t => (x \in A <=> x \in B)
    BY <1>1, <1>3, <2>1, <2>2 DEF Owning
  <2>5. Cardinality(A) \in Nat /\ Cardinality(B) = Cardinality(A) - 1
    BY <1>1, <2>4, CountMove
  <2> QED
    BY <1>3, <2>3, <2>5 DEF A, B
<1>4. ASSUME w = v, NEW q \in SemAt, Moves(s[t], q), u = [s EXCEPT ![t] = q]
      PROVE  PlacesIn(T, p, u) /\ A = B
  <2>1. u[t] = q /\ \A x \in Threads : x # t => u[x] = s[x]
    BY <1>4
  <2>2. PlacesIn(T, p, u)
    BY <1>4, <2>1 DEF PlacesIn, Moves
  <2>3. \A x \in Threads : x \in A <=> x \in B
    BY <1>1, <1>4, <2>1 DEF Moves
  <2> QED
    BY <1>1, <2>2, <2>3
<1>5. ASSUME w = v, s[t] = "wake", NEW y \in Threads, s[y] = "asleep",
             u = [s EXCEPT ![t] = "out", ![y] = "sub"]
      PROVE  PlacesIn(T, p, u) /\ A = B
  <2>1. u[t] = "out" /\ u[y] = "sub" /\ \A x \in Threads : x # t /\ x # y => u[x] = s[x]
    BY <1>5
  <2>2. PlacesIn(T, p, u)
    BY <1>5, <2>1 DEF PlacesIn
  <2>3. \A x \in Threads : x \in A <=> x \in B
    BY <1>1, <1>5, <2>1
  <2> QED
    BY <1>1, <2>2, <2>3
<1>6. CASE w = v /\ PlacesIn(T, p, u) /\ A = B
  <2>1. A \subseteq Threads /\ B \subseteq Threads /\ Cardinality(A) = Cardinality(B)
    BY <1>1, <1>6
  <2> QED
    BY <1>6, <2>1 DEF A, B
<1> QED
  BY <1>2, <1>3, <1>4, <1>5, <1>6 DEF InsideStep

\* What holds of every thread but t.
Others(t, f, g) == \A x \in Threads : x # t => g[x] = f[x]

\* A step of thread t outside of the semaphores moves at most its own cell.
LEMMA OutsideMovesCells ==
  ASSUME NEW T, NEW t \in Threads, NEW p, NEW s, NEW q, NEW u, Others(t, p, q), Others(t, s, u)
  PROVE  /\ Cardinality(Held(T, p, s)) \in Nat /\ Cardinality(Held(T, q, u)) \in Nat
         /\ (t \in Held(T, p, s) <=> t \in Held(T, q, u)) =>
              Cardinality(Held(T, q, u)) = Cardinality(Held(T, p, s))
         /\ t \notin Held(T, p, s) /\ t \in Held(T, q, u) =>
              Cardinality(Held(T, q, u)) = Cardinality(Held(T, p, s)) + 1
         /\ t \in Held(T, p, s) /\ t \notin Held(T, q, u) =>
              Cardinality(Held(T, q, u)) = Cardinality(Held(T, p, s)) - 1
<1>1. /\ Held(T, p, s) \subseteq Threads /\ Held(T, q, u) \subseteq Threads
      /\ \A x \in Threads : x # t => (x \in Held(T, p, s) <=> x \in Held(T, q, u))
  BY DEF Held, Others
<1> QED
  BY <1>1, CountMove

\* A step that moves no cell.
LEMMA CellsKept ==
  ASSUME Cells, NEW t \in Threads,
         Others(t, fpc, fpc'), Others(t, eSpc, eSpc'), Others(t, fSpc, fSpc'),
         t \in EmptyHeld <=> t \in Held(Producers, fpc', eSpc'),
         t \in FilledHeld <=> t \in Held(Consumers, fpc', fSpc'),
         UNCHANGED <<eVal, fVal, writes, reads>>
  PROVE  Cells'
<1>1. Cardinality(Held(Producers, fpc', eSpc')) = Cardinality(EmptyHeld)
  BY OutsideMovesCells DEF EmptyHeld
<1>2. Cardinality(Held(Consumers, fpc', fSpc')) = Cardinality(FilledHeld)
  BY OutsideMovesCells DEF FilledHeld
<1>3. eVal' = eVal /\ fVal' = fVal /\ writes' = writes /\ reads' = reads
  OBVIOUS
<1>4. /\ eVal + Cardinality(Held(Producers, fpc', eSpc')) = N - (writes - reads)
      /\ fVal + Cardinality(Held(Consumers, fpc', fSpc')) = writes - reads
  BY <1>1, <1>2 DEF Cells
<1> QED
  BY <1>3, <1>4 DEF Cells, EmptyHeld, FilledHeld

\* A step of a thread inside a semaphore.
LEMMA SemaphoreCounted ==
  ASSUME Counted, NEW t \in Threads, SemaphoreStep(t)
  PROVE  Counted'
<1>1. fpc' = fpc /\ writes' = writes /\ reads' = reads
  BY DEF SemaphoreStep, callVars, trueVars
<1>2. CASE Empty!Inside(t) /\ UNCHANGED fVars
  <2>1. fVal' = fVal /\ fSpc' = fSpc /\ fCurV' = fCurV
    BY <1>2 DEF fVars
  <2>2. SemaphoreOK(eVal', eSpc', eCurV') /\ InsideStep(t, eVal, eSpc, eVal', eSpc')
    BY <1>2, EmptyInside DEF Counted
  <2> PICK w, u : w = eVal' /\ u = eSpc'
    OBVIOUS
  <2>3. eVal \in Nat /\ w \in Nat /\ eSpc \in [Threads -> SemAt]
    BY <2>2 DEF Counted, SemaphoreOK
  <2>4. /\ PlacesIn(Producers, fpc, u)
        /\ w + Cardinality(Held(Producers, fpc, u)) = eVal + Cardinality(Held(Producers, fpc, eSpc))
    BY <2>2, <2>3, InsideKeepsCells DEF Counted, Places
  <2>5. w + Cardinality(Held(Producers, fpc, u)) = N - (writes - reads)
    BY <2>4 DEF Counted, Cells, EmptyHeld
  <2>6. Cells' /\ Places'
    BY <1>1, <2>1, <2>4, <2>5 DEF Counted, Cells, Places, EmptyHeld, FilledHeld
  <2> QED
    BY <1>1, <2>1, <2>2, <2>6 DEF Counted
<1>3. CASE Filled!Inside(t) /\ UNCHANGED eVars
  <2>1. eVal' = eVal /\ eSpc' = eSpc /\ eCurV' = eCurV
    BY <1>3 DEF eVars
  <2>2. SemaphoreOK(fVal', fSpc', fCurV') /\ InsideStep(t, fVal, fSpc, fVal', fSpc')
    BY <1>3, FilledInside DEF Counted
  <2> PICK w, u : w = fVal' /\ u = fSpc'
    OBVIOUS
  <2>3. fVal \in Nat /\ w \in Nat /\ fSpc \in [Threads -> SemAt]
    BY <2>2 DEF Counted, SemaphoreOK
  <2>4. /\ PlacesIn(Consumers, fpc, u)
        /\ w + Cardinality(Held(Consumers, fpc, u)) = fVal + Cardinality(Held(Consumers, fpc, fSpc))
    BY <2>2, <2>3, InsideKeepsCells DEF Counted, Places
  <2>5. w + Cardinality(Held(Consumers, fpc, u)) = writes - reads
    BY <2>4 DEF Counted, Cells, FilledHeld
  <2>6. Cells' /\ Places'
    BY <1>1, <2>1, <2>4, <2>5 DEF Counted, Cells, Places, EmptyHeld, FilledHeld
  <2> QED
    BY <1>1, <2>1, <2>2, <2>6 DEF Counted
<1> QED
  BY <1>2, <1>3 DEF SemaphoreStep

\* Where thread t may be in the semaphore that the threads of T take from.
PlaceIn(T, t, p, s) ==
  IF t \in T THEN s[t] \in (IF p[t] = "take" THEN TakeAt ELSE {"out"})
  ELSE s[t] \in (IF p[t] = "give" THEN GiveAt ELSE {"out"})

\* A step of thread t outside of the semaphores, which keeps its cell.
LEMMA OutsideCounted ==
  ASSUME Counted, NEW t \in Threads, NEW p \in FPositions, fpc' = [fpc EXCEPT ![t] = p],
         SemaphoreOK(eVal', eSpc', eCurV'), SemaphoreOK(fVal', fSpc', fCurV'),
         Others(t, eSpc, eSpc'), Others(t, fSpc, fSpc'),
         PlaceIn(Producers, t, fpc', eSpc'), PlaceIn(Consumers, t, fpc', fSpc'),
         t \in EmptyHeld <=> t \in Held(Producers, fpc', eSpc'),
         t \in FilledHeld <=> t \in Held(Consumers, fpc', fSpc'),
         UNCHANGED <<eVal, fVal, writes, reads>>
  PROVE  Counted'
<1>1. fpc' \in [Threads -> FPositions] /\ Others(t, fpc, fpc') /\ writes' \in Nat /\ reads' \in Nat
  BY DEF Counted, Others
<1>2. Cells'
  BY <1>1, CellsKept DEF Counted
<1>3. Places'
  BY <1>1 DEF Counted, Places, PlacesIn, PlaceIn, Others
<1> QED
  BY <1>1, <1>2, <1>3 DEF Counted

\* A call begins to wait for a cell.
LEMMA CallCounted ==
  ASSUME Counted, NEW t \in Threads, Call(t)
  PROVE  Counted'
<1> USE DEF TakeAt, GiveAt, SemAt
<1>1. /\ fpc' = [fpc EXCEPT ![t] = "take"] /\ fpc[t] = "idle" /\ "take" \in FPositions
      /\ writes' = writes /\ reads' = reads /\ fpc \in [Threads -> FPositions]
  BY DEF Call, Goto, trueVars, FPositions, Counted
<1>2. fpc'[t] = "take"
  BY <1>1
<1>3. CASE t \in Producers /\ (Empty!StartWait(t) \/ Empty!StartTryWait(t)) /\ UNCHANGED fVars
  <2>1. PICK q \in {"wait", "try"} :
          /\ eSpc[t] = "out" /\ eSpc' = [eSpc EXCEPT ![t] = q] /\ eCurV' = [eCurV EXCEPT ![t] = 1]
          /\ eVal' = eVal /\ fVal' = fVal /\ fSpc' = fSpc /\ fCurV' = fCurV
    BY <1>3 DEF Empty!StartWait, Empty!StartTryWait, Empty!Start, Empty!SGoto, fVars
  <2>2. SemaphoreOK(eVal, eSpc', eCurV') /\ Others(t, eSpc, eSpc') /\ eSpc'[t] = q
    BY <2>1 DEF Counted, SemaphoreOK, Others
  <2>3. SemaphoreOK(fVal', fSpc', fCurV') /\ Others(t, fSpc, fSpc') /\ t \notin Consumers /\ fSpc[t] = "out"
    BY <1>1, <1>3, <2>1, FifoAssumption DEF Counted, Others, Places, PlacesIn
  <2>4. PlaceIn(Producers, t, fpc', eSpc') /\ PlaceIn(Consumers, t, fpc', fSpc')
    BY <1>2, <1>3, <2>1, <2>2, <2>3 DEF PlaceIn
  <2>5. /\ t \in EmptyHeld <=> t \in Held(Producers, fpc', eSpc')
        /\ t \in FilledHeld <=> t \in Held(Consumers, fpc', fSpc')
    BY <1>1, <1>2, <1>3, <2>1, <2>2, <2>3 DEF EmptyHeld, FilledHeld, Held, Claiming, Owning
  <2> QED
    BY <1>1, <2>1, <2>2, <2>3, <2>4, <2>5, OutsideCounted
<1>4. CASE t \in Consumers /\ (Filled!StartWait(t) \/ Filled!StartTryWait(t)) /\ UNCHANGED eVars
  <2>1. PICK q \in {"wait", "try"} :
          /\ fSpc[t] = "out" /\ fSpc' = [fSpc EXCEPT ![t] = q] /\ fCurV' = [fCurV EXCEPT ![t] = 1]
          /\ fVal' = fVal /\ eVal' = eVal /\ eSpc' = eSpc /\ eCurV' = eCurV
    BY <1>4 DEF Filled!StartWait, Filled!StartTryWait, Filled!Start, Filled!SGoto, eVars
  <2>2. SemaphoreOK(fVal, fSpc', fCurV') /\ Others(t, fSpc, fSpc') /\ fSpc'[t] = q
    BY <2>1 DEF Counted, SemaphoreOK, Others
  <2>3. SemaphoreOK(eVal', eSpc', eCurV') /\ Others(t, eSpc, eSpc') /\ t \notin Producers /\ eSpc[t] = "out"
    BY <1>1, <1>4, <2>1, FifoAssumption DEF Counted, Others, Places, PlacesIn
  <2>4. PlaceIn(Producers, t, fpc', eSpc') /\ PlaceIn(Consumers, t, fpc', fSpc')
    BY <1>2, <1>4, <2>1, <2>2, <2>3 DEF PlaceIn
  <2>5. /\ t \in EmptyHeld <=> t \in Held(Producers, fpc', eSpc')
        /\ t \in FilledHeld <=> t \in Held(Consumers, fpc', fSpc')
    BY <1>1, <1>2, <1>4, <2>1, <2>2, <2>3 DEF EmptyHeld, FilledHeld, Held, Claiming, Owning
  <2> QED
    BY <1>1, <2>1, <2>2, <2>3, <2>4, <2>5, OutsideCounted
<1> QED
  BY <1>3, <1>4 DEF Call

\* The call is refused, or goes on with the cell it was given.
LEMMA ReturnCounted ==
  ASSUME Counted, NEW t \in Threads, Refuse(t) \/ Proceed(t)
  PROVE  Counted'
<1> USE DEF TakeAt, GiveAt, SemAt
<1>1. PICK p \in {"idle", "load"} :
        /\ fpc' = [fpc EXCEPT ![t] = p] /\ fpc[t] = "take" /\ fpc \in [Threads -> FPositions]
        /\ writes' = writes /\ reads' = reads /\ p \in FPositions /\ TakeReturns(t)
        /\ p = "idle" => TakeResult(t) = "lost"
        /\ p = "load" => TakeResult(t) = "won"
  BY DEF Refuse, Proceed, Goto, trueVars, FPositions, Counted
<1>2. fpc'[t] = p
  BY <1>1
<1>3. CASE t \in Producers
  <2>1. /\ eSpc' = [eSpc EXCEPT ![t] = "out"] /\ eCurV' = eCurV
        /\ eVal' = eVal /\ fVal' = fVal /\ fSpc' = fSpc /\ fCurV' = fCurV
        /\ p = "idle" => eSpc[t] = "lost"
        /\ p = "load" => eSpc[t] = "won"
    BY <1>1, <1>3 DEF TakeReturns, TakeResult, Empty!Return, Empty!SGoto, fVars
  <2>2. SemaphoreOK(eVal, eSpc', eCurV') /\ Others(t, eSpc, eSpc') /\ eSpc'[t] = "out"
    BY <2>1 DEF Counted, SemaphoreOK, Others
  <2>3. SemaphoreOK(fVal', fSpc', fCurV') /\ Others(t, fSpc, fSpc') /\ t \notin Consumers /\ fSpc[t] = "out"
    BY <1>1, <1>3, <2>1, FifoAssumption DEF Counted, Others, Places, PlacesIn
  <2>4. PlaceIn(Producers, t, fpc', eSpc') /\ PlaceIn(Consumers, t, fpc', fSpc')
    BY <1>1, <1>2, <1>3, <2>1, <2>2, <2>3 DEF PlaceIn
  <2>5. /\ t \in EmptyHeld <=> t \in Held(Producers, fpc', eSpc')
        /\ t \in FilledHeld <=> t \in Held(Consumers, fpc', fSpc')
    BY <1>1, <1>2, <1>3, <2>1, <2>2, <2>3 DEF EmptyHeld, FilledHeld, Held, Claiming, Owning
  <2> QED
    BY <1>1, <2>1, <2>2, <2>3, <2>4, <2>5, OutsideCounted
<1>4. CASE t \notin Producers
  <2>1. /\ fSpc' = [fSpc EXCEPT ![t] = "out"] /\ fCurV' = fCurV
        /\ fVal' = fVal /\ eVal' = eVal /\ eSpc' = eSpc /\ eCurV' = eCurV
        /\ p = "idle" => fSpc[t] = "lost"
        /\ p = "load" => fSpc[t] = "won"
    BY <1>1, <1>4 DEF TakeReturns, TakeResult, Filled!Return, Filled!SGoto, eVars
  <2>2. SemaphoreOK(fVal, fSpc', fCurV') /\ Others(t, fSpc, fSpc') /\ fSpc'[t] = "out"
    BY <2>1 DEF Counted, SemaphoreOK, Others
  <2>3. SemaphoreOK(eVal', eSpc', eCurV') /\ Others(t, eSpc, eSpc') /\ t \in Consumers /\ eSpc[t] = "out"
    BY <1>1, <1>4, <2>1 DEF Counted, Others, Places, PlacesIn, Threads
  <2>4. PlaceIn(Producers, t, fpc', eSpc') /\ PlaceIn(Consumers, t, fpc', fSpc')
    BY <1>1, <1>2, <1>4, <2>1, <2>2, <2>3 DEF PlaceIn
  <2>5. /\ t \in EmptyHeld <=> t \in Held(Producers, fpc', eSpc')
        /\ t \in FilledHeld <=> t \in Held(Consumers, fpc', fSpc')
    BY <1>1, <1>2, <1>4, <2>1, <2>2, <2>3 DEF EmptyHeld, FilledHeld, Held, Claiming, Owning
  <2> QED
    BY <1>1, <2>1, <2>2, <2>3, <2>4, <2>5, OutsideCounted
<1> QED
  BY <1>3, <1>4

\* A step of do_push or do_pop other than the claim of a position.
LEMMA WorkCounted ==
  ASSUME Counted, NEW t \in Threads,
         LoadIndex(t) \/ CheckSeq(t) \/ ClaimFails(t) \/ Access(t) \/ Finish(t)
  PROVE  Counted'
<1> USE DEF TakeAt, GiveAt, SemAt
<1>1. PICK p \in FPositions :
        /\ fpc' = [fpc EXCEPT ![t] = p] /\ fpc \in [Threads -> FPositions]
        /\ writes' = writes /\ reads' = reads /\ UNCHANGED <<eVars, fVars>>
        /\ p # "take" /\ p # "give" /\ fpc[t] # "take"
        /\ fpc[t] \in Claiming <=> p \in Claiming
        /\ fpc[t] \in Owning <=> p \in Owning
        /\ fpc[t] = "give" => eSpc[t] = "out" /\ fSpc[t] = "out"
  <2>1. CASE CheckSeq(t)
    <3> PICK p : p = IF Expected(t, pos[t]) THEN "cas" ELSE "load"
      OBVIOUS
    <3>1. /\ fpc' = [fpc EXCEPT ![t] = p] /\ fpc[t] = "seq" /\ p \in {"cas", "load"}
          /\ writes' = writes /\ reads' = reads /\ UNCHANGED <<eVars, fVars>>
      BY <2>1 DEF CheckSeq, Goto, trueVars
    <3> QED
      BY <3>1 DEF Counted, FPositions, Claiming, Owning
  <2>2. CASE LoadIndex(t)
    BY <2>2 DEF LoadIndex, See, Goto, trueVars, Counted, FPositions, Claiming, Owning
  <2>3. CASE ClaimFails(t)
    BY <2>3 DEF ClaimFails, See, Goto, trueVars, Counted, FPositions, Claiming, Owning
  <2>4. CASE Access(t)
    BY <2>4 DEF Access, Goto, trueVars, Counted, FPositions, Claiming, Owning
  <2>5. CASE Finish(t)
    BY <2>5 DEF Finish, Goto, trueVars, Counted, FPositions, Claiming, Owning
  <2> QED
    BY <2>1, <2>2, <2>3, <2>4, <2>5
<1>2. fpc'[t] = p
  BY <1>1
<1>3. /\ eVal' = eVal /\ eSpc' = eSpc /\ eCurV' = eCurV
      /\ fVal' = fVal /\ fSpc' = fSpc /\ fCurV' = fCurV
  BY <1>1 DEF eVars, fVars
<1>4. /\ SemaphoreOK(eVal', eSpc', eCurV') /\ Others(t, eSpc, eSpc')
      /\ SemaphoreOK(fVal', fSpc', fCurV') /\ Others(t, fSpc, fSpc')
  BY <1>3 DEF Counted, Others
<1>5. eSpc[t] = "out" /\ fSpc[t] = "out"
  BY <1>1 DEF Counted, Places, PlacesIn
<1>6. PlaceIn(Producers, t, fpc', eSpc') /\ PlaceIn(Consumers, t, fpc', fSpc')
  BY <1>1, <1>2, <1>3, <1>5 DEF PlaceIn
<1>7. /\ t \in EmptyHeld <=> t \in Held(Producers, fpc', eSpc')
      /\ t \in FilledHeld <=> t \in Held(Consumers, fpc', fSpc')
  BY <1>1, <1>2, <1>3, <1>5 DEF EmptyHeld, FilledHeld, Held
<1> QED
  BY <1>1, <1>3, <1>4, <1>6, <1>7, OutsideCounted

\* The thread turns to the post that gives its cell away.
LEMMA PublishCounted ==
  ASSUME Counted, NEW t \in Threads, Publish(t)
  PROVE  Counted'
<1> USE DEF TakeAt, GiveAt, SemAt
<1>1. /\ fpc' = [fpc EXCEPT ![t] = "give"] /\ fpc[t] = "publish" /\ "give" \in FPositions
      /\ writes' = writes /\ reads' = reads /\ fpc \in [Threads -> FPositions]
  BY DEF Publish, Goto, trueVars, FPositions, Counted
<1>2. fpc'[t] = "give" /\ eSpc[t] = "out" /\ fSpc[t] = "out"
  BY <1>1 DEF Counted, Places, PlacesIn
<1>3. CASE t \in Producers
  <2>1. /\ fSpc' = [fSpc EXCEPT ![t] = "post"] /\ fCurV' = [fCurV EXCEPT ![t] = 1]
        /\ fVal' = fVal /\ eVal' = eVal /\ eSpc' = eSpc /\ eCurV' = eCurV /\ t \notin Consumers
    BY <1>3, FifoAssumption DEF Publish, Filled!StartPost, Filled!Start, Filled!SGoto, eVars
  <2>2. SemaphoreOK(fVal, fSpc', fCurV') /\ Others(t, fSpc, fSpc') /\ fSpc'[t] = "post"
    BY <2>1 DEF Counted, SemaphoreOK, Others
  <2>3. SemaphoreOK(eVal', eSpc', eCurV') /\ Others(t, eSpc, eSpc')
    BY <2>1 DEF Counted, Others
  <2>4. PlaceIn(Producers, t, fpc', eSpc') /\ PlaceIn(Consumers, t, fpc', fSpc')
    BY <1>2, <1>3, <2>1, <2>2 DEF PlaceIn
  <2>5. /\ t \in EmptyHeld <=> t \in Held(Producers, fpc', eSpc')
        /\ t \in FilledHeld <=> t \in Held(Consumers, fpc', fSpc')
    BY <1>1, <1>2, <1>3, <2>1, <2>2 DEF EmptyHeld, FilledHeld, Held, Claiming, Owning
  <2> QED
    BY <1>1, <2>1, <2>2, <2>3, <2>4, <2>5, OutsideCounted
<1>4. CASE t \notin Producers
  <2>1. /\ eSpc' = [eSpc EXCEPT ![t] = "post"] /\ eCurV' = [eCurV EXCEPT ![t] = 1]
        /\ eVal' = eVal /\ fVal' = fVal /\ fSpc' = fSpc /\ fCurV' = fCurV /\ t \in Consumers
    BY <1>4 DEF Publish, Empty!StartPost, Empty!Start, Empty!SGoto, fVars, Threads
  <2>2. SemaphoreOK(eVal, eSpc', eCurV') /\ Others(t, eSpc, eSpc') /\ eSpc'[t] = "post"
    BY <2>1 DEF Counted, SemaphoreOK, Others
  <2>3. SemaphoreOK(fVal', fSpc', fCurV') /\ Others(t, fSpc, fSpc')
    BY <2>1 DEF Counted, Others
  <2>4. PlaceIn(Producers, t, fpc', eSpc') /\ PlaceIn(Consumers, t, fpc', fSpc')
    BY <1>2, <1>4, <2>1, <2>2 DEF PlaceIn
  <2>5. /\ t \in EmptyHeld <=> t \in Held(Producers, fpc', eSpc')
        /\ t \in FilledHeld <=> t \in Held(Consumers, fpc', fSpc')
    BY <1>1, <1>2, <1>4, <2>1, <2>2 DEF EmptyHeld, FilledHeld, Held, Claiming, Owning
  <2> QED
    BY <1>1, <2>1, <2>2, <2>3, <2>4, <2>5, OutsideCounted
<1> QED
  BY <1>3, <1>4

\* A claim hands the cell from one kind to the other: a writer's free cell becomes a
\* position of the queue, a reader's position a cell that will be free.
LEMMA ClaimCounted ==
  ASSUME Counted, NEW t \in Threads, Claim(t)
  PROVE  Counted'
<1> USE DEF TakeAt, GiveAt, SemAt
<1>1. /\ fpc' = [fpc EXCEPT ![t] = "data"] /\ fpc[t] = "cas" /\ "data" \in FPositions
      /\ fpc \in [Threads -> FPositions] /\ Others(t, fpc, fpc')
  BY DEF Claim, Goto, FPositions, Counted, Others
<1>2. fpc'[t] = "data" /\ eSpc[t] = "out" /\ fSpc[t] = "out"
  BY <1>1 DEF Counted, Places, PlacesIn
<1>3. /\ eVal' = eVal /\ eSpc' = eSpc /\ eCurV' = eCurV
      /\ fVal' = fVal /\ fSpc' = fSpc /\ fCurV' = fCurV
  BY DEF Claim, eVars, fVars
<1>4. /\ SemaphoreOK(eVal', eSpc', eCurV') /\ Others(t, eSpc, eSpc')
      /\ SemaphoreOK(fVal', fSpc', fCurV') /\ Others(t, fSpc, fSpc')
  BY <1>3 DEF Counted, Others
<1>5. Places'
  BY <1>1, <1>2, <1>3 DEF Counted, Places, PlacesIn, Others
<1> PICK E, F : E = Cardinality(Held(Producers, fpc', eSpc')) /\ F = Cardinality(Held(Consumers, fpc', fSpc'))
  OBVIOUS
<1>6. /\ eVal \in Nat /\ fVal \in Nat /\ writes \in Nat /\ reads \in Nat /\ N \in Nat
      /\ eVal + Cardinality(EmptyHeld) = N - (writes - reads)
      /\ fVal + Cardinality(FilledHeld) = writes - reads
  BY Sizes DEF Counted, SemaphoreOK, Cells
<1>7. CASE t \in Producers
  <2>1. t \notin Consumers
    BY <1>7, FifoAssumption
  <2>2. /\ t \in EmptyHeld /\ t \notin Held(Producers, fpc', eSpc')
        /\ t \notin FilledHeld /\ t \in Held(Consumers, fpc', fSpc')
    BY <1>1, <1>2, <1>3, <1>7, <2>1 DEF EmptyHeld, FilledHeld, Held, Claiming, Owning
  <2>3. E = Cardinality(EmptyHeld) - 1 /\ Cardinality(EmptyHeld) \in Nat
    BY <1>1, <1>4, <2>2, OutsideMovesCells DEF EmptyHeld
  <2>4. F = Cardinality(FilledHeld) + 1 /\ Cardinality(FilledHeld) \in Nat
    BY <1>1, <1>4, <2>2, OutsideMovesCells DEF FilledHeld
  <2> PICK w : w = writes'
    OBVIOUS
  <2>5. w = writes + 1 /\ reads' = reads
    BY <1>7 DEF Claim, Advance
  <2>6. w \in Nat /\ eVal + E = N - (w - reads) /\ fVal + F = w - reads
    BY <1>6, <2>3, <2>4, <2>5
  <2>7. Cells'
    BY <1>3, <2>5, <2>6 DEF Cells, EmptyHeld, FilledHeld
  <2> QED
    BY <1>1, <1>4, <1>5, <1>6, <2>5, <2>6, <2>7 DEF Counted
<1>8. CASE t \notin Producers
  <2>1. t \in Consumers
    BY <1>8 DEF Threads
  <2>2. /\ t \notin EmptyHeld /\ t \in Held(Producers, fpc', eSpc')
        /\ t \in FilledHeld /\ t \notin Held(Consumers, fpc', fSpc')
    BY <1>1, <1>2, <1>3, <1>8, <2>1 DEF EmptyHeld, FilledHeld, Held, Claiming, Owning
  <2>3. E = Cardinality(EmptyHeld) + 1 /\ Cardinality(EmptyHeld) \in Nat
    BY <1>1, <1>4, <2>2, OutsideMovesCells DEF EmptyHeld
  <2>4. F = Cardinality(FilledHeld) - 1 /\ Cardinality(FilledHeld) \in Nat
    BY <1>1, <1>4, <2>2, OutsideMovesCells DEF FilledHeld
  <2> PICK w : w = reads'
    OBVIOUS
  <2>5. w = reads + 1 /\ writes' = writes
    BY <1>8 DEF Claim, Advance
  <2>6. w \in Nat /\ eVal + E = N - (writes - w) /\ fVal + F = writes - w
    BY <1>6, <2>3, <2>4, <2>5
  <2>7. Cells'
    BY <1>3, <2>5, <2>6 DEF Cells, EmptyHeld, FilledHeld
  <2> QED
    BY <1>1, <1>4, <1>5, <1>6, <2>5, <2>6, <2>7 DEF Counted
<1> QED
  BY <1>7, <1>8

\* No step loses a cell.
LEMMA CountedStep ==
  ASSUME Counted, NEW t \in Threads, Step(t)
  PROVE  Counted'
BY CallCounted, SemaphoreCounted, ReturnCounted, WorkCounted, PublishCounted, ClaimCounted
   DEF Step, Working

\* The queue holds no less than nothing and no more than the cells.  A thread with a free
\* cell can add a position, and one with a filled cell finds one.
LEMMA Occupied ==
  ASSUME Counted
  PROVE  /\ reads <= writes /\ writes <= reads + N
         /\ \A t \in EmptyHeld : writes < reads + N
         /\ \A t \in FilledHeld : reads < writes
         /\ \A t, u \in EmptyHeld : t # u => writes < reads + N - 1
<1>1. /\ eVal \in Nat /\ fVal \in Nat /\ writes \in Nat /\ reads \in Nat /\ N \in Nat
      /\ eVal + Cardinality(EmptyHeld) = N - (writes - reads)
      /\ fVal + Cardinality(FilledHeld) = writes - reads
  BY Sizes DEF Counted, SemaphoreOK, Cells
<1>2. EmptyHeld \subseteq Threads /\ FilledHeld \subseteq Threads
  BY DEF EmptyHeld, FilledHeld, Held
<1>3. Cardinality(EmptyHeld) \in Nat /\ Cardinality(FilledHeld) \in Nat
  BY <1>2, FifoAssumption, FS_Subset, FS_CardinalityType
<1>4. /\ \A t \in EmptyHeld : Cardinality(EmptyHeld) >= 1
      /\ \A t \in FilledHeld : Cardinality(FilledHeld) >= 1
      /\ \A t, u \in EmptyHeld : t # u => Cardinality(EmptyHeld) >= 2
  BY <1>2, CountMembers
<1> QED
  BY <1>1, <1>3, <1>4

-----------------------------------------------------------------------------
(* The ring *)

\* The slot of the position a thread is at.
LEMMA Positions ==
  ASSUME Data, Unwrapped, NEW t \in Threads
  PROVE  /\ seen[t] \in Nat /\ pos[t] \in Nat /\ pos[t] = seen[t] % W
         /\ SlotOf(pos[t]) = seen[t] % N /\ SlotOf(pos[t]) \in Slots
         /\ \A k \in Nat : Plus(pos[t], k) = (seen[t] + k) % W /\ Plus(pos[t], k) \in Nat
<1>1. seen[t] \in Nat /\ pos[t] \in Nat /\ pos[t] = seen[t] % W
  BY DEF Data, Unwrapped
<1>2. SlotOf(seen[t] % W) = seen[t] % N /\ seen[t] % N \in Slots
  BY <1>1, SlotUnwrapped
<1>3. ASSUME NEW k \in Nat
      PROVE  Plus(pos[t], k) = (seen[t] + k) % W /\ Plus(pos[t], k) \in Nat
  <2>1. (seen[t] + k) % W \in Nat /\ Plus(seen[t] % W, k) = (seen[t] + k) % W
    BY <1>1, Wrap
  <2> QED
    BY <1>1, <2>1
<1> QED
  BY <1>1, <1>2, <1>3

\* The indices are numbers.
LEMMA Indices ==
  ASSUME Counted, Unwrapped, NEW t \in Threads
  PROVE  /\ Index(t) \in Nat /\ TrueIndex(t) \in Nat /\ Index(t) = TrueIndex(t) % W
         /\ t \in Producers => TrueIndex(t) = writes
         /\ t \notin Producers => TrueIndex(t) = reads /\ t \in Consumers
<1>1. writes \in Nat /\ reads \in Nat /\ writes % W \in Nat /\ reads % W \in Nat
  BY Wrap DEF Counted
<1> QED
  BY <1>1 DEF Index, TrueIndex, Unwrapped, Threads

\* A thread that claims a position has seen the index as it is: it was not lapped.
LEMMA ClaimIsCurrent ==
  ASSUME Counted, Data, Ring, NotLapped, NEW t \in Threads, Claim(t)
  PROVE  seen[t] = TrueIndex(t) /\ Expected(t, pos[t])
<1>1. fpc[t] = "cas" /\ Index(t) = pos[t]
  BY DEF Claim
<1>2. /\ seen[t] \in Nat /\ pos[t] = seen[t] % W /\ seen[t] <= TrueIndex(t)
      /\ TrueIndex(t) \in Nat /\ Index(t) = TrueIndex(t) % W /\ TrueIndex(t) - seen[t] < W
  BY <1>1, Positions, Indices DEF Ring, Unwrapped, NotLapped
<1>3. ASSUME seen[t] < TrueIndex(t) PROVE FALSE
  <2>1. seen[t] \in Int /\ TrueIndex(t) \in Int /\ W \in Nat /\ TrueIndex(t) < seen[t] + W
    BY <1>2, Sizes
  <2>2. seen[t] % W # TrueIndex(t) % W
    BY <1>3, <2>1, Close
  <2> QED
    BY <1>1, <1>2, <2>2
<1>4. seen[t] = TrueIndex(t)
  BY <1>2, <1>3
<1> QED
  BY <1>1, <1>4 DEF Ring, SeenIsTrue

\* Two positions of a window of N have slots of their own.
LEMMA SlotsApart ==
  ASSUME NEW x \in Nat, NEW y \in Nat, x # y, x < y + N, y < x + N
  PROVE  x % N # y % N
<1>1. x \in Int /\ y \in Int /\ N \in Nat
  BY Sizes
<1>2. CASE x < y
  BY <1>1, <1>2, Close
<1>3. CASE y < x
  BY <1>1, <1>3, Close
<1> QED
  BY <1>2, <1>3

\* The positions of the threads that own one lie between writes - N and writes.
LEMMA OwnersWindow ==
  ASSUME Counted, Data, Ring
  PROVE  /\ \A t \in Threads : fpc[t] \in Owning => seen[t] < writes /\ writes <= seen[t] + N
         /\ \A t, u \in Threads : t # u /\ fpc[t] \in Owning /\ fpc[u] \in Owning =>
              SlotOf(pos[t]) # SlotOf(pos[u])
<1>1. reads <= writes /\ writes <= reads + N /\ reads \in Nat /\ writes \in Nat /\ N \in Nat
  BY Occupied, Sizes DEF Counted
<1>2. ASSUME NEW t \in Threads, fpc[t] \in Owning
      PROVE  seen[t] \in Nat /\ seen[t] < writes /\ writes <= seen[t] + N
  <2>1. t \in Writers \/ t \in Readers
    BY <1>2 DEF Writers, Readers, Threads
  <2>2. seen[t] \in Nat
    BY DEF Data
  <2>3. CASE t \in Writers
    <3>1. reads <= seen[t] /\ seen[t] < writes
      BY <2>3 DEF Ring, Owners
    <3> QED
      BY <1>1, <2>2, <3>1
  <2>4. CASE t \in Readers
    <3>1. seen[t] < reads /\ writes <= seen[t] + N
      BY <2>4 DEF Ring, Owners
    <3> QED
      BY <1>1, <2>2, <3>1
  <2> QED
    BY <2>1, <2>3, <2>4
<1>3. ASSUME NEW t \in Threads, NEW u \in Threads, t # u, fpc[t] \in Owning, fpc[u] \in Owning
      PROVE  SlotOf(pos[t]) # SlotOf(pos[u])
  <2>1. seen[t] # seen[u]
    BY <1>3 DEF Ring, Owners
  <2>2. /\ seen[t] \in Nat /\ seen[t] < writes /\ writes <= seen[t] + N
        /\ seen[u] \in Nat /\ seen[u] < writes /\ writes <= seen[u] + N
    BY <1>2, <1>3
  <2>3. seen[t] < seen[u] + N /\ seen[u] < seen[t] + N
    BY <1>1, <2>2
  <2>4. seen[t] % N # seen[u] % N
    BY <2>1, <2>2, <2>3, SlotsApart
  <2>5. SlotOf(pos[t]) = seen[t] % N /\ SlotOf(pos[u]) = seen[u] % N
    BY Positions DEF Ring
  <2> QED
    BY <2>4, <2>5
<1> QED
  BY <1>2, <1>3

\* A step that only changes where a thread is and what it has seen.
LEMMA ViewKeepsRing ==
  ASSUME Counted, Data, Ring, NEW t \in Threads,
         UNCHANGED <<ringVars, writes, reads>>,
         Others(t, fpc, fpc'), Others(t, pos, pos'), Others(t, seen, seen'),
         fpc[t] \notin Owning, fpc'[t] \notin Owning,
         pos'[t] = seen'[t] % W, seen'[t] <= TrueIndex(t),
         fpc'[t] = "cas" /\ seen'[t] = TrueIndex(t) => Expected(t, pos'[t])
  PROVE  Ring'
<1>1. /\ seq' = seq /\ elems' = elems /\ writeIdx' = writeIdx /\ readIdx' = readIdx
      /\ writes' = writes /\ reads' = reads
  BY DEF ringVars
<1>2. /\ \A x \in Threads : TrueIndex(x)' = TrueIndex(x)
      /\ \A x \in Threads : \A p : Expected(x, p)' = Expected(x, p)
  BY <1>1 DEF TrueIndex, Expected
<1>3. Unwrapped'
  BY <1>1, <1>2 DEF Ring, Unwrapped, Others
<1>4. SeenIsTrue'
  <2> SUFFICES ASSUME NEW x \in Threads, fpc'[x] = "cas", seen'[x] = TrueIndex(x)
               PROVE  Expected(x, pos'[x])
    BY <1>2 DEF SeenIsTrue
  <2>1. CASE x = t
    BY <2>1
  <2>2. CASE x # t
    BY <2>2 DEF Ring, SeenIsTrue, Others
  <2> QED
    BY <2>1, <2>2
<1>5. \A x \in Threads : fpc[x] \in Owning \/ fpc'[x] \in Owning =>
        x # t /\ fpc'[x] = fpc[x] /\ pos'[x] = pos[x] /\ seen'[x] = seen[x]
  BY DEF Others
<1>6. Writers' = Writers /\ Readers' = Readers
  BY <1>5 DEF Writers, Readers, Threads
<1>7. /\ \A x \in Writers : x \in Threads /\ pos'[x] = pos[x] /\ seen'[x] = seen[x] /\ fpc'[x] = fpc[x]
      /\ \A x \in Readers : x \in Threads /\ pos'[x] = pos[x] /\ seen'[x] = seen[x]
  BY <1>5 DEF Writers, Readers, Threads
<1>8. Owners'
  BY <1>1, <1>5, <1>6, <1>7 DEF Ring, Owners, SlotOf, Plus
<1>9. Written'
  BY <1>1, <1>6, <1>7 DEF Ring, Written
<1> QED
  BY <1>3, <1>4, <1>8, <1>9 DEF Ring

\* The steps that leave the ring as it is.
LEMMA QuietRing ==
  ASSUME Counted, Data, Ring, NEW t \in Threads,
         Call(t) \/ SemaphoreStep(t) \/ Refuse(t) \/ Proceed(t) \/ LoadIndex(t) \/ CheckSeq(t)
           \/ ClaimFails(t) \/ Finish(t)
  PROVE  Ring'
<1>1. /\ fpc \in [Threads -> FPositions] /\ pos \in [Threads -> Nat] /\ seen \in [Threads -> Nat]
      /\ pos[t] = seen[t] % W /\ seen[t] <= TrueIndex(t)
      /\ Index(t) = TrueIndex(t) % W /\ TrueIndex(t) \in Nat
  BY Indices DEF Counted, Data, Ring, Unwrapped
<1>2. CASE Call(t) \/ Refuse(t) \/ Proceed(t) \/ Finish(t)
  <2>1. PICK p \in FPositions : fpc' = [fpc EXCEPT ![t] = p] /\ p \notin Owning /\ p # "cas"
                                /\ fpc[t] \notin Owning
    <3>1. \/ fpc' = [fpc EXCEPT ![t] = "take"]
          \/ fpc' = [fpc EXCEPT ![t] = "idle"]
          \/ fpc' = [fpc EXCEPT ![t] = "load"]
      BY <1>2 DEF Call, Refuse, Proceed, Finish, Goto
    <3>2. fpc[t] \in {"idle", "take", "give"}
      BY <1>2 DEF Call, Refuse, Proceed, Finish
    <3>3. "take" \in FPositions /\ "idle" \in FPositions /\ "load" \in FPositions
      BY DEF FPositions
    <3>4. fpc[t] \notin Owning /\ "take" \notin Owning /\ "idle" \notin Owning /\ "load" \notin Owning
      BY <3>2 DEF Owning
    <3> QED
      BY <3>1, <3>3, <3>4
  <2>2. UNCHANGED <<ringVars, writes, reads>> /\ pos' = pos /\ seen' = seen
    BY <1>2 DEF Call, Refuse, Proceed, Finish, callVars, trueVars
  <2>3. fpc'[t] = p /\ Others(t, fpc, fpc') /\ Others(t, pos, pos') /\ Others(t, seen, seen')
    BY <1>1, <2>1, <2>2 DEF Others
  <2> QED
    BY <1>1, <2>1, <2>2, <2>3, ViewKeepsRing
<1>3. CASE SemaphoreStep(t)
  <2>1. UNCHANGED <<ringVars, writes, reads>> /\ pos' = pos /\ seen' = seen /\ fpc' = fpc
        /\ fpc[t] \in {"take", "give"}
    BY <1>3 DEF SemaphoreStep, callVars, trueVars
  <2>2. Others(t, fpc, fpc') /\ Others(t, pos, pos') /\ Others(t, seen, seen')
        /\ fpc[t] \notin Owning /\ fpc[t] # "cas"
    BY <2>1 DEF Others, Owning
  <2> QED
    BY <1>1, <2>1, <2>2, ViewKeepsRing
<1>4. CASE CheckSeq(t)
  <2>1. PICK p : /\ fpc' = [fpc EXCEPT ![t] = p] /\ p \in {"cas", "load"} /\ fpc[t] = "seq"
                 /\ p = "cas" => Expected(t, pos[t])
    <3>1. fpc[t] = "seq" /\ fpc' = [fpc EXCEPT ![t] = IF Expected(t, pos[t]) THEN "cas" ELSE "load"]
      BY <1>4 DEF CheckSeq, Goto
    <3>2. \/ Expected(t, pos[t]) /\ fpc' = [fpc EXCEPT ![t] = "cas"]
          \/ fpc' = [fpc EXCEPT ![t] = "load"]
      BY <3>1
    <3> QED
      BY <3>1, <3>2
  <2>2. UNCHANGED <<ringVars, writes, reads>> /\ pos' = pos /\ seen' = seen
    BY <1>4 DEF CheckSeq, callVars, trueVars
  <2>3. fpc'[t] = p /\ Others(t, fpc, fpc') /\ Others(t, pos, pos') /\ Others(t, seen, seen')
        /\ fpc[t] \notin Owning /\ fpc'[t] \notin Owning
    BY <1>1, <2>1, <2>2 DEF Others, Owning
  <2> QED
    BY <1>1, <2>1, <2>2, <2>3, ViewKeepsRing
<1>5. CASE LoadIndex(t) \/ ClaimFails(t)
  <2>1. UNCHANGED <<ringVars, writes, reads>> /\ fpc' = [fpc EXCEPT ![t] = "seq"]
        /\ pos' = [pos EXCEPT ![t] = Index(t)] /\ seen' = [seen EXCEPT ![t] = TrueIndex(t)]
        /\ fpc[t] \notin Owning
    BY <1>5 DEF LoadIndex, ClaimFails, See, Goto, Owning
  <2>2. fpc'[t] = "seq" /\ pos'[t] = Index(t) /\ seen'[t] = TrueIndex(t)
        /\ Others(t, fpc, fpc') /\ Others(t, pos, pos') /\ Others(t, seen, seen')
    BY <1>1, <2>1 DEF Others
  <2>3. fpc'[t] \notin Owning /\ fpc'[t] # "cas" /\ seen'[t] <= TrueIndex(t)
        /\ pos'[t] = seen'[t] % W
    BY <1>1, <2>2 DEF Owning
  <2> QED
    BY <2>1, <2>2, <2>3, ViewKeepsRing
<1> QED
  BY <1>2, <1>3, <1>4, <1>5

\* A writer claims the next position: its slot is free, and it becomes its own.
LEMMA WriterClaims ==
  ASSUME Counted, Data, Ring, NotLapped, NEW t \in Producers, Claim(t)
  PROVE  Ring'
<1>1. /\ t \in Threads /\ t \notin Consumers /\ fpc \in [Threads -> FPositions]
      /\ fpc[t] = "cas" /\ fpc' = [fpc EXCEPT ![t] = "data"]
      /\ seq' = seq /\ elems' = elems /\ pos' = pos /\ seen' = seen
      /\ readIdx' = readIdx /\ reads' = reads
      /\ writeIdx' = Plus(pos[t], 1)
  BY FifoAssumption DEF Claim, Advance, Goto, callVars, Counted, Threads
<1> PICK w : w = writes'
  OBVIOUS
<1>2. w = writes + 1
  BY DEF Claim, Advance
<1>3. /\ seen[t] = writes /\ Expected(t, pos[t]) /\ t \in EmptyHeld
      /\ writes \in Nat /\ reads \in Nat /\ N \in Nat /\ N > 0 /\ W \in Nat /\ W > 1 /\ N < W
  BY <1>1, ClaimIsCurrent, Indices, Sizes DEF Ring, EmptyHeld, Held, Claiming, Counted
<1>4. reads <= writes /\ writes < reads + N /\ \A u \in EmptyHeld : t # u => writes < reads + N - 1
  BY <1>3, Occupied
<1>5. seq[SlotOf(pos[t])] = pos[t] /\ pos[t] = writes % W /\ SlotOf(pos[t]) = writes % N
      /\ Plus(pos[t], 1) = (writes + 1) % W
  <2>1. \A k \in Nat : Plus(pos[t], k) = (seen[t] + k) % W
    BY <1>1, Positions DEF Ring
  <2> QED
    BY <1>1, <1>3, <2>1, Positions DEF Ring, Expected
<1>6. /\ fpc'[t] = "data" /\ \A u \in Threads : u # t => fpc'[u] = fpc[u]
      /\ \A u \in Threads : u \in Writers' <=> u \in Writers \/ u = t
      /\ Writers' = Writers \cup {t} /\ Readers' = Readers
  <2>1. fpc'[t] = "data" /\ \A u \in Threads : u # t => fpc'[u] = fpc[u]
    BY <1>1
  <2> QED
    BY <1>1, <2>1 DEF Writers, Readers, Threads, Owning
<1>7. \A u \in Threads : seen[u] \in Nat /\ seen[u] <= TrueIndex(u) /\ pos[u] = seen[u] % W
  BY DEF Ring, Unwrapped, Data
<1>8. ASSUME NEW u \in Readers PROVE w <= seen[u] + N
  <2>1. /\ u \in Threads /\ fpc[u] \in Owning /\ u # t /\ seen[u] \in Nat
        /\ writes <= seen[u] + N /\ seq[SlotOf(pos[u])] = Plus(pos[u], 1)
        /\ u \in EmptyHeld /\ seen[u] < reads
    BY <1>1, <1>7, FifoAssumption DEF Ring, Owners, Readers, EmptyHeld, Held, Threads
  <2>2. writes < reads + N - 1
    BY <1>4, <2>1
  <2>3. CASE writes = seen[u] + N
    <3>1. writes % N = seen[u] % N
      <4>1. seen[u] \in Int /\ 1 \in Int /\ writes = seen[u] + 1 * N
        BY <1>3, <2>1, <2>3
      <4>2. (seen[u] + 1 * N) % N = seen[u] % N
        BY <1>3, <4>1, Shift
      <4> QED
        BY <4>1, <4>2
    <3>2. SlotOf(pos[u]) = SlotOf(pos[t])
      BY <1>5, <2>1, <3>1, Positions DEF Ring
    <3>3. writes % W = (seen[u] + 1) % W
      <4>1. \A k \in Nat : Plus(pos[u], k) = (seen[u] + k) % W
        BY <2>1, Positions DEF Ring
      <4> QED
        BY <1>5, <2>1, <3>2, <4>1
    <3>4. CASE N > 1
      <4>1. seen[u] + 1 \in Int /\ writes \in Int /\ seen[u] + 1 < writes /\ writes < (seen[u] + 1) + W
        BY <1>3, <2>1, <2>3, <3>4
      <4>2. (seen[u] + 1) % W # writes % W
        BY <1>3, <4>1, Close
      <4> QED
        BY <3>3, <4>2
    <3>5. CASE N = 1
      BY <1>3, <1>4, <2>2, <3>5
    <3> QED
      BY <1>3, <3>4, <3>5
  <2> QED
    BY <1>2, <1>3, <2>1, <2>3
<1>9. Unwrapped'
  <2>1. \A u \in Threads : TrueIndex(u)' = IF u \in Producers THEN w ELSE reads
    BY <1>1 DEF TrueIndex
  <2>2. \A u \in Threads : seen'[u] <= TrueIndex(u)'
    BY <1>1, <1>2, <1>3, <1>7, <2>1 DEF TrueIndex
  <2>3. writeIdx' = w % W
    BY <1>1, <1>2, <1>5
  <2> QED
    BY <1>1, <1>7, <2>2, <2>3 DEF Ring, Unwrapped
<1>10. SeenIsTrue'
  <2> SUFFICES ASSUME NEW u \in Threads, fpc'[u] = "cas", seen[u] = TrueIndex(u)'
               PROVE  Expected(u, pos[u])'
    BY <1>1 DEF SeenIsTrue
  <2>1. u # t /\ fpc[u] = "cas"
    BY <1>6
  <2>2. u \notin Producers
    <3> SUFFICES ASSUME u \in Producers PROVE FALSE
      OBVIOUS
    <3>1. seen[u] = w /\ seen[u] <= writes
      BY <1>7 DEF TrueIndex
    <3> QED
      BY <1>2, <1>3, <3>1
  <2>3. seen[u] = TrueIndex(u)
    BY <1>1, <2>2 DEF TrueIndex
  <2> QED
    BY <1>1, <2>1, <2>3 DEF Ring, SeenIsTrue, Expected
<1>11. Owners'
  <2>1. /\ reads <= seen[t] /\ seen[t] < w /\ seq[SlotOf(pos[t])] = pos[t] /\ fpc'[t] # "publish"
    BY <1>2, <1>3, <1>4, <1>5, <1>6
  <2>2. \A u \in Writers : /\ reads <= seen[u] /\ seen[u] < w /\ seq[SlotOf(pos[u])] = pos[u]
                           /\ fpc'[u] = "publish" => elems[SlotOf(pos[u])] # Uninit
    <3> TAKE u \in Writers
    <3>1. /\ reads <= seen[u] /\ seen[u] < writes /\ seq[SlotOf(pos[u])] = pos[u] /\ u \in Threads
          /\ fpc[u] = "publish" => elems[SlotOf(pos[u])] # Uninit
      BY DEF Ring, Owners, Writers, Threads
    <3>2. seen[u] < w
      BY <1>2, <1>3, <1>7, <3>1
    <3> QED
      BY <1>6, <3>1, <3>2
  <2>3. \A u \in Readers : /\ seen[u] < reads /\ w <= seen[u] + N
                           /\ seq[SlotOf(pos[u])] = Plus(pos[u], 1)
                           /\ elems[SlotOf(pos[u])] # Uninit
    BY <1>8 DEF Ring, Owners
  <2>4. ASSUME NEW u \in Threads, NEW x \in Threads, u # x, fpc'[u] \in Owning, fpc'[x] \in Owning
        PROVE  seen[u] # seen[x]
    <3>1. ASSUME NEW y \in Threads, y # t, fpc[y] \in Owning PROVE seen[y] < writes
      BY <3>1, OwnersWindow
    <3>2. CASE u # t /\ x # t
      BY <1>6, <2>4, <3>2 DEF Ring, Owners
    <3>3. CASE u = t
      BY <1>3, <1>6, <2>4, <3>1, <3>3
    <3>4. CASE x = t
      BY <1>3, <1>6, <1>7, <2>4, <3>1, <3>4
    <3> QED
      BY <3>2, <3>3, <3>4
  <2>5. \A u \in Writers' : /\ reads <= seen[u] /\ seen[u] < w /\ seq[SlotOf(pos[u])] = pos[u]
                            /\ fpc'[u] = "publish" => elems[SlotOf(pos[u])] # Uninit
    BY <1>6, <2>1, <2>2
  <2> QED
    BY <1>1, <1>6, <2>3, <2>4, <2>5 DEF Owners, SlotOf, Plus
<1>12. Written'
  <2> SUFFICES ASSUME NEW p \in Int, reads <= p, p <= w - 1
               PROVE  (\E u \in Writers' : seen[u] = p) \/ elems[p % N] # Uninit
    BY <1>1, <1>2, <1>3 DEF Written
  <2>1. CASE p = writes
    BY <1>3, <1>6, <2>1
  <2>2. CASE p # writes
    <3>1. p \in reads .. writes - 1
      BY <1>2, <1>3, <2>2
    <3>2. (\E u \in Writers : seen[u] = p) \/ elems[p % N] # Uninit
      BY <3>1 DEF Ring, Written
    <3> QED
      BY <1>6, <3>2
  <2> QED
    BY <2>1, <2>2
<1> QED
  BY <1>9, <1>10, <1>11, <1>12 DEF Ring

\* A reader claims the oldest position: it has been written.
LEMMA OldestIsWritten ==
  ASSUME Counted, Data, Ring, NotLapped, NEW t \in Consumers, Claim(t)
  PROVE  /\ seen[t] = reads /\ reads < writes /\ writes <= reads + N
         /\ seq[SlotOf(pos[t])] = Plus(pos[t], 1)
         /\ elems[SlotOf(pos[t])] # Uninit
         /\ \A u \in Writers : seen[u] # reads
<1>1. t \in Threads /\ t \notin Producers /\ fpc[t] = "cas"
  BY FifoAssumption DEF Claim, Threads
<1>2. /\ seen[t] = reads /\ Expected(t, pos[t]) /\ t \in FilledHeld
      /\ writes \in Nat /\ reads \in Nat /\ W \in Nat /\ W > 1
  BY <1>1, ClaimIsCurrent, Indices, Sizes DEF Ring, FilledHeld, Held, Claiming, Counted
<1>3. reads < writes /\ writes <= reads + N
  BY <1>2, Occupied
<1>4. seq[SlotOf(pos[t])] = Plus(pos[t], 1)
  BY <1>1, <1>2 DEF Expected
<1>5. SlotOf(pos[t]) = reads % N /\ Plus(pos[t], 1) = (reads + 1) % W
  <2>1. \A k \in Nat : Plus(pos[t], k) = (seen[t] + k) % W
    BY <1>1, Positions DEF Ring
  <2> QED
    BY <1>1, <1>2, <2>1, Positions DEF Ring
<1>6. ASSUME NEW u \in Writers, seen[u] = reads PROVE FALSE
  <2>1. u \in Threads /\ seq[SlotOf(pos[u])] = pos[u]
    BY DEF Ring, Owners, Writers, Threads
  <2>2. pos[u] = reads % W /\ SlotOf(pos[u]) = reads % N
    BY <1>6, <2>1, Positions DEF Ring
  <2>3. reads \in Int /\ reads + 1 \in Int /\ reads < reads + 1 /\ reads + 1 < reads + W
    BY <1>2
  <2>4. reads % W # (reads + 1) % W
    BY <1>2, <2>3, Close
  <2> QED
    BY <1>4, <1>5, <2>1, <2>2, <2>4
<1>7. reads \in reads .. writes - 1
  BY <1>2, <1>3
<1>8. elems[reads % N] # Uninit
  BY <1>6, <1>7 DEF Ring, Written
<1> QED
  BY <1>2, <1>3, <1>4, <1>5, <1>6, <1>8

\* A reader claims the oldest position, which leaves the queue.
LEMMA ReaderClaims ==
  ASSUME Counted, Data, Ring, NotLapped, NEW t \in Consumers, Claim(t)
  PROVE  Ring'
<1>1. /\ t \in Threads /\ t \notin Producers /\ fpc \in [Threads -> FPositions]
      /\ fpc[t] = "cas" /\ fpc' = [fpc EXCEPT ![t] = "data"]
      /\ seq' = seq /\ elems' = elems /\ pos' = pos /\ seen' = seen
      /\ writeIdx' = writeIdx /\ writes' = writes
      /\ readIdx' = Plus(pos[t], 1)
  BY FifoAssumption DEF Claim, Advance, Goto, callVars, Counted, Threads
<1> PICK r : r = reads'
  OBVIOUS
<1>2. r = reads + 1
  BY <1>1 DEF Claim, Advance
<1>3. /\ seen[t] = reads /\ reads < writes /\ writes <= reads + N
      /\ seq[SlotOf(pos[t])] = Plus(pos[t], 1) /\ elems[SlotOf(pos[t])] # Uninit
      /\ \A u \in Writers : seen[u] # reads
  BY OldestIsWritten
<1>4. writes \in Nat /\ reads \in Nat
  BY DEF Counted
<1>5. Plus(pos[t], 1) = (reads + 1) % W
  <2>1. \A k \in Nat : Plus(pos[t], k) = (seen[t] + k) % W
    BY <1>1, Positions DEF Ring
  <2> QED
    BY <1>3, <2>1
<1>6. /\ fpc'[t] = "data" /\ \A u \in Threads : u # t => fpc'[u] = fpc[u]
      /\ Readers' = Readers \cup {t} /\ Writers' = Writers
  <2>1. fpc'[t] = "data" /\ \A u \in Threads : u # t => fpc'[u] = fpc[u]
    BY <1>1
  <2> QED
    BY <1>1, <2>1 DEF Writers, Readers, Threads, Owning
<1>7. \A u \in Threads : seen[u] \in Nat /\ seen[u] <= TrueIndex(u) /\ pos[u] = seen[u] % W
  BY DEF Ring, Unwrapped, Data
<1>8. Unwrapped'
  <2>1. \A u \in Threads : TrueIndex(u)' = IF u \in Producers THEN writes ELSE r
    BY <1>1 DEF TrueIndex
  <2>2. \A u \in Threads : seen'[u] <= TrueIndex(u)'
    BY <1>1, <1>2, <1>4, <1>7, <2>1 DEF TrueIndex
  <2>3. readIdx' = r % W
    BY <1>1, <1>2, <1>5
  <2> QED
    BY <1>1, <1>7, <2>2, <2>3 DEF Ring, Unwrapped
<1>9. SeenIsTrue'
  <2> SUFFICES ASSUME NEW u \in Threads, fpc'[u] = "cas", seen[u] = TrueIndex(u)'
               PROVE  Expected(u, pos[u])'
    BY <1>1 DEF SeenIsTrue
  <2>1. u # t /\ fpc[u] = "cas"
    BY <1>6
  <2>2. u \in Producers
    <3> SUFFICES ASSUME u \notin Producers PROVE FALSE
      OBVIOUS
    <3>1. seen[u] = r /\ seen[u] <= reads
      BY <1>7 DEF TrueIndex
    <3> QED
      BY <1>2, <1>4, <3>1
  <2>3. seen[u] = TrueIndex(u)
    BY <1>1, <2>2 DEF TrueIndex
  <2> QED
    BY <1>1, <2>1, <2>3 DEF Ring, SeenIsTrue, Expected
<1>10. Owners'
  <2>1. seen[t] < r /\ writes <= seen[t] + N
    BY <1>2, <1>3, <1>4
  <2>2. \A u \in Writers : /\ r <= seen[u] /\ seen[u] < writes /\ seq[SlotOf(pos[u])] = pos[u]
                           /\ fpc'[u] = "publish" => elems[SlotOf(pos[u])] # Uninit
    <3> TAKE u \in Writers
    <3>1. /\ reads <= seen[u] /\ seen[u] < writes /\ seq[SlotOf(pos[u])] = pos[u] /\ u \in Threads
          /\ fpc[u] = "publish" => elems[SlotOf(pos[u])] # Uninit
      BY DEF Ring, Owners, Writers, Threads
    <3>2. r <= seen[u]
      BY <1>2, <1>3, <1>4, <1>7, <3>1
    <3> QED
      BY <1>6, <3>1, <3>2
  <2>3. \A u \in Readers : /\ seen[u] < r /\ writes <= seen[u] + N
                           /\ seq[SlotOf(pos[u])] = Plus(pos[u], 1)
                           /\ elems[SlotOf(pos[u])] # Uninit
    <3> TAKE u \in Readers
    <3>1. /\ seen[u] < reads /\ writes <= seen[u] + N /\ seq[SlotOf(pos[u])] = Plus(pos[u], 1)
          /\ elems[SlotOf(pos[u])] # Uninit /\ seen[u] \in Nat
      BY <1>7 DEF Ring, Owners, Readers, Threads
    <3>2. seen[u] < r
      BY <1>2, <1>4, <3>1
    <3> QED
      BY <3>1, <3>2
  <2>4. ASSUME NEW u \in Threads, u # t, fpc[u] \in Owning PROVE seen[u] # seen[t]
    <3>1. u \in Writers \/ u \in Readers
      BY <2>4 DEF Writers, Readers, Threads
    <3>2. CASE u \in Writers
      BY <1>3, <3>2
    <3>3. CASE u \in Readers
      <4>1. seen[u] < reads /\ seen[u] \in Nat
        BY <1>7, <3>3 DEF Ring, Owners
      <4> QED
        BY <1>3, <1>4, <4>1
    <3> QED
      BY <3>1, <3>2, <3>3
  <2>5. \A u, x \in Threads : u # x /\ fpc'[u] \in Owning /\ fpc'[x] \in Owning => seen[u] # seen[x]
    <3> SUFFICES ASSUME NEW u \in Threads, NEW x \in Threads, u # x, fpc'[u] \in Owning, fpc'[x] \in Owning
                 PROVE  seen[u] # seen[x]
      OBVIOUS
    <3>1. CASE u # t /\ x # t
      BY <1>6, <3>1 DEF Ring, Owners
    <3>2. CASE u = t
      BY <1>6, <2>4, <3>2
    <3>3. CASE x = t
      BY <1>6, <2>4, <3>3
    <3> QED
      BY <3>1, <3>2, <3>3
  <2>6. \A u \in Readers' : /\ seen[u] < r /\ writes <= seen[u] + N
                            /\ seq[SlotOf(pos[u])] = Plus(pos[u], 1)
                            /\ elems[SlotOf(pos[u])] # Uninit
    BY <1>3, <1>6, <2>1, <2>3
  <2> QED
    BY <1>1, <1>6, <2>2, <2>5, <2>6 DEF Owners, SlotOf, Plus
<1>11. Written'
  <2> SUFFICES ASSUME NEW p \in Int, r <= p, p <= writes - 1
               PROVE  (\E u \in Writers : seen[u] = p) \/ elems[p % N] # Uninit
    BY <1>1, <1>2, <1>4, <1>6 DEF Written
  <2>1. p \in reads .. writes - 1
    BY <1>2, <1>4
  <2> QED
    BY <2>1 DEF Ring, Written
<1> QED
  BY <1>8, <1>9, <1>10, <1>11 DEF Ring

\* The value of a call is one of the values that are pushed.
LEMMA ItemIsValue ==
  ASSUME CallsLeft, NEW t \in Producers, fpc[t] # "idle"
  PROVE  Item(t) \in Values /\ Item(t) # Uninit
<1>1. t \in Threads
  BY DEF Threads
<1>2. PICK load \in Loads : left \in [Threads -> Nat] /\ left[t] <= load[t] /\ left[t] > 0
  BY <1>1 DEF CallsLeft
<1>3. load \in [Threads -> Nat]
  BY FifoAssumption
<1>4. left[t] \in 1 .. load[t]
  BY <1>1, <1>2, <1>3
<1>5. <<t, left[t]>> \in {t} \X (1 .. load[t])
  BY <1>4
<1>6. <<t, left[t]>> \in Values
  <2> DEFINE S == {{u} \X (1 .. l[u]) : l \in Loads, u \in Producers}
  <2>1. {t} \X (1 .. load[t]) \in S
    OBVIOUS
  <2>2. Values = UNION S
    BY DEF Values
  <2> HIDE DEF S
  <2>3. <<t, left[t]>> \in UNION S
    BY <1>5, <2>1
  <2> QED
    BY <2>2, <2>3
<1> QED
  BY <1>6, FifoAssumption DEF Item

\* The value is written to the thread's own slot, or read from it.
LEMMA AccessKeepsRing ==
  ASSUME Counted, Data, CallsLeft, Ring, NEW t \in Threads, Access(t)
  PROVE  Ring'
<1>1. /\ fpc \in [Threads -> FPositions] /\ fpc[t] = "data" /\ fpc' = [fpc EXCEPT ![t] = "publish"]
      /\ seq' = seq /\ writeIdx' = writeIdx /\ readIdx' = readIdx /\ pos' = pos
      /\ writes' = writes /\ reads' = reads /\ seen' = seen
  BY DEF Access, Goto, trueVars, Counted
<1>2. /\ fpc'[t] = "publish" /\ \A u \in Threads : u # t => fpc'[u] = fpc[u]
      /\ Writers' = Writers /\ Readers' = Readers
  <2>1. fpc'[t] = "publish" /\ \A u \in Threads : u # t => fpc'[u] = fpc[u]
    BY <1>1
  <2> QED
    BY <1>1, <2>1 DEF Writers, Readers, Threads, Owning
<1>3. /\ \A s \in Slots : elems[s] # Uninit => elems'[s] # Uninit
      /\ t \in Producers => elems'[SlotOf(pos[t])] # Uninit
  <2>1. SlotOf(pos[t]) \in Slots /\ elems \in [Slots -> Values \cup {Uninit}]
    BY Positions DEF Ring, Data
  <2>2. CASE t \in Producers
    <3>1. elems' = [elems EXCEPT ![SlotOf(pos[t])] = Item(t)]
      BY <2>2 DEF Access
    <3>2. Item(t) # Uninit
      BY <1>1, <2>2, ItemIsValue
    <3> QED
      BY <2>1, <3>1, <3>2
  <2>3. CASE t \notin Producers
    BY <2>3 DEF Access
  <2> QED
    BY <2>2, <2>3
<1>4. Unwrapped'
  BY <1>1 DEF Ring, Unwrapped, TrueIndex
<1>5. SeenIsTrue'
  BY <1>1, <1>2 DEF Ring, SeenIsTrue, TrueIndex, Expected, SlotOf, Plus
<1>6. Owners'
  <2>1. \A u \in Threads : SlotOf(pos[u]) \in Slots
    BY Positions DEF Ring
  <2>2. \A u \in Writers : /\ reads <= seen[u] /\ seen[u] < writes
                           /\ seq[SlotOf(pos[u])] = pos[u]
                           /\ fpc'[u] = "publish" => elems'[SlotOf(pos[u])] # Uninit
    BY <1>2, <1>3, <2>1 DEF Ring, Owners, Writers, Threads
  <2>3. \A u \in Readers : /\ seen[u] < reads /\ writes <= seen[u] + N
                           /\ seq[SlotOf(pos[u])] = Plus(pos[u], 1)
                           /\ elems'[SlotOf(pos[u])] # Uninit
    BY <1>3, <2>1 DEF Ring, Owners, Readers, Threads
  <2>4. \A u, x \in Threads : u # x /\ fpc'[u] \in Owning /\ fpc'[x] \in Owning => seen[u] # seen[x]
    <3>1. \A u \in Threads : fpc'[u] \in Owning <=> fpc[u] \in Owning
      BY <1>1, <1>2 DEF Owning
    <3> QED
      BY <3>1 DEF Ring, Owners
  <2> QED
    BY <1>1, <1>2, <2>2, <2>3, <2>4 DEF Owners, SlotOf, Plus
<1>7. Written'
  <2> SUFFICES ASSUME NEW p \in reads .. writes - 1
               PROVE  (\E u \in Writers : seen[u] = p) \/ elems'[p % N] # Uninit
    BY <1>1, <1>2 DEF Written
  <2>1. p \in Nat
    BY DEF Counted
  <2>2. p % N \in Slots
    BY <2>1, SlotUnwrapped
  <2> QED
    BY <1>3, <2>2 DEF Ring, Written
<1> QED
  BY <1>4, <1>5, <1>6, <1>7 DEF Ring

\* A slot whose number is published is that of one thread's position.  A thread that has
\* seen the index as it is and waits for this very slot finds what it expects.
LEMMA PublishIsExpected ==
  ASSUME Counted, Data, Ring, NEW t \in Threads, fpc[t] \in Owning,
         NEW u \in Threads, fpc[u] = "cas", seen[u] = TrueIndex(u), SlotOf(pos[u]) = SlotOf(pos[t])
  PROVE  Plus(pos[t], IF t \in Producers THEN 1 ELSE N) = IF u \in Producers THEN pos[u] ELSE Plus(pos[u], 1)
<1>1. /\ seen[t] \in Nat /\ seen[u] \in Nat /\ writes \in Nat /\ reads \in Nat
      /\ N \in Nat /\ N > 0 /\ pos[u] = seen[u] % W
      /\ SlotOf(pos[t]) = seen[t] % N /\ SlotOf(pos[u]) = seen[u] % N
  BY Positions, Sizes DEF Ring, Counted
<1>2. /\ \A k \in Nat : Plus(pos[t], k) = (seen[t] + k) % W
      /\ \A k \in Nat : Plus(pos[u], k) = (seen[u] + k) % W
  BY Positions DEF Ring
<1>3. reads <= writes /\ writes <= reads + N
  BY Occupied
<1> DEFINE x == seen[t]
           y == seen[u]
<1>a. x \in Nat /\ y \in Nat /\ x % N = y % N
  BY <1>1
<1> HIDE DEF x, y
<1>4. ASSUME x < y, y < x + N PROVE FALSE
  <2>1. x # y /\ x < y + N
    BY <1>1, <1>4, <1>a
  <2> QED
    BY <1>4, <1>a, <2>1, SlotsApart
<1>5. ASSUME y < x, x < y + N PROVE FALSE
  <2>1. x # y /\ y < x + N
    BY <1>1, <1>5, <1>a
  <2> QED
    BY <1>5, <1>a, <2>1, SlotsApart
<1> USE DEF x, y
<1>6. /\ t \in Producers => reads <= seen[t] /\ seen[t] < writes
      /\ t \notin Producers => seen[t] < reads /\ writes <= seen[t] + N
  BY DEF Ring, Owners, Writers, Readers, Threads
<1>7. CASE u \in Producers
  <2>1. seen[u] = writes /\ u \in EmptyHeld
    BY <1>7 DEF TrueIndex, EmptyHeld, Held, Claiming
  <2>2. writes < reads + N
    BY <2>1, Occupied
  <2>3. t \notin Producers
    BY <1>1, <1>4, <1>6, <2>1, <2>2
  <2>4. seen[t] + N = writes
    BY <1>1, <1>3, <1>4, <1>6, <2>1, <2>3
  <2>5. Plus(pos[t], N) = pos[u]
    BY <1>1, <1>2, <2>1, <2>4
  <2> QED
    BY <1>7, <2>3, <2>5
<1>8. CASE u \notin Producers
  <2>1. seen[u] = reads /\ u \in Consumers /\ u \in FilledHeld
    BY <1>8, FifoAssumption DEF TrueIndex, FilledHeld, Held, Claiming, Threads
  <2>2. reads < writes
    BY <2>1, Occupied
  <2>3. t \in Producers
    BY <1>1, <1>4, <1>6, <2>1, <2>2
  <2>4. seen[t] = seen[u]
    BY <1>1, <1>3, <1>5, <1>6, <2>1, <2>3
  <2>5. Plus(pos[t], 1) = Plus(pos[u], 1)
    BY <1>1, <1>2, <2>4
  <2> QED
    BY <1>8, <2>3, <2>5
<1> QED
  BY <1>7, <1>8

\* A published number is what the thread that waits for the slot expects.
LEMMA PublishKeepsRing ==
  ASSUME Counted, Data, Ring, NEW t \in Threads, Publish(t)
  PROVE  Ring'
<1> DEFINE k == IF t \in Producers THEN 1 ELSE N
<1>1. /\ fpc \in [Threads -> FPositions] /\ fpc[t] = "publish" /\ fpc' = [fpc EXCEPT ![t] = "give"]
      /\ elems' = elems /\ writeIdx' = writeIdx /\ readIdx' = readIdx /\ pos' = pos
      /\ writes' = writes /\ reads' = reads /\ seen' = seen
      /\ seq' = [seq EXCEPT ![SlotOf(pos[t])] = Plus(pos[t], k)]
  BY DEF Publish, Goto, trueVars, callVars, Counted
<1>2. /\ fpc'[t] = "give" /\ \A u \in Threads : u # t => fpc'[u] = fpc[u]
      /\ Writers' = Writers \ {t} /\ Readers' = Readers \ {t}
  <2>1. fpc'[t] = "give" /\ \A u \in Threads : u # t => fpc'[u] = fpc[u]
    BY <1>1
  <2> QED
    BY <1>1, <2>1 DEF Writers, Readers, Threads, Owning
<1>3. fpc[t] \in Owning
  BY <1>1 DEF Owning
<1>4. \A u \in Threads : u # t /\ fpc[u] \in Owning => seq'[SlotOf(pos[u])] = seq[SlotOf(pos[u])]
  <2>1. seq \in [Slots -> Nat] /\ \A u \in Threads : SlotOf(pos[u]) \in Slots
    BY Positions DEF Ring, Data
  <2>2. \A u \in Threads : u # t /\ fpc[u] \in Owning => SlotOf(pos[u]) # SlotOf(pos[t])
    BY <1>3, OwnersWindow
  <2> QED
    BY <1>1, <2>1, <2>2
<1>5. Unwrapped'
  BY <1>1 DEF Ring, Unwrapped, TrueIndex
<1>6. SeenIsTrue'
  <2> SUFFICES ASSUME NEW u \in Threads, fpc'[u] = "cas", seen[u] = TrueIndex(u)
               PROVE  Expected(u, pos[u])'
    BY <1>1 DEF SeenIsTrue, TrueIndex
  <2>1. fpc[u] = "cas" /\ SlotOf(pos[u]) \in Slots /\ SlotOf(pos[t]) \in Slots /\ seq \in [Slots -> Nat]
    BY <1>2, Positions DEF Ring, Data
  <2>2. CASE SlotOf(pos[u]) = SlotOf(pos[t])
    <3>1. Plus(pos[t], k) = IF u \in Producers THEN pos[u] ELSE Plus(pos[u], 1)
      BY <1>3, <2>1, <2>2, PublishIsExpected
    <3>2. seq'[SlotOf(pos[u])] = Plus(pos[t], k)
      BY <1>1, <2>1, <2>2
    <3> QED
      BY <1>1, <3>1, <3>2 DEF Expected, SlotOf, Plus
  <2>3. CASE SlotOf(pos[u]) # SlotOf(pos[t])
    <3>1. seq'[SlotOf(pos[u])] = seq[SlotOf(pos[u])]
      BY <1>1, <2>1, <2>3
    <3>2. seq[SlotOf(pos[u])] = IF u \in Producers THEN pos[u] ELSE Plus(pos[u], 1)
      BY <2>1 DEF Ring, SeenIsTrue, Expected
    <3> QED
      BY <1>1, <3>1, <3>2 DEF Expected, SlotOf, Plus
  <2> QED
    BY <2>2, <2>3
<1>7. Owners'
  <2>1. \A u \in Writers \ {t} : /\ reads <= seen[u] /\ seen[u] < writes
                                 /\ seq'[SlotOf(pos[u])] = pos[u]
                                 /\ fpc'[u] = "publish" => elems[SlotOf(pos[u])] # Uninit
    BY <1>2, <1>4 DEF Ring, Owners, Writers, Threads
  <2>2. \A u \in Readers \ {t} : /\ seen[u] < reads /\ writes <= seen[u] + N
                                 /\ seq'[SlotOf(pos[u])] = Plus(pos[u], 1)
                                 /\ elems[SlotOf(pos[u])] # Uninit
    BY <1>4 DEF Ring, Owners, Readers, Threads
  <2>3. \A u, x \in Threads : u # x /\ fpc'[u] \in Owning /\ fpc'[x] \in Owning => seen[u] # seen[x]
    <3>1. \A u \in Threads : fpc'[u] \in Owning => fpc[u] \in Owning
      BY <1>2, <1>3
    <3> QED
      BY <3>1 DEF Ring, Owners
  <2> QED
    BY <1>1, <1>2, <2>1, <2>2, <2>3 DEF Owners, SlotOf, Plus
<1>8. Written'
  <2> SUFFICES ASSUME NEW p \in reads .. writes - 1
               PROVE  (\E u \in Writers \ {t} : seen[u] = p) \/ elems[p % N] # Uninit
    BY <1>1, <1>2 DEF Written
  <2>1. (\E u \in Writers : seen[u] = p) \/ elems[p % N] # Uninit
    BY DEF Ring, Written
  <2>2. CASE t \in Writers /\ seen[t] = p
    <3>1. elems[SlotOf(pos[t])] # Uninit
      BY <1>1, <2>2 DEF Ring, Owners
    <3>2. SlotOf(pos[t]) = p % N
      BY <2>2, Positions DEF Ring
    <3> QED
      BY <3>1, <3>2
  <2> QED
    BY <2>1, <2>2
<1> QED
  BY <1>5, <1>6, <1>7, <1>8 DEF Ring

\* No step breaks the ring.
LEMMA RingStep ==
  ASSUME Counted, Data, CallsLeft, Ring, NotLapped, NEW t \in Threads, Step(t)
  PROVE  Ring'
<1>1. CASE Claim(t)
  BY <1>1, WriterClaims, ReaderClaims DEF Threads
<1>2. CASE Access(t)
  BY <1>2, AccessKeepsRing
<1>3. CASE Publish(t)
  BY <1>3, PublishKeepsRing
<1>4. CASE \/ Call(t) \/ SemaphoreStep(t) \/ Refuse(t) \/ Proceed(t) \/ LoadIndex(t)
           \/ CheckSeq(t) \/ ClaimFails(t) \/ Finish(t)
  BY <1>4, QuietRing
<1> QED
  BY <1>1, <1>2, <1>3, <1>4 DEF Step, Working
-----------------------------------------------------------------------------
(* The invariant *)

\* The types of the ring and of the calls.
LEMMA DataStep ==
  ASSUME Counted, Data, CallsLeft, Ring, NEW t \in Threads, Step(t)
  PROVE  Data'
<1>1. /\ SlotOf(pos[t]) \in Slots /\ Index(t) \in Nat /\ TrueIndex(t) \in Nat
      /\ \A k \in Nat : Plus(pos[t], k) \in Nat
  BY Positions, Indices DEF Ring
<1>2. CASE Call(t) \/ SemaphoreStep(t) \/ Refuse(t) \/ Proceed(t) \/ CheckSeq(t) \/ Claim(t)
  BY <1>2 DEF Data, Call, SemaphoreStep, Refuse, Proceed, CheckSeq, Claim, Advance,
              ringVars, callVars, trueVars
<1>3. CASE LoadIndex(t) \/ ClaimFails(t)
  BY <1>1, <1>3 DEF Data, LoadIndex, ClaimFails, See, ringVars
<1>4. CASE Access(t)
  <2>1. /\ seq' = seq /\ pos' = pos /\ seen' = seen /\ fpc[t] = "data"
    BY <1>4 DEF Access, trueVars
  <2>2. CASE t \in Producers
    <3>1. Item(t) \in Values
      BY <2>1, <2>2, ItemIsValue
    <3> QED
      BY <1>1, <1>4, <2>1, <2>2, <3>1 DEF Data, Access
  <2>3. CASE t \notin Producers
    BY <1>1, <1>4, <2>1, <2>3 DEF Data, Access
  <2> QED
    BY <2>2, <2>3
<1>5. CASE Publish(t)
  <2> PICK v : v = Plus(pos[t], IF t \in Producers THEN 1 ELSE N)
    OBVIOUS
  <2>1. v \in Nat
    BY <1>1, Sizes
  <2>2. /\ seq' = [seq EXCEPT ![SlotOf(pos[t])] = v] /\ elems' = elems
        /\ pos' = pos /\ got' = got /\ seen' = seen
    BY <1>5 DEF Publish, callVars, trueVars
  <2> QED
    BY <1>1, <2>1, <2>2 DEF Data
<1>6. CASE Finish(t)
  BY <1>6 DEF Data, Finish, ringVars, trueVars
<1> QED
  BY <1>2, <1>3, <1>4, <1>5, <1>6 DEF Step, Working

\* A call is counted when it returns.
LEMMA CallsLeftStep ==
  ASSUME Counted, CallsLeft, NEW t \in Threads, Step(t)
  PROVE  CallsLeft'
<1>1. PICK load \in Loads : /\ left \in [Threads -> Nat]
                            /\ \A u \in Threads : /\ left[u] <= load[u]
                                                  /\ fpc[u] # "idle" => left[u] > 0
  BY DEF CallsLeft
<1>2. fpc \in [Threads -> FPositions] /\ load \in [Threads -> Nat]
  BY FifoAssumption DEF Counted
<1>3. CASE Refuse(t) \/ Finish(t)
  <2>1. PICK k \in Nat : k = left[t] - 1 /\ left' = [left EXCEPT ![t] = k] /\ k <= load[t]
    <3>1. left' = [left EXCEPT ![t] = left[t] - 1] /\ fpc[t] # "idle"
      BY <1>3 DEF Refuse, Finish
    <3>2. left[t] - 1 \in Nat /\ left[t] - 1 <= load[t]
      BY <1>1, <1>2, <3>1
    <3> QED
      BY <3>1, <3>2
  <2>2. fpc' = [fpc EXCEPT ![t] = "idle"]
    BY <1>3 DEF Refuse, Finish, Goto
  <2> QED
    BY <1>1, <1>2, <2>1, <2>2 DEF CallsLeft
<1>4. CASE ~(Refuse(t) \/ Finish(t))
  <2>1. left' = left
    BY <1>4 DEF Step, Working, Call, SemaphoreStep, Proceed, LoadIndex, CheckSeq, Claim, ClaimFails,
                Access, Publish, See, callVars
  <2>2. \A u \in Threads : fpc'[u] # "idle" => left[u] > 0
    <3>1. \A u \in Threads : u # t => fpc'[u] = fpc[u]
      BY <1>2, <1>4 DEF Step, Working, Call, SemaphoreStep, Proceed, LoadIndex, CheckSeq, Claim, ClaimFails,
                        Access, Publish, Goto
    <3>2. left[t] > 0
      BY <1>1, <1>4 DEF Step, Working, Call, SemaphoreStep, Proceed, LoadIndex, CheckSeq, Claim, ClaimFails,
                        Access, Publish
    <3> QED
      BY <1>1, <3>1, <3>2
  <2> QED
    BY <1>1, <2>1, <2>2 DEF CallsLeft
<1> QED
  BY <1>3, <1>4

\* Each slot waits for the writer of the position it has next.
LEMMA NextPositions ==
  ASSUME NEW s \in Slots
  PROVE  NextAt(s) \in Nat
<1>1. \E p \in {Plus(Base, i) : i \in Slots} : SlotOf(p) = s
  <2>1. PICK i \in Slots : (Base + i) % N = s
    <3>1. s \in Int /\ Base \in Int /\ N \in Nat /\ N > 0 /\ s - Base \in Int
      BY Sizes
    <3>2. PICK q \in Int, m \in Nat : s - Base = q * N + m /\ m < N
      BY <3>1, Division
    <3>3. Base + m = (0 - q) * N + s
      <4>1. (0 - q) * N = 0 - q * N /\ q * N \in Int
        BY <3>1
      <4> QED
        BY <3>1, <3>2, <4>1
    <3>4. s \in Nat /\ s < N /\ 0 - q \in Int /\ Base + m \in Int
      BY <3>1, <3>2, Sizes
    <3>5. (Base + m) % N = s
      BY <3>1, <3>3, <3>4, Remainder
    <3>6. m \in Slots
      BY <3>1, <3>2, Sizes
    <3> QED
      BY <3>5, <3>6
  <2>2. Base + i \in Nat
    BY Sizes
  <2>3. Plus(Base, i) = (Base + i) % W
    BY DEF Plus
  <2>4. SlotOf((Base + i) % W) = (Base + i) % N
    BY <2>2, SlotUnwrapped
  <2> QED
    BY <2>1, <2>3, <2>4
<1>2. \A i \in Slots : Plus(Base, i) \in Nat
  <2> TAKE i \in Slots
  <2>1. Base \in Nat /\ i \in Nat
    BY Sizes
  <2>2. (Base + i) % W \in Nat
    BY <2>1, Wrap
  <2> QED
    BY <2>2 DEF Plus
<1>3. NextAt(s) \in {Plus(Base, i) : i \in Slots}
  BY <1>1 DEF NextAt
<1> QED
  BY <1>2, <1>3

\* The invariant holds initially.
LEMMA InitIInv == Init => IInv
<1> SUFFICES ASSUME Init PROVE IInv
  OBVIOUS
<1>1. /\ fpc = [t \in Threads |-> "idle"] /\ pos = [t \in Threads |-> Base]
      /\ seen = [t \in Threads |-> Base] /\ got = [t \in Threads |-> Uninit]
      /\ writes = Base /\ reads = Base /\ writeIdx = Base /\ readIdx = Base
      /\ seq = [s \in Slots |-> NextAt(s)] /\ elems = [s \in Slots |-> Uninit]
      /\ eVal = N /\ eSpc = [t \in Threads |-> "out"] /\ eCurV = [t \in Threads |-> 1]
      /\ fVal = 0 /\ fSpc = [t \in Threads |-> "out"] /\ fCurV = [t \in Threads |-> 1]
      /\ left \in Loads
  BY DEF Init, Empty!SInit, Filled!SInit
<1>2. Base \in Nat /\ Base < W /\ N \in Nat
  BY Sizes
<1>3. SemaphoreOK(eVal, eSpc, eCurV) /\ SemaphoreOK(fVal, fSpc, fCurV)
  BY <1>1, <1>2 DEF SemaphoreOK, SemAt, GiveAt
<1>4. Places
  BY <1>1 DEF Places, PlacesIn
<1>5. EmptyHeld = {} /\ FilledHeld = {}
  BY <1>1 DEF EmptyHeld, FilledHeld, Held, Claiming, Owning
<1>6. Cells
  BY <1>1, <1>2, <1>5, FS_EmptySet DEF Cells
<1>7. Counted
  BY <1>1, <1>2, <1>3, <1>4, <1>6 DEF Counted, FPositions
<1>8. Data
  BY <1>1, <1>2, NextPositions DEF Data
<1>9. CallsLeft
  <2>1. left \in [Threads -> Nat] /\ \A t \in Threads : fpc[t] = "idle" /\ left[t] <= left[t]
    BY <1>1, FifoAssumption
  <2> QED
    BY <1>1, <2>1 DEF CallsLeft
<1>10. Unwrapped
  <2>1. Base % W = Base
    <3>1. Base \in Int /\ W \in Nat /\ 0 \in Int /\ Base = 0 * W + Base
      BY Sizes
    <3> QED
      BY <1>2, <3>1, Remainder
  <2> QED
    BY <1>1, <1>2, <2>1 DEF Unwrapped, TrueIndex
<1>11. SeenIsTrue
  BY <1>1 DEF SeenIsTrue
<1>12. Owners
  BY <1>1 DEF Owners, Writers, Readers, Owning, Threads
<1>13. Written
  BY <1>1, <1>2 DEF Written
<1> QED
  BY <1>7, <1>8, <1>9, <1>10, <1>11, <1>12, <1>13 DEF IInv, Ring

\* Every step preserves the invariant, while no thread is lapped.
LEMMA IInvStep ==
  ASSUME IInv, NotLapped, [Next]_vars
  PROVE  IInv'
<1>1. CASE UNCHANGED vars
  BY <1>1 DEF IInv, vars, ringVars, callVars, trueVars, eVars, fVars, Counted, Places, PlacesIn, Cells,
     EmptyHeld, FilledHeld, Held, SemaphoreOK, Data, CallsLeft, Ring, Unwrapped, SeenIsTrue, Owners,
     Written, Writers, Readers, TrueIndex, Expected, SlotOf, Plus
<1>2. CASE \E t \in Threads : Step(t)
  BY <1>2, CountedStep, DataStep, CallsLeftStep, RingStep DEF IInv
<1> QED
  BY <1>1, <1>2 DEF Next, Stop

\* The counts of cells, and what the threads know of the ring, at every instant.
THEOREM FifoInvariant == Spec /\ []NotLapped => []IInv
<1>1. IInv /\ NotLapped /\ [Next]_vars => IInv'
  BY IInvStep
<1> QED
  BY InitIInv, <1>1, PTL DEF Spec

\* fifo.rs, do_push and do_pop: a slot is accessed by one thread at a time, and a reader
\* only finds a value that a writer has finished writing.
THEOREM SlotsAreNotRacedFor == Spec /\ []NotLapped => []NoSlotRace
<1>1. IInv => NoSlotRace
  <2> SUFFICES ASSUME IInv PROVE NoSlotRace
    OBVIOUS
  <2>1. \A t, u \in Threads : t # u /\ fpc[t] \in Owning /\ fpc[u] \in Owning =>
          SlotOf(pos[t]) # SlotOf(pos[u])
    BY OwnersWindow DEF IInv
  <2>2. \A t \in Readers : elems[SlotOf(pos[t])] # Uninit
    BY DEF IInv, Ring, Owners
  <2> QED
    BY <2>1, <2>2 DEF NoSlotRace, Readers, Owning, Threads
<1> QED
  BY FifoInvariant, <1>1, PTL
-----------------------------------------------------------------------------
(* The abstract queue *)

\* The writer that has claimed position p and not written its value yet.
Writing(p) == {t \in Producers : fpc[t] = "data" /\ seen[t] = p}

\* The items of the queue, by their unwrapped positions.
TrueItem(p) ==
  IF Writing(p) # {} THEN Item(CHOOSE t \in Writing(p) : TRUE) ELSE elems[p % N]
QueueNow == [i \in 1 .. writes - reads |-> TrueItem(reads + (i - 1))]
ResultNow == [t \in Threads |->
                IF fpc[t] = "data" /\ t \in Consumers THEN elems[SlotOf(pos[t])] ELSE got[t]]

\* What the refinement mapping reads of a state.
View ==
  /\ writes \in Nat /\ reads \in Nat /\ reads <= writes /\ writes <= reads + N
  /\ [i \in 1 .. (writeIdx - readIdx) % W |-> ItemAt(Plus(readIdx, i - 1))] = QueueNow
  /\ \A t \in Producers : fpc[t] = "data" => Writing(seen[t]) = {t}

\* The wrapped indices and positions show the queue as it is.
LEMMA ViewHolds == IInv => View
<1> SUFFICES ASSUME IInv PROVE View
  OBVIOUS
<1>1. /\ Counted /\ Data /\ Ring /\ Unwrapped
      /\ writes \in Nat /\ reads \in Nat /\ N \in Nat /\ N < W /\ W \in Nat
  BY Sizes DEF IInv, Ring, Counted
<1>2. reads <= writes /\ writes <= reads + N
  BY <1>1, Occupied
<1>3. (writeIdx - readIdx) % W = writes - reads
  <2>1. ((writes % W) - (reads % W)) % W = writes - reads
    BY <1>1, <1>2, Distance
  <2> QED
    BY <1>1, <2>1 DEF Unwrapped
<1>4. \A t \in Producers : fpc[t] = "data" =>
        /\ t \in Threads /\ seen[t] \in Nat /\ reads <= seen[t] /\ seen[t] < writes /\ pos[t] = seen[t] % W
  BY <1>1 DEF Ring, Owners, Writers, Owning, Threads, Data, Unwrapped
<1>5. ASSUME NEW t \in Producers, fpc[t] = "data" PROVE Writing(seen[t]) = {t}
  <2>1. ASSUME NEW u \in Producers, fpc[u] = "data", u # t PROVE seen[u] # seen[t]
    BY <1>1, <1>5, <2>1 DEF Ring, Owners, Owning, Threads
  <2> QED
    BY <1>5, <2>1 DEF Writing
<1>6. ASSUME NEW p \in Nat, reads <= p, p < writes
      PROVE  ItemAt(p % W) = TrueItem(p)
  <2>1. ASSUME NEW t \in Producers, fpc[t] = "data", pos[t] = p % W, seen[t] # p
        PROVE  FALSE
    <3> PICK x : x = seen[t]
      OBVIOUS
    <3>1. x \in Int /\ p \in Int /\ x # p /\ x < p + W /\ p < x + W
      BY <1>1, <1>2, <1>4, <1>6, <2>1
    <3>2. CASE x < p
      BY <1>1, <1>4, <2>1, <3>1, <3>2, Close
    <3>3. CASE p < x
      BY <1>1, <1>4, <2>1, <3>1, <3>3, Close
    <3> QED
      BY <3>1, <3>2, <3>3
  <2>2. Claimed(p % W) = Writing(p)
    BY <1>4, <2>1 DEF Claimed, Writing
  <2>3. SlotOf(p % W) = p % N
    BY SlotUnwrapped
  <2>4. CASE Writing(p) = {}
    BY <2>2, <2>3, <2>4 DEF ItemAt, TrueItem
  <2>5. CASE Writing(p) # {}
    <3>1. PICK t : Writing(p) = {t}
      BY <1>5, <2>5 DEF Writing
    <3>2. ItemAt(p % W) = Item(CHOOSE u \in Claimed(p % W) : TRUE) /\ Claimed(p % W) = {t}
      BY <2>2, <2>5, <3>1, Zenon DEF ItemAt
    <3>3. TrueItem(p) = Item(CHOOSE u \in Writing(p) : TRUE)
      BY <2>5, Zenon DEF TrueItem
    <3>4. (CHOOSE u \in Claimed(p % W) : TRUE) = t /\ (CHOOSE u \in Writing(p) : TRUE) = t
      BY <3>1, <3>2
    <3> QED
      BY <3>2, <3>3, <3>4
  <2> QED
    BY <2>4, <2>5
<1>7. ASSUME NEW i \in 1 .. writes - reads
      PROVE  ItemAt(Plus(readIdx, i - 1)) = TrueItem(reads + (i - 1))
  <2> PICK k \in Nat : k = i - 1
    BY <1>1
  <2>1. reads + k \in Nat /\ reads <= reads + k /\ reads + k < writes
    BY <1>1
  <2>2. Plus(reads % W, k) = (reads + k) % W
    BY <1>1, Wrap
  <2>3. ItemAt((reads + k) % W) = TrueItem(reads + k)
    BY <1>6, <2>1
  <2> QED
    BY <1>1, <2>2, <2>3 DEF Unwrapped
<1>8. [i \in 1 .. (writeIdx - readIdx) % W |-> ItemAt(Plus(readIdx, i - 1))] = QueueNow
  BY <1>3, <1>7 DEF QueueNow
<1> QED
  BY <1>1, <1>2, <1>5, <1>8 DEF View

IsList(a, n) == a = [i \in 1 .. n |-> a[i]]

\* A function on 1 .. n is a sequence.
LEMMA IsSequence ==
  ASSUME NEW n \in Nat, NEW a, IsList(a, n),
         NEW S, \A i \in 1 .. n : a[i] \in S
  PROVE  a \in [1 .. n -> S] /\ a \in Seq(S) /\ Len(a) = n
<1>1. a \in [1 .. n -> S]
  <2> DEFINE b == [i \in 1 .. n |-> a[i]]
  <2>1. b \in [1 .. n -> S]
    OBVIOUS
  <2>2. a = b
    BY DEF IsList
  <2> HIDE DEF b
  <2> QED
    BY <2>1, <2>2
<1> QED
  BY <1>1

\* A sequence that grows at its end.
LEMMA Grown ==
  ASSUME NEW n \in Nat, NEW a, NEW b, NEW v,
         IsList(a, n), IsList(b, n + 1),
         \A i \in 1 .. n : b[i] = a[i], b[n + 1] = v
  PROVE  Len(a) = n /\ b = Append(a, v)
<1> DEFINE S == {b[i] : i \in 1 .. n + 1}
<1>1. \A i \in 1 .. n + 1 : b[i] \in S
  OBVIOUS
<1>2. \A i \in 1 .. n : a[i] \in S
  <2> HIDE DEF S
  <2> TAKE i \in 1 .. n
  <2>1. i \in 1 .. n + 1 /\ a[i] = b[i]
    OBVIOUS
  <2> QED
    BY <1>1, <2>1
<1>3. n + 1 \in Nat /\ n + 1 \in 1 .. n + 1 /\ v \in S
  BY <1>1
<1> HIDE DEF S
<1>4. a \in [1 .. n -> S] /\ a \in Seq(S) /\ Len(a) = n
  BY <1>2, IsSequence
<1>5. b \in Seq(S) /\ Len(b) = n + 1
  BY <1>1, <1>3, IsSequence
<1>6. /\ Append(a, v) \in Seq(S) /\ Len(Append(a, v)) = n + 1
      /\ \A i \in 1 .. n : Append(a, v)[i] = a[i]
      /\ Append(a, v)[n + 1] = v
  BY <1>3, <1>4, AppendProperties
<1>7. \A i \in 1 .. n + 1 : b[i] = Append(a, v)[i]
  <2> TAKE i \in 1 .. n + 1
  <2>1. i = n + 1 \/ i \in 1 .. n
    OBVIOUS
  <2> QED
    BY <1>6, <2>1
<1> QED
  BY <1>4, <1>5, <1>6, <1>7, SeqEqual

\* A sequence that loses its head.
LEMMA Shrunk ==
  ASSUME NEW n \in Nat, n > 0, NEW a, NEW b,
         IsList(a, n), IsList(b, n - 1),
         \A i \in 1 .. n - 1 : b[i] = a[i + 1]
  PROVE  a # <<>> /\ Head(a) = a[1] /\ b = Tail(a)
<1> DEFINE S == {a[i] : i \in 1 .. n}
<1>1. \A i \in 1 .. n : a[i] \in S
  OBVIOUS
<1>2. \A i \in 1 .. n - 1 : i + 1 \in 1 .. n /\ b[i] \in S
  BY <1>1
<1> HIDE DEF S
<1>3. a \in Seq(S) /\ Len(a) = n
  BY <1>1, IsSequence
<1>4. b \in Seq(S) /\ Len(b) = n - 1
  <2>1. n - 1 \in Nat
    OBVIOUS
  <2> QED
    BY <1>2, <2>1, IsSequence
<1>5. a # <<>> /\ Head(a) = a[1]
  <2>1. Len(<<>>) = 0
    BY EmptySeq
  <2> QED
    BY <1>3, <2>1
<1>6. /\ Tail(a) \in Seq(S) /\ Len(Tail(a)) = n - 1
      /\ \A i \in 1 .. n - 1 : Tail(a)[i] = a[i + 1]
  BY <1>3, <1>5, HeadTailProperties
<1>7. \A i \in 1 .. n - 1 : b[i] = Tail(a)[i]
  BY <1>6
<1> QED
  BY <1>4, <1>5, <1>6, <1>7, SeqEqual

\* The steps that are neither a claim nor an access.
LEMMA OtherSteps ==
  ASSUME Counted, Data, CallsLeft, NEW t \in Threads, Step(t), ~Claim(t), ~Access(t)
  PROVE  /\ elems' = elems /\ writes' = writes /\ reads' = reads
         /\ \A u \in Threads : /\ fpc'[u] = "data" <=> fpc[u] = "data"
                               /\ fpc[u] = "data" => /\ seen'[u] = seen[u] /\ pos'[u] = pos[u]
                                                     /\ left'[u] = left[u]
         /\ fpc[t] # "data"
         /\ ~Finish(t) => got' = got
<1>1. /\ fpc \in [Threads -> FPositions] /\ pos \in [Threads -> Nat] /\ seen \in [Threads -> Nat]
      /\ left \in [Threads -> Nat]
  BY DEF Counted, Data, CallsLeft
<1>2. elems' = elems /\ writes' = writes /\ reads' = reads /\ (~Finish(t) => got' = got)
  BY DEF Step, Working, Call, SemaphoreStep, Refuse, Proceed, LoadIndex, CheckSeq, ClaimFails, Publish,
         Finish, See, ringVars, callVars, trueVars
<1>3. fpc[t] # "data" /\ \A u \in Threads : u # t =>
        seen'[u] = seen[u] /\ pos'[u] = pos[u] /\ left'[u] = left[u]
  <2>1. CASE Call(t) \/ SemaphoreStep(t) \/ Proceed(t) \/ CheckSeq(t) \/ Publish(t)
    BY <2>1 DEF Call, SemaphoreStep, Proceed, CheckSeq, Publish, callVars, trueVars
  <2>2. CASE Refuse(t) \/ Finish(t)
    BY <1>1, <2>2 DEF Refuse, Finish, trueVars
  <2>3. CASE LoadIndex(t) \/ ClaimFails(t)
    BY <1>1, <2>3 DEF LoadIndex, ClaimFails, See
  <2> QED
    BY <2>1, <2>2, <2>3 DEF Step, Working
<1>4. fpc'[t] # "data" /\ \A u \in Threads : u # t => fpc'[u] = fpc[u]
  <2>1. CASE SemaphoreStep(t)
    BY <1>3, <2>1 DEF SemaphoreStep
  <2>2. CASE CheckSeq(t)
    <3>1. fpc' = [fpc EXCEPT ![t] = "cas"] \/ fpc' = [fpc EXCEPT ![t] = "load"]
      BY <2>2 DEF CheckSeq, Goto
    <3> QED
      BY <1>1, <3>1
  <2>3. CASE Call(t) \/ Refuse(t) \/ Proceed(t) \/ LoadIndex(t)
    BY <1>1, <2>3 DEF Call, Refuse, Proceed, LoadIndex, Goto
  <2>4. CASE ClaimFails(t) \/ Publish(t) \/ Finish(t)
    BY <1>1, <2>4 DEF ClaimFails, Publish, Finish, Goto
  <2> QED
    BY <2>1, <2>2, <2>3, <2>4 DEF Step, Working
<1> QED
  BY <1>2, <1>3, <1>4

\* A step changes no item that is in the queue before and after it.
LEMMA ItemKept ==
  ASSUME IInv, View, View', NotLapped, NEW t \in Threads, Step(t),
         NEW p \in Nat, reads <= p, p < writes
  PROVE  TrueItem(p)' = TrueItem(p)
<1>0. /\ Counted /\ Data /\ CallsLeft /\ Ring /\ fpc \in [Threads -> FPositions]
      /\ elems \in [Slots -> Values \cup {Uninit}]
      /\ Producers \subseteq Threads /\ writes \in Nat /\ reads \in Nat
  BY DEF IInv, Counted, Data, Threads
<1>1. CASE Access(t)
  <2>1. /\ fpc[t] = "data" /\ fpc'[t] = "publish" /\ seen' = seen /\ left' = left
        /\ \A u \in Threads : u # t => fpc'[u] = fpc[u]
    BY <1>0, <1>1 DEF Access, Goto, trueVars
  <2>2. CASE t \in Producers /\ seen[t] = p
    <3>1. Writing(p) = {t}
      BY <2>1, <2>2 DEF View
    <3>2. Writing(p)' = {}
      <4>1. \A u \in Producers : fpc'[u] = "data" /\ seen'[u] = p => u \in Writing(p) /\ u # t
        BY <1>0, <2>1 DEF Writing
      <4> QED
        BY <3>1, <4>1 DEF Writing
    <3>3. elems'[p % N] = Item(t)
      <4>1. SlotOf(pos[t]) = p % N /\ p % N \in Slots
        BY <1>0, <2>2, Positions DEF Ring
      <4>2. elems' = [elems EXCEPT ![SlotOf(pos[t])] = Item(t)]
        BY <1>1, <2>2 DEF Access
      <4> QED
        BY <1>0, <4>1, <4>2
    <3>4. TrueItem(p) = Item(t)
      BY <3>1, Zenon DEF TrueItem
    <3>5. TrueItem(p)' = elems'[p % N]
      BY <3>2 DEF TrueItem
    <3> QED
      BY <3>3, <3>4, <3>5
  <2>3. CASE ~(t \in Producers /\ seen[t] = p)
    <3>1. Writing(p)' = Writing(p)
      BY <1>0, <2>1, <2>3 DEF Writing
    <3>3. Writing(p) = {} => elems'[p % N] = elems[p % N]
      <4>1. CASE t \in Producers
        <5>1. elems' = [elems EXCEPT ![SlotOf(pos[t])] = Item(t)]
          BY <1>1, <4>1 DEF Access
        <5>2. t \in Writers
          BY <2>1, <4>1 DEF Writers, Owning
        <5>3. /\ seen[t] \in Nat /\ reads <= seen[t] /\ seen[t] < writes /\ seen[t] # p
              /\ writes <= reads + N /\ N \in Nat /\ SlotOf(pos[t]) = seen[t] % N
          BY <1>0, <2>3, <4>1, <5>2, Positions, Sizes DEF Ring, Owners, View
        <5>4. p % N # seen[t] % N
          <6>1. p < seen[t] + N /\ seen[t] < p + N
            BY <1>0, <5>3
          <6> QED
            BY <5>3, <6>1, SlotsApart
        <5>5. p % N \in Slots
          BY SlotUnwrapped
        <5> QED
          BY <1>0, <5>1, <5>3, <5>4, <5>5
      <4>2. CASE t \notin Producers
        BY <1>1, <4>2 DEF Access
      <4> QED
        BY <4>1, <4>2
    <3>4. CASE Writing(p) = {}
      BY <3>1, <3>3, <3>4 DEF TrueItem
    <3>5. CASE Writing(p) # {}
      <4> DEFINE u == CHOOSE x \in Writing(p) : TRUE
      <4>1. TrueItem(p) = Item(u)
        BY <3>5, Zenon DEF TrueItem
      <4>2. TrueItem(p)' = <<u, left'[u]>>
        BY <3>1, <3>5, Zenon DEF TrueItem, Item
      <4> QED
        BY <2>1, <4>1, <4>2 DEF Item
    <3> QED
      BY <3>4, <3>5
  <2> QED
    BY <2>2, <2>3
<1>2. CASE ~Access(t)
  <2>1. elems' = elems /\ Writing(p)' = Writing(p) /\ \A u \in Writing(p) : left'[u] = left[u]
    <3>1. CASE Claim(t)
      <4>1. /\ fpc[t] = "cas" /\ fpc' = [fpc EXCEPT ![t] = "data"] /\ elems' = elems
            /\ seen' = seen /\ left' = left
        BY <3>1 DEF Claim, Advance, Goto, callVars
      <4>2. ASSUME t \in Producers, seen[t] = p PROVE FALSE
        <5>1. seen[t] = writes
          BY <1>0, <3>1, <4>2, ClaimIsCurrent, Indices DEF Ring
        <5> QED
          BY <1>0, <4>2, <5>1
      <4>3. fpc'[t] = "data" /\ \A u \in Threads : u # t => fpc'[u] = fpc[u]
        BY <1>0, <4>1
      <4> QED
        BY <1>0, <4>1, <4>2, <4>3 DEF Writing
    <3>2. CASE ~Claim(t)
      <4>1. /\ elems' = elems
            /\ \A u \in Threads : /\ fpc'[u] = "data" <=> fpc[u] = "data"
                                  /\ fpc[u] = "data" => seen'[u] = seen[u] /\ left'[u] = left[u]
        BY <1>0, <1>2, <3>2, OtherSteps
      <4> QED
        BY <1>0, <4>1 DEF Writing
    <3> QED
      BY <3>1, <3>2
  <2>2. CASE Writing(p) = {}
    BY <2>1, <2>2 DEF TrueItem
  <2>3. CASE Writing(p) # {}
    <3> DEFINE u == CHOOSE x \in Writing(p) : TRUE
    <3>1. u \in Writing(p)
      BY <2>3
    <3>2. TrueItem(p) = Item(u)
      BY <2>3, Zenon DEF TrueItem
    <3>3. TrueItem(p)' = <<u, left'[u]>>
      BY <2>1, <2>3, Zenon DEF TrueItem, Item
    <3> QED
      BY <2>1, <3>1, <3>2, <3>3 DEF Item
  <2> QED
    BY <2>2, <2>3
<1> QED
  BY <1>1, <1>2

\* What the items of the queue are after a step.
LEMMA QueueAfter ==
  ASSUME NEW w, NEW r, w = writes', r = reads', w \in Nat, r \in Nat, r <= w
  PROVE  /\ w - r \in Nat
         /\ QueueNow' = [i \in 1 .. w - r |-> QueueNow'[i]]
         /\ \A i \in 1 .. w - r : \A p : p = r + (i - 1) => QueueNow'[i] = TrueItem(p)'
<1>1. QueueNow' = [i \in 1 .. w - r |-> TrueItem(r + (i - 1))']
  BY DEF QueueNow
<1>2. w - r \in Nat
  <2>1. \A x, y \in Nat : y <= x => x - y \in Nat
    OBVIOUS
  <2> QED
    BY <2>1
<1>3. QueueNow' = [i \in 1 .. w - r |-> QueueNow'[i]]
  BY <1>1
<1>4. \A i \in 1 .. w - r : QueueNow'[i] = TrueItem(r + (i - 1))'
  BY <1>1
<1>5. \A i \in 1 .. w - r : \A p : p = r + (i - 1) => QueueNow'[i] = TrueItem(p)'
  BY <1>4
<1> QED
  BY <1>2, <1>3, <1>5

\* A push takes effect when the writer claims its position.
LEMMA WriterPushes ==
  ASSUME IInv, View, View', NotLapped, NEW t \in Producers, Claim(t)
  PROVE  /\ Item(t) \in Values /\ Len(QueueNow) < N
         /\ QueueNow' = Append(QueueNow, Item(t)) /\ ResultNow' = ResultNow
<1>1. /\ t \in Threads /\ t \notin Consumers /\ fpc \in [Threads -> FPositions] /\ Step(t)
      /\ Counted /\ Data /\ CallsLeft /\ Ring /\ N \in Nat
      /\ writes \in Nat /\ reads \in Nat /\ reads <= writes
      /\ fpc[t] = "cas" /\ fpc' = [fpc EXCEPT ![t] = "data"]
      /\ seen' = seen /\ left' = left /\ elems' = elems /\ pos' = pos /\ got' = got /\ reads' = reads
  BY FifoAssumption DEF Claim, Advance, Goto, callVars, IInv, Counted, View, Threads, Step, Working
<1>2. seen[t] = writes /\ writes < reads + N
  <2>1. t \in EmptyHeld
    BY <1>1 DEF EmptyHeld, Held, Claiming
  <2> QED
    BY <1>1, <2>1, ClaimIsCurrent, Indices, Occupied DEF Ring
<1>3. Item(t) \in Values
  BY <1>1, ItemIsValue
<1> PICK n, a, b, v : n = writes - reads /\ a = QueueNow /\ b = QueueNow' /\ v = Item(t)
  OBVIOUS
<1>4. n \in Nat /\ n < N /\ a = [i \in 1 .. n |-> a[i]] /\ \A i \in 1 .. n : a[i] = TrueItem(reads + (i - 1))
  <2>1. a = [i \in 1 .. n |-> TrueItem(reads + (i - 1))]
    BY DEF QueueNow
  <2> QED
    BY <1>1, <1>2, <2>1
<1>5. /\ b = [i \in 1 .. n + 1 |-> b[i]]
      /\ \A i \in 1 .. n + 1 : \A p : p = reads + (i - 1) => b[i] = TrueItem(p)'
  <2>1. PICK w, r : w = writes' /\ r = reads' /\ w \in Nat /\ r \in Nat /\ r <= w
    BY DEF View
  <2>2. /\ b = [i \in 1 .. w - r |-> b[i]]
        /\ \A i \in 1 .. w - r : \A p : p = r + (i - 1) => b[i] = TrueItem(p)'
    BY <2>1, QueueAfter
  <2>3. writes' = writes + 1
    BY DEF Claim, Advance
  <2>4. w - r = n + 1 /\ r = reads
    BY <1>1, <2>1, <2>3
  <2> QED
    BY <2>2, <2>4
<1>6. \A i \in 1 .. n : b[i] = a[i]
  <2> TAKE i \in 1 .. n
  <2>1. PICK p \in Nat : p = reads + (i - 1) /\ reads <= p /\ p < writes /\ i \in 1 .. n + 1
    BY <1>1, <1>4
  <2>2. TrueItem(p)' = TrueItem(p)
    BY <1>1, <2>1, ItemKept
  <2> QED
    BY <1>4, <1>5, <2>1, <2>2
<1>7. b[n + 1] = v
  <2>1. PICK p \in Nat : p = writes /\ p = reads + ((n + 1) - 1) /\ n + 1 \in 1 .. n + 1
    BY <1>1, <1>4
  <2>2. fpc'[t] = "data" /\ seen'[t] = p /\ left'[t] = left[t]
    BY <1>1, <1>2, <2>1
  <2>3. Writing(p)' = {t}
    BY <2>2 DEF View
  <2>4. TrueItem(p)' = <<t, left'[t]>>
    BY <2>3, Zenon DEF TrueItem, Item
  <2> QED
    BY <1>5, <2>1, <2>2, <2>4 DEF Item
<1>8. Len(a) = n /\ b = Append(a, v)
  <2>1. IsList(a, n) /\ IsList(b, n + 1) /\ n \in Nat
    BY <1>4, <1>5 DEF IsList
  <2> QED
    BY <1>6, <1>7, <2>1, Grown
<1>9. ResultNow' = ResultNow
  <2>1. \A u \in Consumers : fpc'[u] = fpc[u]
    BY <1>1 DEF Threads
  <2> QED
    BY <1>1, <2>1 DEF ResultNow, SlotOf
<1> QED
  BY <1>3, <1>4, <1>8, <1>9

\* A pop takes effect when the reader claims its position.
LEMMA ReaderPops ==
  ASSUME IInv, View, View', NotLapped, NEW t \in Consumers, Claim(t)
  PROVE  /\ QueueNow # <<>> /\ QueueNow' = Tail(QueueNow)
         /\ ResultNow' = [ResultNow EXCEPT ![t] = Head(QueueNow)]
<1>1. /\ t \in Threads /\ t \notin Producers /\ fpc \in [Threads -> FPositions] /\ Step(t)
      /\ Counted /\ Data /\ CallsLeft /\ Ring
      /\ writes \in Nat /\ reads \in Nat
      /\ fpc[t] = "cas" /\ fpc' = [fpc EXCEPT ![t] = "data"]
      /\ seen' = seen /\ elems' = elems /\ pos' = pos /\ got' = got /\ writes' = writes
  BY FifoAssumption DEF Claim, Advance, Goto, callVars, IInv, Counted, Threads, Step, Working
<1>2. seen[t] = reads /\ reads < writes /\ \A u \in Writers : seen[u] # reads
  BY <1>1, OldestIsWritten
<1> PICK n, a, b : n = writes - reads /\ a = QueueNow /\ b = QueueNow'
  OBVIOUS
<1>4. n \in Nat /\ n > 0 /\ a = [i \in 1 .. n |-> a[i]] /\ \A i \in 1 .. n : a[i] = TrueItem(reads + (i - 1))
  <2>1. a = [i \in 1 .. n |-> TrueItem(reads + (i - 1))]
    BY DEF QueueNow
  <2> QED
    BY <1>1, <1>2, <2>1
<1>5. /\ b = [i \in 1 .. n - 1 |-> b[i]]
      /\ \A i \in 1 .. n - 1 : \A p : p = (reads + 1) + (i - 1) => b[i] = TrueItem(p)'
  <2>1. PICK w, r : w = writes' /\ r = reads' /\ w \in Nat /\ r \in Nat /\ r <= w
    BY DEF View
  <2>2. /\ b = [i \in 1 .. w - r |-> b[i]]
        /\ \A i \in 1 .. w - r : \A p : p = r + (i - 1) => b[i] = TrueItem(p)'
    BY <2>1, QueueAfter
  <2>3. reads' = reads + 1
    BY <1>1 DEF Claim, Advance
  <2>4. w - r = n - 1 /\ r = reads + 1
    BY <1>1, <2>1, <2>3
  <2> QED
    BY <2>2, <2>4
<1>6. \A i \in 1 .. n - 1 : b[i] = a[i + 1]
  <2> TAKE i \in 1 .. n - 1
  <2>1. PICK p \in Nat : /\ p = (reads + 1) + (i - 1) /\ p = reads + ((i + 1) - 1)
                         /\ reads <= p /\ p < writes /\ i + 1 \in 1 .. n
    BY <1>1, <1>4
  <2>2. TrueItem(p)' = TrueItem(p)
    BY <1>1, <2>1, ItemKept
  <2> QED
    BY <1>4, <1>5, <2>1, <2>2
<1>7. a # <<>> /\ Head(a) = a[1] /\ b = Tail(a)
  <2>1. IsList(a, n) /\ IsList(b, n - 1) /\ n \in Nat /\ n > 0
    BY <1>4, <1>5 DEF IsList
  <2> QED
    BY <1>6, <2>1, Shrunk
<1>8. a[1] = elems[SlotOf(pos[t])]
  <2>1. a[1] = TrueItem(reads)
    <3>1. 1 \in 1 .. n /\ reads + (1 - 1) = reads
      BY <1>1, <1>4
    <3> QED
      BY <1>4, <3>1
  <2>2. Writing(reads) = {}
    BY <1>2 DEF Writing, Writers, Owning
  <2>3. SlotOf(pos[t]) = reads % N
    BY <1>1, <1>2, Positions DEF Ring
  <2> QED
    BY <2>1, <2>2, <2>3 DEF TrueItem
<1>9. ResultNow' = [ResultNow EXCEPT ![t] = elems[SlotOf(pos[t])]]
  <2>1. fpc'[t] = "data" /\ \A u \in Threads : u # t => fpc'[u] = fpc[u]
    BY <1>1
  <2> QED
    BY <1>1, <2>1 DEF ResultNow, SlotOf
<1> QED
  BY <1>7, <1>8, <1>9

\* Every other step leaves the queue as it is, and at most forgets a result.
LEMMA OthersStutter ==
  ASSUME IInv, View, View', NotLapped, NEW t \in Threads, Step(t), ~Claim(t)
  PROVE  /\ QueueNow' = QueueNow
         /\ ResultNow' = ResultNow \/ ResultNow' = [ResultNow EXCEPT ![t] = Uninit]
<1>1. /\ fpc \in [Threads -> FPositions] /\ Counted /\ Data /\ CallsLeft /\ Ring
      /\ writes \in Nat /\ reads \in Nat /\ reads <= writes
  BY DEF IInv, Counted, View
<1>2. writes' = writes /\ reads' = reads
  <2>1. CASE Access(t)
    BY <2>1 DEF Access, trueVars
  <2> QED
    BY <1>1, <2>1, OtherSteps
<1>3. QueueNow' = QueueNow
  <2>1. /\ QueueNow' = [i \in 1 .. writes - reads |-> QueueNow'[i]]
        /\ \A i \in 1 .. writes - reads : \A p : p = reads + (i - 1) => QueueNow'[i] = TrueItem(p)'
    <3>1. PICK w, r : w = writes' /\ r = reads' /\ w \in Nat /\ r \in Nat /\ r <= w
      BY DEF View
    <3>2. /\ QueueNow' = [i \in 1 .. w - r |-> QueueNow'[i]]
          /\ \A i \in 1 .. w - r : \A p : p = r + (i - 1) => QueueNow'[i] = TrueItem(p)'
      BY <3>1, QueueAfter
    <3>3. w = writes /\ r = reads
      BY <1>2, <3>1
    <3> QED
      BY <3>2, <3>3
  <2>2. \A i \in 1 .. writes - reads : QueueNow'[i] = TrueItem(reads + (i - 1))
    <3> TAKE i \in 1 .. writes - reads
    <3>1. PICK p \in Nat : p = reads + (i - 1) /\ reads <= p /\ p < writes
      BY <1>1
    <3>2. TrueItem(p)' = TrueItem(p)
      BY <3>1, ItemKept
    <3> QED
      BY <2>1, <3>1, <3>2
  <2> QED
    BY <2>1, <2>2 DEF QueueNow
<1>4. CASE Access(t)
  <2>1. /\ fpc[t] = "data" /\ fpc'[t] = "publish" /\ pos' = pos
        /\ \A u \in Threads : u # t => fpc'[u] = fpc[u]
    BY <1>1, <1>4 DEF Access, Goto
  <2>2. CASE t \in Producers
    <3>1. /\ elems' = [elems EXCEPT ![SlotOf(pos[t])] = Item(t)] /\ got' = got /\ t \notin Consumers
      BY <1>4, <2>2, FifoAssumption DEF Access
    <3>2. ASSUME NEW u \in Consumers, fpc[u] = "data"
          PROVE  elems'[SlotOf(pos[u])] = elems[SlotOf(pos[u])]
      <4>1. SlotOf(pos[u]) # SlotOf(pos[t]) /\ SlotOf(pos[u]) \in Slots
        BY <1>1, <2>1, <3>1, <3>2, OwnersWindow, Positions DEF Owning, Threads, Ring
      <4> QED
        BY <1>1, <3>1, <4>1 DEF Data
    <3>3. ResultNow' = ResultNow
      BY <2>1, <3>1, <3>2 DEF ResultNow, SlotOf
    <3> QED
      BY <1>3, <3>3
  <2>3. CASE t \notin Producers
    <3>1. /\ got' = [got EXCEPT ![t] = elems[SlotOf(pos[t])]] /\ elems' = elems /\ t \in Consumers
      BY <1>4, <2>3 DEF Access, Threads
    <3>2. ResultNow' = ResultNow
      BY <1>1, <2>1, <3>1 DEF ResultNow, SlotOf, Data
    <3> QED
      BY <1>3, <3>2
  <2> QED
    BY <2>2, <2>3
<1>5. CASE ~Access(t)
  <2>1. /\ elems' = elems
        /\ \A u \in Threads : /\ fpc'[u] = "data" <=> fpc[u] = "data"
                              /\ fpc[u] = "data" => pos'[u] = pos[u]
        /\ fpc[t] # "data"
        /\ ~Finish(t) => got' = got
    BY <1>1, <1>5, OtherSteps
  <2>2. CASE ~Finish(t)
    <3>1. ResultNow' = ResultNow
      BY <2>1, <2>2 DEF ResultNow, SlotOf
    <3> QED
      BY <1>3, <3>1
  <2>3. CASE Finish(t)
    <3>1. got' = [got EXCEPT ![t] = Uninit]
      BY <2>3 DEF Finish
    <3>2. ResultNow' = [ResultNow EXCEPT ![t] = Uninit]
      BY <1>1, <2>1, <3>1 DEF ResultNow, SlotOf, Data
    <3> QED
      BY <1>3, <3>2
  <2> QED
    BY <2>2, <2>3
<1> QED
  BY <1>4, <1>5

\* Initially the queue is empty, and nobody has a result.
LEMMA QueueInit == Init => Queue!Init
<1> SUFFICES ASSUME Init PROVE Queue!Init
  OBVIOUS
<1>1. /\ fpc = [t \in Threads |-> "idle"] /\ got = [t \in Threads |-> Uninit]
      /\ writeIdx = Base /\ readIdx = Base
  BY DEF Init
<1>2. (writeIdx - readIdx) % W = 0
  <2>1. 0 \in Int /\ 0 \in Nat /\ W \in Nat /\ 0 = 0 * W + 0 /\ 0 < W /\ Base - Base = 0
    BY Sizes
  <2>2. 0 % W = 0
    BY <2>1, Remainder
  <2> QED
    BY <1>1, <2>1, <2>2
<1>3. [i \in 1 .. (writeIdx - readIdx) % W |-> ItemAt(Plus(readIdx, i - 1))] = <<>>
  BY <1>2
<1>4. ResultNow = [t \in Threads |-> Uninit]
  BY <1>1 DEF ResultNow
<1> QED
  BY <1>3, <1>4 DEF Queue!Init, ResultNow

\* A step of the FIFO is a push, a pop, a result that is forgotten, or nothing to the
\* abstract queue.
LEMMA QueueStep == IInv /\ NotLapped /\ View /\ View' /\ [Next]_vars => [Queue!Next]_(Queue!vars)
<1> SUFFICES ASSUME IInv, NotLapped, View, View', [Next]_vars PROVE [Queue!Next]_(Queue!vars)
  OBVIOUS
<1> DEFINE Q == [i \in 1 .. (writeIdx - readIdx) % W |-> ItemAt(Plus(readIdx, i - 1))]
<1>1. Q = QueueNow /\ Q' = QueueNow'
  BY DEF View
<1>2. ASSUME NEW t \in Threads, Step(t) PROVE Queue!Next \/ UNCHANGED Queue!vars
  <2>1. CASE t \in Producers /\ Claim(t)
    <3>1. /\ Item(t) \in Values /\ Len(Q) < N
          /\ Q' = Append(Q, Item(t)) /\ ResultNow' = ResultNow
      BY <1>1, <2>1, WriterPushes
    <3>2. Queue!Push(Item(t))
      BY <3>1 DEF Queue!Push, ResultNow
    <3> QED
      BY <3>1, <3>2 DEF Queue!Next
  <2>2. CASE t \in Consumers /\ Claim(t)
    <3>1. /\ Q # <<>> /\ Q' = Tail(Q)
          /\ ResultNow' = [ResultNow EXCEPT ![t] = Head(Q)]
      BY <1>1, <2>2, ReaderPops
    <3>2. Queue!Pop(t)
      BY <3>1 DEF Queue!Pop, ResultNow
    <3> QED
      BY <3>2 DEF Queue!Next
  <2>3. CASE ~Claim(t)
    <3>1. Q' = Q /\ (ResultNow' = ResultNow \/ ResultNow' = [ResultNow EXCEPT ![t] = Uninit])
      BY <1>1, <1>2, <2>3, OthersStutter
    <3>2. CASE ResultNow' = ResultNow
      BY <3>1, <3>2 DEF Queue!vars, ResultNow
    <3>3. CASE ResultNow' = [ResultNow EXCEPT ![t] = Uninit]
      <4>1. Queue!Forget(t)
        BY <3>1, <3>3 DEF Queue!Forget, ResultNow
      <4> QED
        BY <4>1 DEF Queue!Next
    <3> QED
      BY <3>1, <3>2, <3>3
  <2> QED
    BY <2>1, <2>2, <2>3 DEF Threads
<1>3. CASE UNCHANGED vars
  BY <1>3 DEF vars, ringVars, callVars, trueVars, Queue!vars, ItemAt, Claimed, Item, Plus, SlotOf
<1> QED
  BY <1>2, <1>3 DEF Next, Stop

\* fifo.rs: the FIFO is a bounded queue.  Items come out whole, once and in the order in
\* which their pushes claimed a position, and never more than N are in it.
THEOREM FifoIsAQueue == Spec /\ []NotLapped => ImplementsQueue
<1>1. IInv /\ IInv' /\ NotLapped /\ [Next]_vars => [Queue!Next]_(Queue!vars)
  <2>1. IInv' => View'
    BY ViewHolds, PTL
  <2> QED
    BY <2>1, ViewHolds, QueueStep
<1> QED
  BY QueueInit, FifoInvariant, <1>1, PTL DEF Spec, ImplementsQueue, Queue!Spec

-----------------------------------------------------------------------------
(* The semaphore by itself: for any number of threads, priorities and posts. *)

BetweenCounts == {"futex", "asleep", "sub"}

\* waiting counts exactly the threads between its increment and its decrement.
WaitingCounts == waiting = Cardinality(At(spc, BetweenCounts))

\* The loop of try_wait only runs while the guess is positive.
GuessPositive == \A t \in SThreads : spc[t] \in {"try", "wait"} => curV[t] > 0

\* The inductive invariant.
SInv == STypeOK /\ Conserved /\ GuessPositive /\ WaitingCounts /\ NoLostWakeup

-----------------------------------------------------------------------------
(* Counting threads *)

\* A count of threads is a number, and counts of included sets are ordered.
LEMMA AtFinite ==
  ASSUME NEW f, NEW P
  PROVE  /\ IsFiniteSet(At(f, P)) /\ Cardinality(At(f, P)) \in Nat
         /\ At(f, P) = {} <=> Cardinality(At(f, P)) = 0
<1>1. At(f, P) \subseteq SThreads /\ IsFiniteSet(SThreads)
  BY SemaphoreAssumption DEF At
<1>2. IsFiniteSet(At(f, P))
  BY <1>1, FS_Subset
<1> QED
  BY <1>2, FS_CardinalityType, FS_EmptySet

One(p, P) == IF p \in P THEN 1 ELSE 0

OnlyMoves(t, f, g) == \A u \in SThreads \ {t} : g[u] = f[u]

\* When one thread moves, a count changes by that thread alone.
LEMMA AtMove ==
  ASSUME NEW f, NEW P, NEW t \in SThreads, NEW g, OnlyMoves(t, f, g)
  PROVE  Cardinality(At(g, P)) = Cardinality(At(f, P)) + One(g[t], P) - One(f[t], P)
<1>0. IsFiniteSet(At(f, P)) /\ Cardinality(At(f, P)) \in Nat
  BY AtFinite
<1>1. CASE (g[t] \in P) <=> (f[t] \in P)
  <2>1. At(g, P) = At(f, P)
    BY <1>1 DEF At, OnlyMoves
  <2>2. One(g[t], P) = One(f[t], P) /\ One(g[t], P) \in Int
    BY <1>1 DEF One
  <2> QED
    BY <1>0, <2>1, <2>2
<1>2. CASE g[t] \in P /\ f[t] \notin P
  <2>1. At(g, P) = At(f, P) \cup {t} /\ t \notin At(f, P)
    BY <1>2 DEF At, OnlyMoves
  <2>2. Cardinality(At(g, P)) = Cardinality(At(f, P)) + 1
    BY <1>0, <2>1, FS_AddElement
  <2>3. One(g[t], P) = 1 /\ One(f[t], P) = 0
    BY <1>2 DEF One
  <2> QED
    BY <1>0, <2>2, <2>3
<1>3. CASE g[t] \notin P /\ f[t] \in P
  <2>1. At(g, P) = At(f, P) \ {t} /\ t \in At(f, P)
    BY <1>3 DEF At, OnlyMoves
  <2>2. Cardinality(At(g, P)) = Cardinality(At(f, P)) - 1
    BY <1>0, <2>1, FS_RemoveElement
  <2>3. One(g[t], P) = 0 /\ One(f[t], P) = 1
    BY <1>3 DEF One
  <2> QED
    BY <1>0, <2>2, <2>3
<1> QED
  BY <1>1, <1>2, <1>3

\* When a post wakes a thread, the count changes by the two of them.
LEMMA AtWake ==
  ASSUME NEW f, NEW P, NEW t \in SThreads, NEW w \in SThreads, NEW g, w # t,
         g[t] = "out", g[w] = "sub", f \in [SThreads -> SPositions],
         \A u \in SThreads \ {t, w} : g[u] = f[u]
  PROVE  Cardinality(At(g, P)) = Cardinality(At(f, P)) + One("out", P) + One("sub", P)
                                   - One(f[t], P) - One(f[w], P)
<1>1. PICK mid : mid = [f EXCEPT ![t] = "out"]
  OBVIOUS
<1>2. mid[t] = "out" /\ OnlyMoves(t, f, mid)
  BY <1>1 DEF OnlyMoves
<1>3. g[w] = "sub" /\ mid[w] = f[w] /\ OnlyMoves(w, mid, g)
  BY <1>1 DEF OnlyMoves
<1>4. Cardinality(At(mid, P)) = Cardinality(At(f, P)) + One(mid[t], P) - One(f[t], P)
  BY <1>2, AtMove
<1>5. Cardinality(At(g, P)) = Cardinality(At(mid, P)) + One(g[w], P) - One(mid[w], P)
  BY <1>3, AtMove
<1>6. Cardinality(At(f, P)) \in Nat /\ \A p : One(p, P) \in Int
  BY AtFinite DEF One
<1> QED
  BY <1>2, <1>3, <1>4, <1>5, <1>6

-----------------------------------------------------------------------------
(* The invariant holds initially and every step preserves it. *)

LEMMA InitSInv == SInit => SInv
<1> SUFFICES ASSUME SInit PROVE SInv
  OBVIOUS
<1> USE SemaphoreAssumption DEF SInit
<1>1. STypeOK
  BY DEF STypeOK, SPositions
<1>2. Conserved /\ GuessPositive
  BY DEF Conserved, GuessPositive
<1>3. At(spc, BetweenCounts) = {} /\ Asleep = {}
  BY DEF At, BetweenCounts, Asleep
<1>4. WaitingCounts /\ NoLostWakeup
  BY <1>3, FS_EmptySet DEF WaitingCounts, NoLostWakeup
<1> QED
  BY <1>1, <1>2, <1>4 DEF SInv

RecheckSet == {"wait", "add", "futex", "sub"}
WakeSet == {"check", "wake"}

\* The shape of most steps: thread t alone moves from position q to position p.
Move(t, q, p) == spc[t] = q /\ p \in SPositions /\ spc' = [spc EXCEPT ![t] = p]

\* What a move does to the four counts of the invariant.
LEMMA MoveCounts ==
  ASSUME STypeOK, NEW t \in SThreads, NEW q, NEW p, Move(t, q, p)
  PROVE  /\ spc' \in [SThreads -> SPositions]
         /\ Cardinality(At(spc, BetweenCounts))' = Cardinality(At(spc, BetweenCounts)) + One(p, BetweenCounts) - One(q, BetweenCounts)
         /\ Cardinality(Asleep)' = Cardinality(Asleep) + One(p, {"asleep"}) - One(q, {"asleep"})
         /\ Cardinality(Rechecking)' = Cardinality(Rechecking) + One(p, RecheckSet) - One(q, RecheckSet)
         /\ Cardinality(Waking)' = Cardinality(Waking) + One(p, WakeSet) - One(q, WakeSet)
<1>1. spc \in [SThreads -> SPositions] /\ spc' = [spc EXCEPT ![t] = p] /\ spc[t] = q
  BY DEF STypeOK, Move
<1>2. \A P : Cardinality(At(spc', P)) = Cardinality(At(spc, P)) + One(p, P) - One(q, P)
  <2>1. spc'[t] = p /\ OnlyMoves(t, spc, spc')
    BY <1>1 DEF OnlyMoves
  <2> QED
    <3> TAKE P
    <3>1. Cardinality(At(spc', P)) = Cardinality(At(spc, P)) + One(spc'[t], P) - One(spc[t], P)
      BY <2>1, AtMove
    <3> QED
      BY <1>1, <2>1, <3>1
<1>3. spc' \in [SThreads -> SPositions]
  BY <1>1 DEF Move
<1> QED
  BY <1>2, <1>3 DEF Asleep, Rechecking, Waking, RecheckSet, WakeSet, At

\* The counts are numbers, and they vanish with their sets.
LEMMA CountTypes ==
  /\ Cardinality(At(spc, BetweenCounts)) \in Nat /\ Cardinality(Asleep) \in Nat
  /\ Cardinality(Rechecking) \in Nat /\ Cardinality(Waking) \in Nat
  /\ (Asleep = {} <=> Cardinality(Asleep) = 0)
  /\ Cardinality(Asleep) <= Cardinality(At(spc, BetweenCounts))
<1>1. Asleep \subseteq At(spc, BetweenCounts)
  BY DEF Asleep, At, BetweenCounts
<1>2. Cardinality(Asleep) <= Cardinality(At(spc, BetweenCounts))
  BY <1>1, AtFinite, FS_Subset
<1> QED
  BY <1>2, AtFinite DEF Asleep, Rechecking, Waking

-----------------------------------------------------------------------------
\* The type invariant and the guesses, which no step but t's own changes.
LEMMA SemaphoreTypeStep ==
  ASSUME STypeOK, GuessPositive, WaitingCounts, NEW t \in SThreads, Inside(t) \/ Calls(t)
  PROVE  STypeOK' /\ GuessPositive'
<1> USE DEF STypeOK, GuessPositive, SPositions, SGoto
<1>1. CASE StartTryWait(t) \/ StartWait(t) \/ StartPost(t) \/ Return(t)
  BY <1>1 DEF StartTryWait, StartWait, StartPost, Start, Return
<1>2. CASE CasOk(t)
  <2>1. curV[t] > 0
    BY <1>2 DEF CasOk
  <2>2. val' \in Nat /\ taken' \in Nat
    BY <1>2, <2>1 DEF CasOk
  <2> QED
    BY <1>2, <2>2 DEF CasOk
<1>3. CASE CasFailed(t)
  <2>1. CASE val > 0
    BY <1>3, <2>1 DEF CasFailed
  <2>2. CASE ~(val > 0)
    BY <1>3, <2>2 DEF CasFailed
  <2> QED
    BY <2>1, <2>2
<1>4. CASE WaitingAdd(t) \/ FutexWait(t) \/ PostAdd(t) \/ PostCheck(t)
  BY <1>4 DEF WaitingAdd, FutexWait, PostAdd, PostCheck
<1>5. CASE WaitingSub(t)
  <2>1. t \in At(spc, BetweenCounts)
    BY <1>5 DEF WaitingSub, At, BetweenCounts
  <2>2. waiting > 0
    BY <2>1, AtFinite DEF WaitingCounts
  <2>3. waiting' \in Nat
    BY <1>5, <2>2 DEF WaitingSub
  <2> QED
    BY <1>5, <2>3 DEF WaitingSub
<1>6. CASE PostWake(t)
  <2>1. CASE Asleep = {} /\ SGoto(t, "out")
    BY <1>6, <2>1 DEF PostWake
  <2>2. CASE \E w \in Asleep : spc' = [spc EXCEPT ![t] = "out", ![w] = "sub"]
    BY <1>6, <2>2 DEF PostWake, Asleep, At
  <2> QED
    BY <1>6, <2>1, <2>2 DEF PostWake
<1> QED
  BY <1>1, <1>2, <1>3, <1>4, <1>5, <1>6 DEF Inside, Calls

\* Units are neither made nor lost.
LEMMA ConservedStep ==
  ASSUME STypeOK, Conserved, NEW t \in SThreads, Inside(t) \/ Calls(t)
  PROVE  Conserved'
<1> USE SemaphoreAssumption DEF STypeOK, Conserved
<1>1. CASE CasOk(t)
  <2>1. curV[t] \in Nat
    OBVIOUS
  <2> QED
    BY <1>1, <2>1 DEF CasOk
<1>2. CASE PostAdd(t)
  BY <1>2 DEF PostAdd
<1>3. CASE CasFailed(t) \/ WaitingAdd(t) \/ FutexWait(t) \/ WaitingSub(t) \/ PostCheck(t) \/ PostWake(t)
  BY <1>3 DEF CasFailed, WaitingAdd, FutexWait, WaitingSub, PostCheck, PostWake
<1>4. CASE Calls(t)
  BY <1>4 DEF Calls, StartTryWait, StartWait, StartPost, Start, Return
<1> QED
  BY <1>1, <1>2, <1>3, <1>4 DEF Inside

\* The two counting invariants.
LEMMA CountStep ==
  ASSUME STypeOK, GuessPositive, WaitingCounts, NoLostWakeup,
         NEW t \in SThreads, Inside(t) \/ Calls(t)
  PROVE  WaitingCounts' /\ NoLostWakeup'
<1>c. /\ Cardinality(At(spc, BetweenCounts)) \in Nat /\ Cardinality(Asleep) \in Nat
      /\ Cardinality(Rechecking) \in Nat /\ Cardinality(Waking) \in Nat
      /\ (Asleep = {} <=> Cardinality(Asleep) = 0)
      /\ Cardinality(Asleep) <= Cardinality(At(spc, BetweenCounts))
      /\ val \in Nat /\ waiting \in Nat
  BY CountTypes DEF STypeOK
<1>d. /\ (Asleep = {} <=> Cardinality(Asleep) = 0)'
      /\ (Cardinality(Rechecking) \in Nat)' /\ (Cardinality(Waking) \in Nat)'
  BY AtFinite DEF Asleep, Rechecking, Waking
<1>1. CASE StartTryWait(t) \/ StartWait(t) \/ StartPost(t)
  <2>1. PICK p \in {"try", "wait", "post"} : Move(t, "out", p) /\ UNCHANGED <<val, waiting>>
    BY <1>1 DEF StartTryWait, StartWait, StartPost, Start, SGoto, Move, SPositions
  <2> QED
    BY <1>c, <1>d, <2>1, MoveCounts
       DEF WaitingCounts, NoLostWakeup, One, BetweenCounts, RecheckSet, WakeSet
<1>2. CASE Return(t)
  <2>1. PICK q \in {"won", "lost"} : Move(t, q, "out") /\ UNCHANGED <<val, waiting>>
    BY <1>2 DEF Return, SGoto, Move, SPositions
  <2> QED
    BY <1>c, <1>d, <2>1, MoveCounts
       DEF WaitingCounts, NoLostWakeup, One, BetweenCounts, RecheckSet, WakeSet
<1>3. CASE CasOk(t)
  <2>1. PICK q \in {"try", "wait"} : Move(t, q, "won") /\ val' = val - 1 /\ UNCHANGED waiting
    BY <1>3 DEF CasOk, SGoto, Move, SPositions
  <2> QED
    BY <1>c, <1>d, <2>1, MoveCounts
       DEF WaitingCounts, NoLostWakeup, One, BetweenCounts, RecheckSet, WakeSet
<1>4. CASE CasFailed(t)
  <2>1. CASE val > 0
    <3>1. UNCHANGED <<val, waiting, spc>>
      BY <1>4, <2>1 DEF CasFailed
    <3> QED
      BY <3>1 DEF WaitingCounts, NoLostWakeup, Asleep, Rechecking, Waking, At
  <2>2. CASE ~(val > 0)
    <3>1. \/ Move(t, "try", "lost") /\ UNCHANGED <<val, waiting>>
          \/ Move(t, "wait", "add") /\ UNCHANGED <<val, waiting>>
      BY <1>4, <2>2 DEF CasFailed, SGoto, Move, SPositions
    <3> QED
      BY <1>c, <1>d, <3>1, MoveCounts
         DEF WaitingCounts, NoLostWakeup, One, BetweenCounts, RecheckSet, WakeSet
  <2> QED
    BY <2>1, <2>2
<1>5. CASE WaitingAdd(t)
  <2>1. Move(t, "add", "futex") /\ waiting' = waiting + 1 /\ UNCHANGED val
    BY <1>5 DEF WaitingAdd, SGoto, Move, SPositions
  <2> QED
    BY <1>c, <1>d, <2>1, MoveCounts
       DEF WaitingCounts, NoLostWakeup, One, BetweenCounts, RecheckSet, WakeSet
<1>6. CASE FutexWait(t)
  <2>1. \/ Move(t, "futex", "asleep") /\ val = 0 /\ UNCHANGED <<val, waiting>>
        \/ Move(t, "futex", "sub") /\ UNCHANGED <<val, waiting>>
    BY <1>6 DEF FutexWait, SGoto, Move, SPositions
  <2> QED
    BY <1>c, <1>d, <2>1, MoveCounts
       DEF WaitingCounts, NoLostWakeup, One, BetweenCounts, RecheckSet, WakeSet
<1>7. CASE WaitingSub(t)
  <2>1. Move(t, "sub", "wait") /\ waiting' = waiting - 1 /\ UNCHANGED val
    BY <1>7 DEF WaitingSub, SGoto, Move, SPositions
  <2> QED
    BY <1>c, <1>d, <2>1, MoveCounts
       DEF WaitingCounts, NoLostWakeup, One, BetweenCounts, RecheckSet, WakeSet
<1>8. CASE PostAdd(t)
  <2>1. Move(t, "post", "check") /\ val' = val + 1 /\ UNCHANGED waiting
    BY <1>8 DEF PostAdd, SGoto, Move, SPositions
  <2> QED
    BY <1>c, <1>d, <2>1, MoveCounts
       DEF WaitingCounts, NoLostWakeup, One, BetweenCounts, RecheckSet, WakeSet
<1>9. CASE PostCheck(t)
  <2>1. \/ Move(t, "check", "wake") /\ UNCHANGED <<val, waiting>>
        \/ Move(t, "check", "out") /\ waiting = 0 /\ UNCHANGED <<val, waiting>>
    <3>1. CASE waiting > 0
      BY <1>9, <3>1 DEF PostCheck, SGoto, Move, SPositions
    <3>2. CASE waiting = 0
      BY <1>9, <3>2 DEF PostCheck, SGoto, Move, SPositions
    <3> QED
      BY <1>c, <3>1, <3>2
  <2> QED
    BY <1>c, <1>d, <2>1, MoveCounts
       DEF WaitingCounts, NoLostWakeup, One, BetweenCounts, RecheckSet, WakeSet
<1>10. CASE PostWake(t)
  <2>1. CASE Asleep = {} /\ SGoto(t, "out")
    <3>1. Move(t, "wake", "out") /\ UNCHANGED <<val, waiting>>
      BY <1>10, <2>1 DEF PostWake, SGoto, Move, SPositions
    <3> QED
      BY <1>c, <1>d, <2>1, <3>1, MoveCounts
         DEF WaitingCounts, NoLostWakeup, One, BetweenCounts, RecheckSet, WakeSet
  <2>2. CASE \E w \in Asleep : spc' = [spc EXCEPT ![t] = "out", ![w] = "sub"]
    <3>1. PICK w \in Asleep : spc' = [spc EXCEPT ![t] = "out", ![w] = "sub"]
      BY <2>2
    <3>2. /\ spc[t] = "wake" /\ w \in SThreads /\ spc[w] = "asleep" /\ w # t
          /\ spc \in [SThreads -> SPositions] /\ UNCHANGED <<val, waiting>>
      BY <1>10, <3>1 DEF PostWake, Asleep, At, STypeOK
    <3>3. \A P : Cardinality(At(spc', P)) = Cardinality(At(spc, P)) + One("out", P) + One("sub", P)
                                              - One(spc[t], P) - One(spc[w], P)
      <4>1. /\ spc'[t] = "out" /\ spc'[w] = "sub"
            /\ \A u \in SThreads \ {t, w} : spc'[u] = spc[u]
        BY <3>1, <3>2
      <4> QED
        BY <3>2, <4>1, AtWake
    <3>6. /\ Cardinality(At(spc, BetweenCounts))' = Cardinality(At(spc, BetweenCounts))
          /\ Cardinality(Asleep)' = Cardinality(Asleep) - 1
          /\ Cardinality(Rechecking)' = Cardinality(Rechecking) + 1
          /\ Cardinality(Waking)' = Cardinality(Waking) - 1
      <4>1. Cardinality(At(spc', BetweenCounts)) = Cardinality(At(spc, BetweenCounts))
        BY <1>c, <3>2, <3>3 DEF One, BetweenCounts
      <4>2. Cardinality(At(spc', {"asleep"})) = Cardinality(At(spc, {"asleep"})) - 1
        BY <1>c, <3>2, <3>3 DEF One, Asleep
      <4>3. Cardinality(At(spc', RecheckSet)) = Cardinality(At(spc, RecheckSet)) + 1
        BY <1>c, <3>2, <3>3 DEF One, RecheckSet, Rechecking
      <4>4. Cardinality(At(spc', WakeSet)) = Cardinality(At(spc, WakeSet)) - 1
        BY <1>c, <3>2, <3>3 DEF One, WakeSet, Waking
      <4> QED
        BY <4>1, <4>2, <4>3, <4>4 DEF Asleep, Rechecking, Waking, RecheckSet, WakeSet, At
    <3> QED
      BY <1>c, <1>d, <3>1, <3>2, <3>6 DEF WaitingCounts, NoLostWakeup
  <2> QED
    BY <1>10, <2>1, <2>2 DEF PostWake
<1> QED
  BY <1>1, <1>2, <1>3, <1>4, <1>5, <1>6, <1>7, <1>8, <1>9, <1>10 DEF Inside, Calls

LEMMA SemaphoreStutterStep == ASSUME SInv, UNCHANGED svars PROVE SInv'
<1>1. /\ val' = val /\ waiting' = waiting /\ spc' = spc /\ curV' = curV
      /\ taken' = taken /\ posted' = posted
  BY DEF svars
<1> QED
  BY <1>1 DEF SInv, STypeOK, Conserved, GuessPositive, WaitingCounts, NoLostWakeup,
              Asleep, Rechecking, Waking, At

\* The semaphore's inductive invariant holds in every reachable state.
THEOREM SemaphoreInductive == SSpec => []SInv
<1>1. SInit => SInv
  BY InitSInv
<1>2. SInv /\ [SNext]_svars => SInv'
  <2> SUFFICES ASSUME SInv, [SNext]_svars PROVE SInv'
    OBVIOUS
  <2>1. CASE UNCHANGED svars
    BY <2>1, SemaphoreStutterStep
  <2>2. ASSUME NEW t \in SThreads, Inside(t) \/ Calls(t) PROVE SInv'
    BY <2>2, SemaphoreTypeStep, ConservedStep, CountStep DEF SInv
  <2> QED
    BY <2>1, <2>2 DEF SNext
<1> QED
  BY <1>1, <1>2, PTL DEF SSpec

\* Type correctness of the semaphore, whatever its callers do.
THEOREM SemaphoreTypeCorrect == SSpec => []STypeOK
<1>1. SInv => STypeOK
  BY DEF SInv
<1> QED
  BY <1>1, SemaphoreInductive, PTL

\* Waits that succeed and units that are left add up to the initial value and the
\* posts: try_wait's optimistic loop never takes a unit twice or loses one.
THEOREM NoUnitLost == SSpec => []Conserved
<1>1. SInv => Conserved
  BY DEF SInv
<1> QED
  BY <1>1, SemaphoreInductive, PTL

\* The comment of the field `waiting` is true at every instant.
THEOREM WaitingIsUpperBound == SSpec => []WaitingBounds
<1>1. SInv => WaitingBounds
  BY CountTypes DEF SInv, WaitingCounts, WaitingBounds
<1> QED
  BY <1>1, SemaphoreInductive, PTL

\* No interleaving of post with wait loses a wake-up.
THEOREM WakeupsAreNotLost == SSpec => []NoLostWakeup
<1>1. SInv => NoLostWakeup
  BY DEF SInv
<1> QED
  BY <1>1, SemaphoreInductive, PTL
=============================================================================
