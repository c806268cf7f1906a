------------------------------ MODULE MpmcFifo ------------------------------
(***************************************************************************)
(* The bounded MPMC queue of nr32-sys (sync::Fifo): two semaphores and a   *)
(* ring of slots with sequence numbers, one action per atomic instruction, *)
(* under any interleaving of producers and consumers.                      *)
(***************************************************************************)
EXTENDS Integers, FiniteSets, Sequences

CONSTANTS
  Producers, Consumers,
  N,        \* the number of slots, a power of two
  W,        \* 2^(usize::BITS), where the indices wrap
  Base,     \* items that went through the queue before the start
  prio,     \* the threads' kernel priorities
  Loads,    \* bound: the numbers of calls the threads may make
  Uninit    \* the contents of a MaybeUninit never written

Threads == Producers \cup Consumers
Values == UNION {{t} \X (1 .. load[t]) : load \in Loads, t \in Producers}

ASSUME FifoAssumption ==
  /\ IsFiniteSet(Threads) /\ Producers \cap Consumers = {}
  /\ N \in Nat \ {0} /\ W \in Nat /\ W % N = 0 /\ N <= W \div 2 /\ Base \in 0 .. W - 1
  /\ Loads \subseteq [Threads -> Nat] /\ prio \in [Threads -> Int] /\ Uninit \notin Values

VARIABLES
  seq, elems, writeIdx, readIdx,   \* the fields of Fifo
  fpc,      \* where each thread is: a position in FPositions
  pos,      \* wp of do_push, rp of do_pop
  got,      \* v of do_pop
  left,     \* calls the thread has yet to make
  writes, reads, seen,   \* history: writeIdx, readIdx and pos, had they never wrapped
  eVal, eWaiting, eSpc, eCurV, eTaken, ePosted,   \* empty_cells
  fVal, fWaiting, fSpc, fCurV, fTaken, fPosted    \* filled_cells

eVars == <<eVal, eWaiting, eSpc, eCurV, eTaken, ePosted>>
fVars == <<fVal, fWaiting, fSpc, fCurV, fTaken, fPosted>>
ringVars == <<seq, elems, writeIdx, readIdx>>
callVars == <<pos, got, left>>
trueVars == <<writes, reads, seen>>
vars == <<ringVars, fpc, callVars, trueVars, eVars, fVars>>

Empty == INSTANCE Semaphore WITH SThreads <- Threads, sprio <- prio, Initial <- N, MaxPosts <- 0,
  val <- eVal, waiting <- eWaiting, spc <- eSpc, curV <- eCurV, taken <- eTaken, posted <- ePosted
Filled == INSTANCE Semaphore WITH SThreads <- Threads, sprio <- prio, Initial <- 0, MaxPosts <- 0,
  val <- fVal, waiting <- fWaiting, spc <- fSpc, curV <- fCurV, taken <- fTaken, posted <- fPosted

FPositions == {"idle", "take", "load", "seq", "cas", "data", "publish", "give"}

SlotOf(p) == p % N
Slots == 0 .. N - 1

\* wrapping_add
Plus(p, n) == (p + n) % W

\* The position that slot s has next, counted from Base.
NextAt(s) == CHOOSE p \in {Plus(Base, i) : i \in Slots} : SlotOf(p) = s

\* Fifo::new, after Base items were pushed and popped.
Init ==
  /\ seq = [s \in Slots |-> NextAt(s)] /\ elems = [s \in Slots |-> Uninit]
  /\ writeIdx = Base /\ readIdx = Base
  /\ fpc = [t \in Threads |-> "idle"] /\ pos = [t \in Threads |-> Base]
  /\ got = [t \in Threads |-> Uninit] /\ left \in Loads
  /\ writes = Base /\ reads = Base /\ seen = [t \in Threads |-> Base]
  /\ Empty!SInit /\ Filled!SInit

Goto(t, p) == fpc' = [fpc EXCEPT ![t] = p]

\* The value of a producer's present call.
Item(t) == <<t, left[t]>>

-----------------------------------------------------------------------------
(* push, try_push, pop and try_pop: a cell of the right kind is reserved *)

Call(t) ==
  /\ fpc[t] = "idle" /\ left[t] > 0 /\ Goto(t, "take")
  /\ \/ t \in Producers /\ (Empty!StartWait(t) \/ Empty!StartTryWait(t)) /\ UNCHANGED fVars
     \/ t \in Consumers /\ (Filled!StartWait(t) \/ Filled!StartTryWait(t)) /\ UNCHANGED eVars
  /\ UNCHANGED <<ringVars, callVars, trueVars>>

\* A step inside one of the semaphores.
SemaphoreStep(t) ==
  /\ fpc[t] \in {"take", "give"}
  /\ \/ Empty!Inside(t) /\ UNCHANGED fVars
     \/ Filled!Inside(t) /\ UNCHANGED eVars
  /\ UNCHANGED <<ringVars, fpc, callVars, trueVars>>

TakeReturns(t) ==
  IF t \in Producers THEN Empty!Return(t) /\ UNCHANGED fVars
  ELSE Filled!Return(t) /\ UNCHANGED eVars

TakeResult(t) == IF t \in Producers THEN eSpc[t] ELSE fSpc[t]

\* try_push or try_pop refuses.
Refuse(t) ==
  /\ fpc[t] = "take" /\ TakeResult(t) = "lost" /\ TakeReturns(t)
  /\ Goto(t, "idle") /\ left' = [left EXCEPT ![t] = @ - 1]
  /\ UNCHANGED <<ringVars, pos, got, trueVars>>

-----------------------------------------------------------------------------
(* do_push and do_pop *)

Index(t) == IF t \in Producers THEN writeIdx ELSE readIdx
TrueIndex(t) == IF t \in Producers THEN writes ELSE reads

\* The thread reads the index it is to claim.
See(t) ==
  /\ pos' = [pos EXCEPT ![t] = Index(t)]
  /\ seen' = [seen EXCEPT ![t] = TrueIndex(t)]
  /\ UNCHANGED <<got, left, writes, reads>>

Proceed(t) ==
  /\ fpc[t] = "take" /\ TakeResult(t) = "won" /\ TakeReturns(t)
  /\ Goto(t, "load")
  /\ UNCHANGED <<ringVars, callVars, trueVars>>

\* write_idx.load or read_idx.load
LoadIndex(t) ==
  /\ fpc[t] = "load" /\ Goto(t, "seq") /\ See(t)
  /\ UNCHANGED <<ringVars, eVars, fVars>>

\* The slot at position p is free for a writer, or filled for a reader.
Expected(t, p) == seq[SlotOf(p)] = IF t \in Producers THEN p ELSE Plus(p, 1)

CheckSeq(t) ==
  /\ fpc[t] = "seq" /\ Goto(t, IF Expected(t, pos[t]) THEN "cas" ELSE "load")
  /\ UNCHANGED <<ringVars, callVars, trueVars, eVars, fVars>>

\* The index moves on from the position t has seen.
Advance(t) ==
  /\ IF t \in Producers
     THEN writeIdx' = Plus(pos[t], 1) /\ writes' = writes + 1 /\ UNCHANGED <<readIdx, reads>>
     ELSE readIdx' = Plus(pos[t], 1) /\ reads' = reads + 1 /\ UNCHANGED <<writeIdx, writes>>
  /\ UNCHANGED seen

\* Mutant: the index is stored without comparing it.
ClaimBlind(t) ==
  /\ fpc[t] = "cas" /\ Goto(t, "data") /\ Advance(t)
  /\ UNCHANGED <<seq, elems, callVars, eVars, fVars>>

\* Mutant: the sequence number is published when the slot is claimed.
ClaimPublishes(t) ==
  /\ fpc[t] = "cas" /\ Index(t) = pos[t] /\ Goto(t, "data")
  /\ seq' = [seq EXCEPT ![SlotOf(pos[t])] = Plus(pos[t], IF t \in Producers THEN 1 ELSE N)]
  /\ Advance(t)
  /\ UNCHANGED <<elems, callVars, eVars, fVars>>

\* compare_exchange_weak succeeds.
Claim(t) ==
  /\ fpc[t] = "cas" /\ Index(t) = pos[t] /\ Goto(t, "data") /\ Advance(t)
  /\ UNCHANGED <<seq, elems, callVars, eVars, fVars>>

\* Somebody claimed the slot, or the failure is spurious.
ClaimFails(t) ==
  /\ fpc[t] = "cas" /\ Goto(t, "seq") /\ See(t)
  /\ UNCHANGED <<ringVars, eVars, fVars>>

\* The value is written to the slot or read from it.
Access(t) ==
  /\ fpc[t] = "data" /\ Goto(t, "publish")
  /\ IF t \in Producers
     THEN elems' = [elems EXCEPT ![SlotOf(pos[t])] = Item(t)] /\ UNCHANGED got
     ELSE got' = [got EXCEPT ![t] = elems[SlotOf(pos[t])]] /\ UNCHANGED elems
  /\ UNCHANGED <<seq, writeIdx, readIdx, pos, left, trueVars, eVars, fVars>>

\* seq moves on to the reader of this round, or to the writer of the next one.
Publish(t) ==
  /\ fpc[t] = "publish" /\ Goto(t, "give")
  /\ seq' = [seq EXCEPT ![SlotOf(pos[t])] = Plus(pos[t], IF t \in Producers THEN 1 ELSE N)]
  /\ IF t \in Producers THEN Filled!StartPost(t) /\ UNCHANGED eVars
     ELSE Empty!StartPost(t) /\ UNCHANGED fVars
  /\ UNCHANGED <<elems, writeIdx, readIdx, callVars, trueVars>>

\* post has returned, and the call with it.
Finish(t) ==
  /\ fpc[t] = "give" /\ eSpc[t] = "out" /\ fSpc[t] = "out" /\ Goto(t, "idle")
  /\ left' = [left EXCEPT ![t] = @ - 1]
  /\ got' = [got EXCEPT ![t] = Uninit]
  /\ UNCHANGED <<ringVars, pos, trueVars, eVars, fVars>>

-----------------------------------------------------------------------------
Working(t) ==
  \/ SemaphoreStep(t) \/ Refuse(t) \/ Proceed(t) \/ LoadIndex(t) \/ CheckSeq(t)
  \/ Claim(t) \/ Access(t) \/ Publish(t) \/ Finish(t)

Step(t) == Call(t) \/ Working(t) \/ ClaimFails(t)

\* Every thread has made its calls, or waits for a call nobody will make.
Stuck(t) ==
  \/ fpc[t] = "idle" /\ left[t] = 0
  \/ eSpc[t] = "asleep" \/ fSpc[t] = "asleep"
Stop == (\A t \in Threads : Stuck(t)) /\ UNCHANGED vars

Next == (\E t \in Threads : Step(t)) \/ Stop

Spec == Init /\ [][Next]_vars

\* Threads of equal priority share the core; a weak compare-and-exchange that is
\* retried succeeds in the end.
FairSpec ==
  /\ Spec
  /\ \A t \in Threads : WF_vars(Step(t)) /\ SF_vars(Claim(t))

-----------------------------------------------------------------------------
(* Properties *)

TypeOK ==
  /\ seq \in [Slots -> 0 .. W - 1] /\ elems \in [Slots -> Values \cup {Uninit}]
  /\ writeIdx \in 0 .. W - 1 /\ readIdx \in 0 .. W - 1
  /\ fpc \in [Threads -> FPositions] /\ pos \in [Threads -> 0 .. W - 1]
  /\ got \in [Threads -> Values \cup {Uninit}] /\ left \in [Threads -> Nat]
  /\ writes \in Nat /\ reads \in Nat /\ seen \in [Threads -> Nat]
  /\ Empty!STypeOK /\ Filled!STypeOK

\* A slot is accessed by one thread at a time, and a reader only finds a value a
\* writer has finished writing.
NoSlotRace ==
  LET owners == {t \in Threads : fpc[t] \in {"data", "publish"}}
  IN  /\ \A t, u \in owners : t # u => SlotOf(pos[t]) # SlotOf(pos[u])
      /\ \A t \in owners \cap Consumers : elems[SlotOf(pos[t])] # Uninit

-----------------------------------------------------------------------------
(* The queue implements the abstract one: a push takes effect when the     *)
(* write index is claimed, a pop when the read index is.                   *)

Claimed(p) == {t \in Producers : fpc[t] = "data" /\ pos[t] = p}

\* The item at position p: in its slot, or in the hands of the writer that
\* claimed the position and has not written it yet.
ItemAt(p) ==
  IF Claimed(p) # {} THEN Item(CHOOSE t \in Claimed(p) : TRUE) ELSE elems[SlotOf(p)]

Queue == INSTANCE BoundedQueue WITH
  Capacity <- N, Nothing <- Uninit,
  queue <- [i \in 1 .. (writeIdx - readIdx) % W |-> ItemAt(Plus(readIdx, i - 1))],
  result <- [t \in Threads |->
               IF fpc[t] = "data" /\ t \in Consumers THEN elems[SlotOf(pos[t])] ELSE got[t]]

\* Items come out whole, once, and in the order in which their pushes claimed a
\* position, and never more than N are in the queue.
ImplementsQueue == Queue!Spec

SleepsForLack(t) == (eSpc[t] = "asleep" /\ eVal = 0) \/ (fSpc[t] = "asleep" /\ fVal = 0)

\* Threads of equal priority never block each other for good: a call always
\* comes to its end, unless it sleeps and no cell of its kind is left.
CallsEnd ==
  \A t \in Threads : []<>(fpc[t] = "idle" \/ SleepsForLack(t))
=============================================================================
