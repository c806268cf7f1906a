----------------------------- MODULE Semaphore -----------------------------
(***************************************************************************)
(* The futex-based semaphore of nr32-sys (sync::Semaphore), one action per *)
(* atomic instruction or system call, over any interleaving of the threads *)
(* that use it.  There is one core: memory is sequentially consistent.     *)
(* Names that its users have too begin with S.                             *)
(***************************************************************************)
EXTENDS Integers, FiniteSets

CONSTANTS
  SThreads,
  Initial,    \* the value Semaphore::new is given
  sprio,      \* the threads' kernel priorities
  MaxPosts    \* bound: posts the callers begin (each may have one more under way)

ASSUME SemaphoreAssumption ==
  /\ IsFiniteSet(SThreads) /\ Initial \in Nat /\ MaxPosts \in Nat
  /\ sprio \in [SThreads -> Int]

VARIABLES
  val, waiting,   \* the two atomics
  spc,            \* where each thread is: a position in SPositions
  curV,           \* try_wait's cur_v
  taken, posted   \* history: successful waits and posts

svars == <<val, waiting, spc, curV, taken, posted>>

\* "won" and "lost": wait or try_wait has returned.
SPositions == {"out", "try", "wait", "add", "futex", "asleep", "sub",
               "won", "lost", "post", "check", "wake"}
At(f, P) == {t \in SThreads : f[t] \in P}
Asleep == At(spc, {"asleep"})

SInit ==
  /\ val = Initial /\ waiting = 0
  /\ spc = [t \in SThreads |-> "out"] /\ curV = [t \in SThreads |-> 1]
  /\ taken = 0 /\ posted = 0

SGoto(t, p) == spc' = [spc EXCEPT ![t] = p]

-----------------------------------------------------------------------------
(* try_wait and wait *)

\* The loop starts from an optimistic guess of 1.
Start(t, p) ==
  /\ spc[t] = "out" /\ SGoto(t, p)
  /\ curV' = [curV EXCEPT ![t] = 1]
  /\ UNCHANGED <<val, waiting, taken, posted>>

StartTryWait(t) == Start(t, "try")
StartWait(t) == Start(t, "wait")

CasOk(t) ==
  /\ spc[t] \in {"try", "wait"} /\ val = curV[t]
  /\ val' = curV[t] - 1 /\ SGoto(t, "won")
  /\ taken' = taken + 1
  /\ UNCHANGED <<waiting, curV, posted>>

\* The guess was wrong: it becomes the value read, and 0 ends the loop.  A
\* spurious failure reads the guess itself and changes nothing.
CasFailed(t) ==
  /\ spc[t] \in {"try", "wait"} /\ val # curV[t]
  /\ curV' = [curV EXCEPT ![t] = val]
  /\ IF val > 0 THEN UNCHANGED spc
     ELSE SGoto(t, IF spc[t] = "try" THEN "lost" ELSE "add")
  /\ UNCHANGED <<val, waiting, taken, posted>>

WaitingAdd(t) ==
  /\ spc[t] = "add" /\ SGoto(t, "futex")
  /\ waiting' = waiting + 1
  /\ UNCHANGED <<val, curV, taken, posted>>

\* Mutant: the kernel does not compare the futex with the expected value.
FutexWaitUnchecked(t) ==
  /\ spc[t] = "futex" /\ SGoto(t, "asleep")
  /\ UNCHANGED <<val, waiting, curV, taken, posted>>

\* futex_wait(&val, 0, None): the call is refused if val is not 0.  Its
\* timeout saturates, so only a futex_wake ends it.
FutexWait(t) ==
  /\ spc[t] = "futex" /\ SGoto(t, IF val = 0 THEN "asleep" ELSE "sub")
  /\ UNCHANGED <<val, waiting, curV, taken, posted>>

WaitingSub(t) ==
  /\ spc[t] = "sub" /\ SGoto(t, "wait")
  /\ waiting' = waiting - 1
  /\ curV' = [curV EXCEPT ![t] = 1]
  /\ UNCHANGED <<val, taken, posted>>

\* The caller goes on with the result of wait or try_wait.
Return(t) ==
  /\ spc[t] \in {"won", "lost"} /\ SGoto(t, "out")
  /\ UNCHANGED <<val, waiting, curV, taken, posted>>

-----------------------------------------------------------------------------
(* post *)

StartPost(t) == Start(t, "post")

PostAdd(t) ==
  /\ spc[t] = "post" /\ SGoto(t, "check")
  /\ val' = val + 1 /\ posted' = posted + 1
  /\ UNCHANGED <<waiting, curV, taken>>

\* Mutant: a single waiter is not counted.
PostCheckOffByOne(t) ==
  /\ spc[t] = "check" /\ SGoto(t, IF waiting > 1 THEN "wake" ELSE "out")
  /\ UNCHANGED <<val, waiting, curV, taken, posted>>

PostCheck(t) ==
  /\ spc[t] = "check" /\ SGoto(t, IF waiting > 0 THEN "wake" ELSE "out")
  /\ UNCHANGED <<val, waiting, curV, taken, posted>>

\* futex_wake(&val, 1): one waiter of the highest priority, if there is one.
PostWake(t) ==
  /\ spc[t] = "wake"
  /\ \/ Asleep = {} /\ SGoto(t, "out")
     \/ \E w \in Asleep :
          /\ \A u \in Asleep : sprio[u] <= sprio[w]
          /\ spc' = [spc EXCEPT ![t] = "out", ![w] = "sub"]
  /\ UNCHANGED <<val, waiting, curV, taken, posted>>

-----------------------------------------------------------------------------
\* The steps a thread makes inside wait, try_wait or post.
Inside(t) ==
  \/ CasOk(t) \/ CasFailed(t) \/ WaitingAdd(t) \/ FutexWait(t) \/ WaitingSub(t)
  \/ PostAdd(t) \/ PostCheck(t) \/ PostWake(t)

Calls(t) ==
  \/ StartTryWait(t) \/ StartWait(t) \/ Return(t)
  \/ posted < MaxPosts /\ StartPost(t)

\* Every thread may wait for a post that nobody makes.
SNext == \E t \in SThreads : Inside(t) \/ Calls(t)

SSpec == SInit /\ [][SNext]_svars

\* The kernel shares the core among threads of equal priority.
SFairSpec == SSpec /\ \A t \in SThreads : WF_svars(Inside(t) \/ Return(t))

-----------------------------------------------------------------------------
(* Properties *)

STypeOK ==
  /\ val \in Nat /\ waiting \in Nat /\ taken \in Nat /\ posted \in Nat
  /\ spc \in [SThreads -> SPositions] /\ curV \in [SThreads -> Nat]

\* Each unit of the semaphore is taken once: the waits that succeeded never
\* exceed the initial value and the posts made, and none is lost either.
Conserved == taken + val = Initial + posted

\* semaphore.rs:12: waiting is an upper bound on the number of threads asleep, at
\* every instant at which post may look at it.
WaitingBounds == Cardinality(Asleep) <= waiting

\* The threads that will look at the value again before they sleep, and the posts
\* that have yet to wake someone.
Rechecking == At(spc, {"wait", "add", "futex", "sub"})
Waking == At(spc, {"check", "wake"})

\* No wake-up is lost, wherever a post falls between a waiter's failed test and its
\* sleep: while a thread sleeps, each available unit has a thread awake that
\* will find it or a post about to wake one.
NoLostWakeup ==
  Asleep # {} => val <= Cardinality(Rechecking) + Cardinality(Waking)

\* A unit is not left lying while a thread sleeps for it.
UnitsAreTaken == (Asleep # {} /\ val > 0) ~> (Asleep = {} \/ val = 0)
=============================================================================
