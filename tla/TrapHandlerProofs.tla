------------------------- MODULE TrapHandlerProofs -------------------------
(***************************************************************************)
(* For any number of tasks, stacks and programs, each task finds the       *)
(* registers it is to find, and SC is atomic.                              *)
(*                                                                         *)
(* A trap is a chain of operators on k, the kernel's record.  Good(k, e,   *)
(* S) says that k has every live task where e expects it, and in its frame *)
(* what e expects if it is one of S: the caller of a system call is not,   *)
(* until its registers are saved at the end.                               *)
(***************************************************************************)
EXTENDS TrapHandler, FiniteSetTheorems, TLAPS

UserPlaces == [task : Tasks, depth : 0 .. StackMax]
Wanteds == UNION {[D -> SUBSET Int] : D \in SUBSET Registers}
Expectations == [Tasks -> [pc : Nat, sp : UserPlaces, x : Wanteds]]
TaskRecords == [ra : Nat, sp : Stacks, state : States]
Kernels ==
  [ tasks : [Tasks -> TaskRecords], cur : Tasks, mepc : Nat, mscratch : Stacks,
    stack : [Stacks -> Frame] ]

Live(k) == {t \in Tasks : k.tasks[t].state # "Dead"}

\* Where task t goes on, and where its frame is.
RaOf(k, t) == IF t = k.cur THEN k.mepc ELSE k.tasks[t].ra
SpOf(k, t) == IF t = k.cur THEN k.mscratch ELSE k.tasks[t].sp

Parked(k, e) ==
  \A t \in Live(k) : e[t].sp.task = t /\ RaOf(k, t) = e[t].pc /\ SpOf(k, t) = Down(e[t].sp)
Framed(k, e, S) == \A t \in Live(k) \cap S : Meets(k.stack[Down(e[t].sp)], e[t].x)
Good(k, e, S) == k \in Kernels /\ e \in Expectations /\ Parked(k, e) /\ Framed(k, e, S)

Others == Tasks \ {cur}
Now == [tasks |-> tasks, cur |-> cur, mepc |-> pc, mscratch |-> Down(sp), stack |-> stack]

ContextInv ==
  /\ programs \in Programs
  /\ x \in Frame /\ sp \in UserPlaces
  /\ tasks[cur].state = "Running"
  /\ Good(Now, expect, Others)
  /\ RegistersKept

-----------------------------------------------------------------------------
(* Places and expectations *)

LEMMA Constants ==
  /\ Tasks \subseteq Nat /\ {Idle, First} \subseteq Tasks /\ StackMax \in Nat \ {0} /\ CodeMax \in Nat
  /\ Idle = 0 /\ First = 1
  /\ \A p \in Programs : p.contexts \subseteq Frame /\ p.depth \in 0 .. StackMax
BY TrapAssumption DEF Idle, First, Frame

LEMMA DownPlace ==
  ASSUME NEW p \in UserPlaces
  PROVE  /\ Down(p) \in Stacks /\ Down(p).task = p.task /\ Up(Down(p)) = p
         /\ \A q \in UserPlaces : Down(q) = Down(p) => q = p
<1>1. Down(p) = [task |-> p.task, depth |-> p.depth + 1]
  BY DEF UserPlaces, Down
<1>2. ASSUME NEW q \in UserPlaces, Down(q) = Down(p)
      PROVE  q = p
  <2>1. Down(q) = [task |-> q.task, depth |-> q.depth + 1]
    BY DEF UserPlaces, Down
  <2>2. q.task = p.task /\ q.depth + 1 = p.depth + 1
    BY <1>1, <1>2, <2>1
  <2>3. q = [task |-> q.task, depth |-> q.depth] /\ p = [task |-> p.task, depth |-> p.depth]
    BY DEF UserPlaces
  <2> QED BY <2>2, <2>3 DEF UserPlaces
<1>3. Up(Down(p)) = [task |-> p.task, depth |-> (p.depth + 1) - 1]
  BY <1>1 DEF Up
<1>4. p = [task |-> p.task, depth |-> p.depth]
  BY DEF UserPlaces
<1> QED BY <1>1, <1>2, <1>3, <1>4, Constants DEF UserPlaces, Stacks

LEMMA WantedIntro ==
  ASSUME NEW D \in SUBSET Registers, NEW w \in [D -> SUBSET Int]
  PROVE  w \in Wanteds
BY DEF Wanteds

LEMMA FrameExcept ==
  ASSUME NEW f \in Frame, NEW r, NEW v \in Int
  PROVE  [f EXCEPT ![r] = v] \in Frame
BY DEF Frame

\* What Late does to one expectation.
LEMMA LateWanted ==
  ASSUME NEW w \in Wanteds, NEW v \in SUBSET Int
  PROVE  LET u == [w EXCEPT !["a0"] = v]
         IN  /\ u \in Wanteds /\ DOMAIN u = DOMAIN w /\ DOMAIN w \subseteq Registers
             /\ \A r \in DOMAIN w : u[r] = IF r = "a0" THEN v ELSE w[r]
<1>1. PICK D \in SUBSET Registers : w \in [D -> SUBSET Int]
  BY DEF Wanteds
<1>2. [w EXCEPT !["a0"] = v] \in [D -> SUBSET Int]
  BY <1>1
<1> QED BY <1>1, <1>2, WantedIntro

LEMMA LateExpectations ==
  ASSUME NEW e \in Expectations, NEW late \in SUBSET Tasks
  PROVE  /\ Late(e, late) \in Expectations
         /\ \A t \in Tasks : Late(e, late)[t].pc = e[t].pc /\ Late(e, late)[t].sp = e[t].sp
         /\ \A t \in Tasks \ late : Late(e, late)[t] = e[t]
         /\ \A t \in late :
              /\ DOMAIN Late(e, late)[t].x = DOMAIN e[t].x
              /\ \A r \in DOMAIN e[t].x :
                   Late(e, late)[t].x[r] = IF r = "a0" THEN {Timeout} ELSE e[t].x[r]
<1>1. ASSUME NEW t \in late
      PROVE  /\ Late(e, late)[t] = [e[t] EXCEPT !.x = [e[t].x EXCEPT !["a0"] = {Timeout}]]
             /\ e[t] \in [pc : Nat, sp : UserPlaces, x : Wanteds]
  BY DEF Late, Expectations
<1>2. {Timeout} \in SUBSET Int
  BY DEF Timeout
<1>3. ASSUME NEW t \in late
      PROVE  /\ Late(e, late)[t] \in [pc : Nat, sp : UserPlaces, x : Wanteds]
             /\ Late(e, late)[t].pc = e[t].pc /\ Late(e, late)[t].sp = e[t].sp
             /\ Late(e, late)[t].x = [e[t].x EXCEPT !["a0"] = {Timeout}]
  <2> DEFINE u == [e[t].x EXCEPT !["a0"] = {Timeout}]
  <2>1. e[t].x \in Wanteds
    BY <1>1
  <2>2. u \in Wanteds
    BY <1>2, <2>1, LateWanted
  <2> HIDE DEF u
  <2>3. Late(e, late)[t] = [e[t] EXCEPT !.x = u]
    BY <1>1 DEF u
  <2>4. Late(e, late)[t].x = u /\ Late(e, late)[t] \in [pc : Nat, sp : UserPlaces, x : Wanteds]
        /\ Late(e, late)[t].pc = e[t].pc /\ Late(e, late)[t].sp = e[t].sp
    BY <1>1, <2>2, <2>3
  <2> QED BY <2>4 DEF u
<1>4. \A t \in Tasks \ late : Late(e, late)[t] = e[t]
  BY DEF Late
<1>5. Late(e, late) = [t \in Tasks |-> Late(e, late)[t]]
  BY DEF Late
<1>6. Late(e, late) \in Expectations
  BY <1>3, <1>4, <1>5 DEF Expectations
<1>7. ASSUME NEW t \in late
      PROVE  /\ DOMAIN Late(e, late)[t].x = DOMAIN e[t].x
             /\ \A r \in DOMAIN e[t].x : Late(e, late)[t].x[r] = IF r = "a0" THEN {Timeout} ELSE e[t].x[r]
  <2> DEFINE u == [e[t].x EXCEPT !["a0"] = {Timeout}]
  <2>1. e[t].x \in Wanteds
    BY <1>1
  <2>2. DOMAIN u = DOMAIN e[t].x /\ \A r \in DOMAIN e[t].x : u[r] = IF r = "a0" THEN {Timeout} ELSE e[t].x[r]
    BY <1>2, <2>1, LateWanted
  <2>3. Late(e, late)[t].x = u
    BY <1>3
  <2> HIDE DEF u
  <2> QED BY <2>2, <2>3
<1> QED BY <1>3, <1>4, <1>6, <1>7

-----------------------------------------------------------------------------
(* The scheduler *)

LEMMA SaveCurrentGood ==
  ASSUME NEW k, NEW e, NEW S, Good(k, e, S)
  PROVE  LET j == SaveCurrent(k)
         IN  /\ Good(j, e, S) /\ j.cur = k.cur /\ j.stack = k.stack
             /\ \A t \in Tasks : j.tasks[t].state = k.tasks[t].state
             /\ \A t \in Live(j) : j.tasks[t].ra = e[t].pc /\ j.tasks[t].sp = Down(e[t].sp)
<1> DEFINE j == SaveCurrent(k)
           r == [k.tasks[k.cur] EXCEPT !.ra = k.mepc, !.sp = k.mscratch]
<1>1. k \in Kernels /\ e \in Expectations
  BY DEF Good
<1>2. j = [k EXCEPT !.tasks = [k.tasks EXCEPT ![k.cur] = r]]
  BY <1>1 DEF SaveCurrent, Kernels, TaskRecords
<1>3. r \in TaskRecords /\ r.ra = k.mepc /\ r.sp = k.mscratch /\ r.state = k.tasks[k.cur].state
  BY <1>1 DEF Kernels, TaskRecords
<1> HIDE DEF r
<1>4. /\ j.cur = k.cur /\ j.stack = k.stack /\ j.mepc = k.mepc /\ j.mscratch = k.mscratch
      /\ j.tasks = [k.tasks EXCEPT ![k.cur] = r] /\ j \in Kernels
  BY <1>1, <1>2, <1>3 DEF Kernels
<1> HIDE DEF j
<1>5. \A t \in Tasks : /\ j.tasks[t].state = k.tasks[t].state
                       /\ j.tasks[t].ra = RaOf(k, t) /\ j.tasks[t].sp = SpOf(k, t)
                       /\ RaOf(j, t) = RaOf(k, t) /\ SpOf(j, t) = SpOf(k, t)
  BY <1>1, <1>3, <1>4 DEF Kernels, RaOf, SpOf
<1>6. Live(j) = Live(k)
  BY <1>5 DEF Live
<1>7. \A t \in Live(j) : j.tasks[t].ra = e[t].pc /\ j.tasks[t].sp = Down(e[t].sp)
  BY <1>5, <1>6 DEF Good, Parked, Live
<1>8. Good(j, e, S)
  BY <1>1, <1>4, <1>5, <1>6 DEF Good, Parked, Framed, Live
<1> QED BY <1>4, <1>5, <1>7, <1>8 DEF j

LEMMA BankTimeoutGood ==
  ASSUME NEW k, NEW e, NEW S, Good(k, e, S), NEW late \in SUBSET InState(k, "Sleeping"),
         \A t \in Live(k) : k.tasks[t].ra = e[t].pc /\ k.tasks[t].sp = Down(e[t].sp)
  PROVE  LET j == BankTimeout(k, late)
         IN  /\ Good(j, Late(e, late), S) /\ j.cur = k.cur
             /\ \A t \in Tasks : j.tasks[t].state = IF t \in late THEN "Running" ELSE k.tasks[t].state
             /\ \A t \in Live(j) : j.tasks[t].ra = e[t].pc /\ j.tasks[t].sp = Down(e[t].sp)
             /\ \A p \in Stacks : \A r \in Registers \ {"a0"} : j.stack[p][r] = k.stack[p][r]
<1> DEFINE j == BankTimeout(k, late)
           Banked(p) == \E t \in late : k.tasks[t].sp = p
           frames == [p \in Stacks |-> IF Banked(p) THEN [k.stack[p] EXCEPT !["a0"] = Timeout] ELSE k.stack[p]]
           records == [t \in Tasks |-> IF t \in late THEN [k.tasks[t] EXCEPT !.state = "Running"] ELSE k.tasks[t]]
<1>1. k \in Kernels /\ e \in Expectations /\ late \subseteq Tasks
  BY DEF Good, InState
<1>2. /\ j.cur = k.cur /\ j.mepc = k.mepc /\ j.mscratch = k.mscratch /\ j.stack = frames /\ j.tasks = records
      /\ j = [tasks |-> j.tasks, cur |-> j.cur, mepc |-> j.mepc, mscratch |-> j.mscratch, stack |-> j.stack]
  <2>1. j = [k EXCEPT !.stack = frames, !.tasks = records]
    BY DEF BankTimeout
  <2> HIDE DEF j, frames, records
  <2> QED BY <1>1, <2>1 DEF Kernels
<1> HIDE DEF j, Banked
<1>3. j.stack \in [Stacks -> Frame]
  <2>1. ASSUME NEW p \in Stacks
        PROVE  k.stack[p] \in Frame /\ [k.stack[p] EXCEPT !["a0"] = Timeout] \in Frame
    <3>1. k.stack[p] \in Frame
      BY <1>1 DEF Kernels
    <3>2. Timeout \in Int
      BY DEF Timeout
    <3> QED BY <3>1, <3>2, FrameExcept, Zenon
  <2> QED BY <1>2, <2>1
<1>4. j.tasks \in [Tasks -> TaskRecords]
  BY <1>1, <1>2 DEF Kernels, TaskRecords, States
<1>5. j \in Kernels
  BY <1>1, <1>2, <1>3, <1>4 DEF Kernels
<1>6. \A t \in Tasks : /\ j.tasks[t].state = IF t \in late THEN "Running" ELSE k.tasks[t].state
                       /\ j.tasks[t].ra = k.tasks[t].ra /\ j.tasks[t].sp = k.tasks[t].sp
  BY <1>1, <1>2 DEF Kernels, TaskRecords
<1>7. Live(j) = Live(k) /\ late \subseteq Live(k)
  BY <1>1, <1>6 DEF Live, InState
<1>8. \A t \in Tasks : RaOf(j, t) = RaOf(k, t) /\ SpOf(j, t) = SpOf(k, t)
  BY <1>2, <1>6 DEF RaOf, SpOf
<1>9. \A p \in Stacks : \A r \in Registers :
        j.stack[p][r] = IF Banked(p) /\ r = "a0" THEN Timeout ELSE k.stack[p][r]
  BY <1>1, <1>2 DEF Kernels, Frame
<1>10. Parked(j, Late(e, late))
  BY <1>1, <1>7, <1>8, LateExpectations DEF Good, Parked, Live
<1>11. ASSUME NEW t \in Live(k) \cap S
       PROVE  Meets(j.stack[Down(e[t].sp)], Late(e, late)[t].x)
  <2> DEFINE p == Down(e[t].sp)
  <2>1. /\ t \in Tasks /\ e[t].sp \in UserPlaces /\ e[t].sp.task = t /\ k.tasks[t].sp = p
        /\ Meets(k.stack[p], e[t].x) /\ e[t].x \in Wanteds
    BY <1>1 DEF Live, Good, Parked, Framed, Expectations
  <2>2. p \in Stacks /\ DOMAIN e[t].x \subseteq Registers
    BY <2>1, DownPlace, LateWanted
  <2>3. Banked(p) <=> t \in late
    <3>1. ASSUME NEW u \in late, k.tasks[u].sp = p
          PROVE  u = t
      <4>1. u \in Live(k) /\ u \in Tasks
        BY <1>1, <1>7
      <4>2. e[u].sp \in UserPlaces /\ e[u].sp.task = u /\ Down(e[u].sp) = p
        BY <1>1, <3>1, <4>1 DEF Good, Parked, Expectations
      <4> QED BY <2>1, <4>2, DownPlace
    <3> QED BY <2>1, <3>1 DEF Banked
  <2> HIDE DEF p
  <2>4. CASE t \in late
    <3>1. \A r \in DOMAIN e[t].x : j.stack[p][r] = IF r = "a0" THEN Timeout ELSE k.stack[p][r]
      BY <1>9, <2>2, <2>3, <2>4
    <3> QED BY <1>1, <2>1, <2>4, <3>1, LateExpectations DEF Meets, p
  <2>5. CASE t \notin late
    <3>1. \A r \in DOMAIN e[t].x : j.stack[p][r] = k.stack[p][r]
      BY <1>9, <2>2, <2>3, <2>5
    <3> QED BY <1>1, <2>1, <2>5, <3>1, LateExpectations DEF Meets, p
  <2> QED BY <2>4, <2>5
<1>12. Framed(j, Late(e, late), S)
  BY <1>1, <1>7, <1>11, LateExpectations DEF Framed, Live
<1>13. Good(j, Late(e, late), S)
  BY <1>1, <1>5, <1>10, <1>12, LateExpectations DEF Good
<1>14. \A t \in Live(j) : j.tasks[t].ra = e[t].pc /\ j.tasks[t].sp = Down(e[t].sp)
  BY <1>6, <1>7 DEF Live
<1>15. \A p \in Stacks : \A r \in Registers \ {"a0"} : j.stack[p][r] = k.stack[p][r]
  BY <1>9
<1> QED BY <1>2, <1>6, <1>13, <1>14, <1>15 DEF j

LEMMA SwitchToGood ==
  ASSUME NEW k, NEW e, NEW S, Good(k, e, S), NEW next \in Live(k),
         \A t \in Live(k) : k.tasks[t].ra = e[t].pc /\ k.tasks[t].sp = Down(e[t].sp)
  PROVE  LET j == SwitchTo(k, next)
         IN  Good(j, e, S) /\ j.cur = next /\ j.tasks = k.tasks /\ j.stack = k.stack
<1>1. k \in Kernels /\ e \in Expectations /\ next \in Tasks
  BY DEF Good, Live
<1>2. CASE next = k.cur
  BY <1>1, <1>2 DEF SwitchTo
<1>3. CASE next # k.cur
  <2> DEFINE j == SwitchTo(k, next)
  <2>1. /\ j.cur = next /\ j.tasks = k.tasks /\ j.stack = k.stack
        /\ j.mepc = k.tasks[next].ra /\ j.mscratch = k.tasks[next].sp /\ j \in Kernels
    BY <1>1, <1>3 DEF SwitchTo, Kernels, TaskRecords
  <2> HIDE DEF j
  <2>2. Live(j) = Live(k)
    BY <2>1 DEF Live
  <2>3. Parked(j, e)
    BY <1>1, <2>1, <2>2 DEF Good, Parked, RaOf, SpOf
  <2>4. Framed(j, e, S)
    BY <2>1, <2>2 DEF Good, Framed
  <2> QED BY <1>1, <2>1, <2>3, <2>4 DEF Good, j
<1> QED BY <1>2, <1>3

\* What the scheduler leaves alone on the stacks.
Kept(k, j) == \A p \in Stacks : \A r \in Registers \ {"a0"} : j.stack[p][r] = k.stack[p][r]

LEMMA ScheduledGood ==
  ASSUME NEW k, NEW e, NEW S, Good(k, e, S), NEW o \in Scheduled(k)
  PROVE  /\ o.late \in SUBSET Tasks /\ Good(o.k, Late(e, o.late), S) /\ Live(o.k) = Live(k)
         /\ o.k.tasks[o.k.cur].state = "Running" /\ Kept(k, o.k)
<1>1. PICK c \in Choices(k) : o = [k |-> Schedule(k, c.late, c.next), late |-> c.late]
  BY DEF Scheduled
<1> DEFINE i == SaveCurrent(k)
           j == BankTimeout(i, c.late)
           l == SwitchTo(j, c.next)
<1>2. o.k = l /\ o.late = c.late
  BY <1>1 DEF Schedule
<1>3. c.late \in SUBSET InState(k, "Sleeping") /\ c.next \in InState(k, "Running") \cup c.late
  BY DEF Choices
<1>4. /\ Good(i, e, S) /\ i.cur = k.cur /\ i.stack = k.stack
      /\ \A t \in Tasks : i.tasks[t].state = k.tasks[t].state
      /\ \A t \in Live(i) : i.tasks[t].ra = e[t].pc /\ i.tasks[t].sp = Down(e[t].sp)
  BY SaveCurrentGood
<1> HIDE DEF i
<1>5. c.late \in SUBSET InState(i, "Sleeping") /\ c.late \in SUBSET Tasks
  BY <1>3, <1>4 DEF InState
<1>6. /\ Good(j, Late(e, c.late), S) /\ j.cur = i.cur
      /\ \A t \in Tasks : j.tasks[t].state = IF t \in c.late THEN "Running" ELSE i.tasks[t].state
      /\ \A t \in Live(j) : j.tasks[t].ra = e[t].pc /\ j.tasks[t].sp = Down(e[t].sp)
      /\ \A p \in Stacks : \A r \in Registers \ {"a0"} : j.stack[p][r] = i.stack[p][r]
  BY <1>4, <1>5, BankTimeoutGood
<1> HIDE DEF j
<1>7. c.next \in Tasks /\ j.tasks[c.next].state = "Running"
  BY <1>3, <1>4, <1>5, <1>6 DEF InState
<1>8. c.next \in Live(j)
  BY <1>7 DEF Live
<1>9. \A t \in Live(j) : j.tasks[t].ra = Late(e, c.late)[t].pc /\ j.tasks[t].sp = Down(Late(e, c.late)[t].sp)
  BY <1>4, <1>5, <1>6, LateExpectations DEF Good, Live
<1>10. Good(l, Late(e, c.late), S) /\ l.cur = c.next /\ l.tasks = j.tasks /\ l.stack = j.stack
  BY <1>6, <1>8, <1>9, SwitchToGood
<1> HIDE DEF l
<1>11. Live(l) = Live(k)
  BY <1>3, <1>4, <1>6, <1>10 DEF Live, InState
<1>12. Kept(k, l)
  BY <1>4, <1>6, <1>10 DEF Kept
<1> QED BY <1>2, <1>5, <1>7, <1>10, <1>11, <1>12

LEMMA LateNone ==
  ASSUME NEW e \in Expectations
  PROVE  Late(e, {}) = e
BY DEF Late, Expectations

LEMMA MaybeScheduledGood ==
  ASSUME NEW k, NEW e, NEW S, Good(k, e, S), k.tasks[k.cur].state = "Running", NEW o \in MaybeScheduled(k)
  PROVE  /\ o.late \in SUBSET Tasks /\ Good(o.k, Late(e, o.late), S) /\ Live(o.k) = Live(k)
         /\ o.k.tasks[o.k.cur].state = "Running" /\ Kept(k, o.k)
<1>1. CASE o \in Scheduled(k)
  BY <1>1, ScheduledGood
<1>2. CASE o = [k |-> k, late |-> {}]
  <2>1. o.k = k /\ o.late = {} /\ Late(e, {}) = e
    BY <1>2, LateNone DEF Good
  <2> QED BY <2>1 DEF Kept
<1> QED BY <1>1, <1>2 DEF MaybeScheduled

LEMMA SetStateGood ==
  ASSUME NEW k, NEW e, NEW S, Good(k, e, S), NEW ts \in SUBSET Tasks, NEW state \in States,
         state = "Dead" \/ ts \subseteq Live(k)
  PROVE  LET j == SetState(k, ts, state)
         IN  /\ Good(j, e, S) /\ j.cur = k.cur /\ j.stack = k.stack /\ j.mscratch = k.mscratch
             /\ \A t \in Tasks : j.tasks[t].state = IF t \in ts THEN state ELSE k.tasks[t].state
<1> DEFINE records == [t \in Tasks |-> IF t \in ts THEN [k.tasks[t] EXCEPT !.state = state] ELSE k.tasks[t]]
           j == SetState(k, ts, state)
<1>1. k \in Kernels /\ e \in Expectations
  BY DEF Good
<1>2. records \in [Tasks -> TaskRecords]
  BY <1>1 DEF Kernels, TaskRecords
<1>3. \A t \in Tasks : /\ records[t].state = IF t \in ts THEN state ELSE k.tasks[t].state
                       /\ records[t].ra = k.tasks[t].ra /\ records[t].sp = k.tasks[t].sp
  BY <1>1 DEF Kernels, TaskRecords
<1>4. j = [k EXCEPT !.tasks = records]
  BY DEF SetState
<1> HIDE DEF records, j
<1>5. /\ j.tasks = records /\ j.cur = k.cur /\ j.stack = k.stack /\ j.mscratch = k.mscratch /\ j.mepc = k.mepc
      /\ j \in Kernels
  BY <1>1, <1>2, <1>4 DEF Kernels
<1>6. Live(j) \subseteq Live(k)
  BY <1>3, <1>5 DEF Live
<1>7. \A t \in Tasks : RaOf(j, t) = RaOf(k, t) /\ SpOf(j, t) = SpOf(k, t)
  BY <1>3, <1>5 DEF RaOf, SpOf
<1>8. Good(j, e, S)
  BY <1>1, <1>5, <1>6, <1>7 DEF Good, Parked, Framed, Live
<1> QED BY <1>3, <1>5, <1>8 DEF j

LEMMA GoodAgree ==
  ASSUME NEW k, NEW e, NEW S, Good(k, e, S), NEW f \in Expectations,
         \A t \in Live(k) : f[t].pc = e[t].pc /\ f[t].sp = e[t].sp,
         \A t \in Live(k) \cap S : f[t].x = e[t].x
  PROVE  Good(k, f, S)
<1>1. k \in Kernels /\ Parked(k, f)
  BY DEF Good, Parked
<1>2. Framed(k, f, S)
  BY DEF Good, Framed
<1> QED BY <1>1, <1>2 DEF Good

\* A task's expectation holds in the stack alone at its own frame.
LEMMA StackGood ==
  ASSUME NEW k, NEW e, NEW S, NEW R, Good(k, e, S), NEW stacks \in [Stacks -> Frame],
         \A t \in Live(k) \cap R : \/ t \in S /\ stacks[Down(e[t].sp)] = k.stack[Down(e[t].sp)]
                                   \/ Meets(stacks[Down(e[t].sp)], e[t].x)
  PROVE  LET j == [k EXCEPT !.stack = stacks]
         IN  /\ Good(j, e, R) /\ j.stack = stacks /\ j.cur = k.cur /\ j.tasks = k.tasks
             /\ j.mscratch = k.mscratch /\ j.mepc = k.mepc
<1> DEFINE j == [k EXCEPT !.stack = stacks]
<1>1. k \in Kernels /\ e \in Expectations
  BY DEF Good
<1>2. /\ j.stack = stacks /\ j.cur = k.cur /\ j.tasks = k.tasks /\ j.mscratch = k.mscratch /\ j.mepc = k.mepc
      /\ j \in Kernels
  BY <1>1 DEF Kernels
<1> HIDE DEF j
<1>3. Live(j) = Live(k)
  BY <1>2 DEF Live
<1>4. Parked(j, e)
  BY <1>2, <1>3 DEF Good, Parked, RaOf, SpOf
<1>5. Framed(j, e, R)
  BY <1>2, <1>3 DEF Good, Framed
<1> QED BY <1>1, <1>2, <1>4, <1>5 DEF Good, j

-----------------------------------------------------------------------------
(* The trap, from the instruction to mret *)

LEMMA DownTask ==
  ASSUME NEW p \in UserPlaces, NEW q \in UserPlaces, p.task # q.task
  PROVE  Down(p) # Down(q)
BY DownPlace

\* The facts about the task that traps.
LEMMA AboutCurrent ==
  ASSUME ContextInv
  PROVE  /\ cur \in Tasks /\ pc \in Nat /\ sp \in UserPlaces /\ sp.task = cur /\ cur \in Live(Now)
         /\ tasks \in [Tasks -> TaskRecords] /\ stack \in [Stacks -> Frame] /\ x \in Frame
         /\ expect \in Expectations
<1>1. Now \in Kernels /\ expect \in Expectations
  BY DEF ContextInv, Good
<1>2. cur \in Tasks /\ tasks \in [Tasks -> TaskRecords] /\ stack \in [Stacks -> Frame]
  BY <1>1 DEF Now, Kernels
<1>3. pc \in Nat
  BY <1>1, <1>2 DEF ContextInv, RegistersKept, Expectations
<1>4. cur \in Live(Now)
  BY <1>2 DEF ContextInv, Live, Now
<1>5. sp.task = cur
  BY <1>4 DEF ContextInv, Good, Parked, RegistersKept
<1> QED BY <1>1, <1>2, <1>3, <1>4, <1>5 DEF ContextInv

LEMMA TrappedGood ==
  ASSUME ContextInv, NEW p \in Nat, NEW e \in Expectations,
         \A t \in Others : e[t] = expect[t], e[cur].pc = p, e[cur].sp = sp
  PROVE  LET k == Trapped(p)
         IN  /\ Good(k, e, Others) /\ k.cur = cur /\ k.tasks = tasks /\ k.mscratch = Down(sp)
             /\ k.stack[Down(sp)]["s0"] = x["s0"]
<1> DEFINE k == Trapped(p)
           stacks == [stack EXCEPT ![Down(sp)] = [@ EXCEPT !["s0"] = x["s0"]]]
<1>1. /\ cur \in Tasks /\ sp \in UserPlaces /\ sp.task = cur
      /\ tasks \in [Tasks -> TaskRecords] /\ stack \in [Stacks -> Frame] /\ x \in Frame
      /\ expect \in Expectations
  BY AboutCurrent
<1>2. "s0" \in Registers
  BY DEF Registers, Preserved
<1>3. Down(sp) \in Stacks
  BY <1>1, DownPlace
<1>4. x["s0"] \in Int /\ stack[Down(sp)] \in Frame
  BY <1>1, <1>2, <1>3 DEF Frame
<1>5. [stack[Down(sp)] EXCEPT !["s0"] = x["s0"]] \in Frame
  BY <1>4, FrameExcept
<1>6. stacks \in [Stacks -> Frame] /\ \A q \in Stacks : q # Down(sp) => stacks[q] = stack[q]
  BY <1>1, <1>3, <1>5
<1>7. stacks[Down(sp)]["s0"] = x["s0"]
  BY <1>1, <1>2, <1>3, <1>4 DEF Frame
<1> HIDE DEF stacks
<1>8. /\ k.tasks = tasks /\ k.cur = cur /\ k.mepc = p /\ k.mscratch = Down(sp) /\ k.stack = stacks
      /\ k \in Kernels
  BY <1>1, <1>3, <1>6 DEF Trapped, Kernels, stacks
<1> HIDE DEF k
<1>9. Live(k) = Live(Now)
  BY <1>8 DEF Live, Now
<1>10. ASSUME NEW t \in Live(k)
       PROVE  e[t].sp.task = t /\ RaOf(k, t) = e[t].pc /\ SpOf(k, t) = Down(e[t].sp)
  <2>1. CASE t = cur
    BY <1>1, <1>8, <2>1 DEF RaOf, SpOf
  <2>2. CASE t # cur
    <3>1. t \in Others /\ RaOf(k, t) = RaOf(Now, t) /\ SpOf(k, t) = SpOf(Now, t)
      BY <1>8, <2>2 DEF Others, Live, RaOf, SpOf, Now
    <3> QED BY <1>9, <3>1 DEF ContextInv, Good, Parked
  <2> QED BY <2>1, <2>2
<1>11. ASSUME NEW t \in Live(k) \cap Others
       PROVE  Meets(k.stack[Down(e[t].sp)], e[t].x)
  <2>1. e[t].sp \in UserPlaces /\ e[t].sp.task # sp.task
    BY <1>1, <1>10 DEF Expectations, Others
  <2>2. Down(e[t].sp) # Down(sp) /\ Down(e[t].sp) \in Stacks
    BY <1>1, <2>1, DownPlace
  <2>3. k.stack[Down(e[t].sp)] = Now.stack[Down(e[t].sp)]
    BY <1>6, <1>8, <2>2 DEF Now
  <2> QED BY <1>9, <2>3 DEF ContextInv, Good, Framed
<1>12. Good(k, e, Others)
  BY <1>8, <1>10, <1>11 DEF Good, Parked, Framed
<1> QED BY <1>7, <1>8, <1>12 DEF k

\* The trap of a caller, which is to go on after the instruction.
LEMMA AtCallGood ==
  ASSUME ContextInv, NEW v \in SUBSET Int, NEW a1 \in Int
  PROVE  /\ AfterCall(v, a1) \in [pc : Nat, sp : UserPlaces, x : Wanteds]
         /\ AfterCall(v, a1).pc = pc + 1 /\ AfterCall(v, a1).sp = sp
         /\ LET e == [expect EXCEPT ![cur] = AfterCall(v, a1)]
            IN  e \in Expectations /\ Good(AtCall, e, Others)
         /\ AtCall.cur = cur /\ AtCall.tasks = tasks /\ AtCall.stack[Down(sp)]["s0"] = x["s0"]
<1> DEFINE D == Preserved \cup Results
           w == [r \in D |-> CASE r = "a0" -> v [] r = "a1" -> {a1} [] OTHER -> {x[r]}]
           e == [expect EXCEPT ![cur] = AfterCall(v, a1)]
<1>1. cur \in Tasks /\ pc \in Nat /\ sp \in UserPlaces /\ x \in Frame /\ expect \in Expectations
  BY AboutCurrent
<1>2. D \in SUBSET Registers
  BY DEF Registers
<1>3. w \in [D -> SUBSET Int]
  BY <1>1, <1>2 DEF Frame
<1>4. w \in Wanteds
  BY <1>2, <1>3, WantedIntro
<1>5. AfterCall(v, a1) = [pc |-> pc + 1, sp |-> sp, x |-> w]
  BY DEF AfterCall
<1> HIDE DEF w
<1>6. /\ AfterCall(v, a1) \in [pc : Nat, sp : UserPlaces, x : Wanteds]
      /\ AfterCall(v, a1).pc = pc + 1 /\ AfterCall(v, a1).sp = sp
  BY <1>1, <1>4, <1>5
<1>7. e \in Expectations /\ e[cur] = AfterCall(v, a1) /\ \A t \in Others : e[t] = expect[t]
  BY <1>1, <1>6 DEF Expectations, Others
<1> HIDE DEF e
<1>8. pc + 1 \in Nat /\ e[cur].pc = pc + 1 /\ e[cur].sp = sp
  BY <1>1, <1>6, <1>7
<1>9. /\ Good(AtCall, e, Others)
      /\ AtCall.cur = cur /\ AtCall.tasks = tasks /\ AtCall.stack[Down(sp)]["s0"] = x["s0"]
  BY <1>7, <1>8, TrappedGood DEF AtCall
<1> QED BY <1>6, <1>7, <1>9 DEF e

LEMMA MretGood ==
  ASSUME NEW k, NEW e, Good(k, e, Tasks \ {k.cur}), k.tasks[k.cur].state = "Running",
         Mret(k), x' \in Frame, Meets(x', e[k.cur].x), expect' = e, programs \in Programs, programs' = programs
  PROVE  ContextInv'
<1> DEFINE t == k.cur
<1>1. k \in Kernels /\ e \in Expectations /\ t \in Tasks /\ t \in Live(k)
  BY DEF Good, Kernels, Live
<1>2. e[t].sp \in UserPlaces /\ e[t].pc \in Nat
  BY <1>1 DEF Expectations
<1>3. k.mepc = e[t].pc /\ k.mscratch = Down(e[t].sp) /\ e[t].sp.task = t
  BY <1>1 DEF Good, Parked, RaOf, SpOf
<1>4. sp' = e[t].sp /\ pc' = e[t].pc /\ cur' = t /\ tasks' = k.tasks
  BY <1>2, <1>3, DownPlace DEF Mret
<1>5. stack' = [p \in Stacks |-> IF p.task = t THEN Unused ELSE k.stack[p]]
  BY DEF Mret
<1>6. Unused \in Frame
  BY DEF Unused, Frame, Junk
<1>7. stack' \in [Stacks -> Frame]
  BY <1>1, <1>5, <1>6 DEF Kernels
<1>8. /\ Now'.tasks = k.tasks /\ Now'.cur = t /\ Now'.mepc = k.mepc /\ Now'.mscratch = k.mscratch
      /\ Now'.stack = stack' /\ Now' \in Kernels
  BY <1>1, <1>2, <1>3, <1>4, <1>7, DownPlace DEF Now, Kernels
<1>9. Live(Now') = Live(k) /\ \A u \in Tasks : RaOf(Now', u) = RaOf(k, u) /\ SpOf(Now', u) = SpOf(k, u)
  BY <1>8 DEF Live, RaOf, SpOf
<1>10. Parked(Now', e)
  BY <1>1, <1>9 DEF Good, Parked, Live
<1>11. ASSUME NEW u \in Live(k) \cap (Tasks \ {t})
       PROVE  Meets(Now'.stack[Down(e[u].sp)], e[u].x)
  <2>1. e[u].sp \in UserPlaces /\ e[u].sp.task = u
    BY <1>1 DEF Good, Parked, Expectations
  <2>2. Down(e[u].sp) \in Stacks /\ Down(e[u].sp).task # t
    BY <2>1, DownPlace
  <2>3. Now'.stack[Down(e[u].sp)] = k.stack[Down(e[u].sp)]
    BY <1>5, <1>8, <2>2
  <2> QED BY <2>3 DEF Good, Framed
<1>12. Framed(Now', e, Tasks \ {t})
  BY <1>9, <1>11 DEF Framed
<1>13. Good(Now', expect', Others')
  BY <1>1, <1>4, <1>8, <1>10, <1>12 DEF Good, Others
<1>14. RegistersKept'
  BY <1>4 DEF RegistersKept
<1>15. programs' \in Programs /\ x' \in Frame /\ sp' \in UserPlaces /\ tasks'[cur'].state = "Running"
  BY <1>2, <1>4
<1> QED BY <1>13, <1>14, <1>15 DEF ContextInv

LEMMA ReturnToUserGood ==
  ASSUME NEW k, NEW e, Good(k, e, Tasks), k.tasks[k.cur].state = "Running",
         ReturnToUser(k), expect' = e, programs \in Programs, programs' = programs
  PROVE  ContextInv'
<1>1. k \in Kernels /\ k.cur \in Tasks /\ k.cur \in Live(k)
  BY DEF Good, Kernels, Live
<1>2. k.mscratch = Down(e[k.cur].sp) /\ Meets(k.stack[k.mscratch], e[k.cur].x)
  BY <1>1 DEF Good, Parked, Framed, SpOf
<1>3. x' \in Frame /\ Meets(x', e[k.cur].x) /\ Mret(k)
  BY <1>1, <1>2 DEF ReturnToUser, Kernels
<1>4. Good(k, e, Tasks \ {k.cur})
  BY DEF Good, Framed
<1> QED BY <1>3, <1>4, MretGood

LEMMA MeetsAfterCall ==
  ASSUME NEW frame, NEW v, NEW a1, frame["a0"] \in v, frame["a1"] = a1, \A r \in Preserved : frame[r] = x[r]
  PROVE  Meets(frame, AfterCall(v, a1).x)
BY DEF Meets, AfterCall, Preserved, Results

LEMMA ReturnedFrame ==
  ASSUME ContextInv, NEW a0 \in Int, NEW a1 \in Int
  PROVE  /\ Returned(a0, a1) \in Frame /\ Returned(a0, a1)["a0"] = a0 /\ Returned(a0, a1)["a1"] = a1
         /\ \A r \in Preserved : Returned(a0, a1)[r] = x[r]
<1>1. x \in Frame
  BY AboutCurrent
<1>2. \A r \in Registers : x[r] \in Int
  BY <1>1 DEF Frame
<1>3. /\ Returned(a0, a1)["a0"] = a0 /\ Returned(a0, a1)["a1"] = a1
      /\ \A r \in Preserved : Returned(a0, a1)[r] = x[r]
  BY DEF Returned, Registers, Preserved, Results, Temporaries
<1>4. Returned(a0, a1) \in [Registers -> Int]
  BY <1>2 DEF Returned, Registers, Preserved, Results, Temporaries, Zero, Junk
<1> QED BY <1>3, <1>4 DEF Frame

LEMMA EndCallGood ==
  ASSUME ContextInv, NEW k, NEW e, Good(k, e, Others), k.tasks[k.cur].state = "Running",
         NEW a0 \in Int, NEW a1 \in Int, NEW v \in SUBSET Int, a0 \in v,
         e[cur] = AfterCall(v, a1), k.stack[Down(sp)]["s0"] = x["s0"],
         EndCall(k, a0, a1), expect' = e, programs' = programs
  PROVE  ContextInv'
<1> DEFINE R == Returned(a0, a1)
<1>1. /\ cur \in Tasks /\ sp \in UserPlaces /\ sp.task = cur /\ x \in Frame /\ programs \in Programs
      /\ k \in Kernels /\ e \in Expectations
  BY AboutCurrent DEF ContextInv, Good
<1>2. e[cur].sp = sp /\ e[cur].x = AfterCall(v, a1).x
  BY DEF AfterCall
<1>3. R \in Frame /\ R["a0"] = a0 /\ R["a1"] = a1 /\ \A r \in Preserved : R[r] = x[r]
  BY ReturnedFrame
<1> HIDE DEF R
<1>4. CASE k.cur = cur
  <2>1. x' = [R EXCEPT !["s0"] = k.stack[k.mscratch]["s0"]] /\ Mret(k)
    BY <1>4 DEF EndCall, R
  <2>2. cur \in Live(k)
    BY <1>1, <1>4 DEF Live
  <2>3. k.mscratch = Down(sp)
    BY <1>2, <1>4, <2>2 DEF Good, Parked, SpOf
  <2>4. x' = [R EXCEPT !["s0"] = x["s0"]] /\ x["s0"] \in Int
    BY <1>1, <2>1, <2>3 DEF Frame, Registers, Preserved
  <2>5. x' \in Frame
    BY <1>3, <2>4, FrameExcept
  <2>6. x'["a0"] = a0 /\ x'["a1"] = a1 /\ \A r \in Preserved : x'[r] = x[r]
    BY <1>3, <2>4 DEF Frame, Registers, Preserved, Results
  <2>7. Meets(x', e[k.cur].x)
    BY <1>2, <1>4, <2>6, MeetsAfterCall
  <2> QED BY <1>1, <1>4, <2>1, <2>5, <2>7, MretGood DEF Others
<1>5. CASE k.cur # cur
  <2> DEFINE saved == CallerFrame(k.stack[Down(sp)], a0, a1)
             stacks == [k.stack EXCEPT ![Down(sp)] = saved]
             j == [k EXCEPT !.stack = stacks]
  <2>1. ReturnToUser(j)
    BY <1>5 DEF EndCall
  <2>2. Down(sp) \in Stacks /\ k.stack \in [Stacks -> Frame]
    BY <1>1, DownPlace DEF Kernels
  <2>3. saved \in Frame
    BY <1>3, <2>2 DEF Frame, CallerFrame, R
  <2>4. /\ saved["a0"] = a0 /\ saved["a1"] = a1
        /\ \A r \in Preserved : saved[r] = x[r]
    BY <1>3 DEF CallerFrame, SavedByCall, Registers, Preserved, Results, R
  <2> HIDE DEF saved
  <2>5. /\ stacks \in [Stacks -> Frame] /\ stacks[Down(sp)] = saved
        /\ \A p \in Stacks : p # Down(sp) => stacks[p] = k.stack[p]
    BY <2>2, <2>3
  <2> HIDE DEF stacks
  <2>6. ASSUME NEW t \in Live(k) \cap Tasks
        PROVE  \/ t \in Others /\ stacks[Down(e[t].sp)] = k.stack[Down(e[t].sp)]
               \/ Meets(stacks[Down(e[t].sp)], e[t].x)
    <3>1. CASE t = cur
      BY <1>2, <2>4, <2>5, <3>1, MeetsAfterCall
    <3>2. CASE t # cur
      <4>1. e[t].sp \in UserPlaces /\ e[t].sp.task = t
        BY <1>1 DEF Good, Parked, Expectations
      <4> QED BY <1>1, <2>5, <3>2, <4>1, DownPlace, DownTask DEF Others
    <3> QED BY <3>1, <3>2
  <2>7. Good(j, e, Tasks) /\ j.cur = k.cur /\ j.tasks = k.tasks
    BY <2>5, <2>6, StackGood
  <2> HIDE DEF j
  <2> QED BY <1>1, <2>1, <2>7, ReturnToUserGood
<1> QED BY <1>4, <1>5

\* A system call with a result, on what it has made of the kernel's state.
LEMMA EcallGood ==
  ASSUME ContextInv, NEW k, NEW wanted \in Expectations, NEW a0 \in Int, NEW a1 \in Int,
         Good(k, [wanted EXCEPT ![cur] = AfterCall({a0}, a1)], Others), k.stack[Down(sp)]["s0"] = x["s0"],
         NEW call, NEW outcomes,
         \/ outcomes \subseteq Scheduled(k)
         \/ outcomes \subseteq MaybeScheduled(k) /\ k.tasks[k.cur].state = "Running",
         Ecall(call, outcomes, a0, a1, wanted)
  PROVE  ContextInv'
<1> DEFINE f == [wanted EXCEPT ![cur] = AfterCall({a0}, a1)]
<1>1. PICK o \in outcomes :
        /\ EndCall(o.k, a0, a1)
        /\ expect' = [Late(wanted, o.late) EXCEPT ![cur] = AfterCall(IF cur \in o.late THEN {a0, Timeout} ELSE {a0}, a1)]
  BY DEF Ecall
<1> DEFINE v == IF cur \in o.late THEN {a0, Timeout} ELSE {a0}
           e == [Late(wanted, o.late) EXCEPT ![cur] = AfterCall(v, a1)]
<1>2. programs' = programs /\ expect' = e
  BY <1>1 DEF Ecall
<1>3. v \in SUBSET Int /\ a0 \in v /\ {a0} \in SUBSET Int
  BY DEF Timeout
<1> HIDE DEF v
<1>4. /\ o.late \in SUBSET Tasks /\ Good(o.k, Late(f, o.late), Others)
      /\ o.k.tasks[o.k.cur].state = "Running" /\ Kept(k, o.k)
  <2> HIDE DEF f
  <2>1. Good(k, f, Others)
    BY DEF f
  <2>2. CASE o \in Scheduled(k)
    BY <2>1, <2>2, ScheduledGood
  <2>3. CASE o \in MaybeScheduled(k) /\ k.tasks[k.cur].state = "Running"
    BY <2>1, <2>3, MaybeScheduledGood
  <2> QED BY <2>2, <2>3
<1>5. cur \in Tasks /\ sp \in UserPlaces
  BY AboutCurrent
<1>6. /\ AfterCall({a0}, a1).pc = AfterCall(v, a1).pc /\ AfterCall({a0}, a1).sp = AfterCall(v, a1).sp
      /\ AfterCall(v, a1) \in [pc : Nat, sp : UserPlaces, x : Wanteds]
  BY <1>3, AtCallGood DEF AfterCall
<1>7. /\ Late(wanted, o.late) \in Expectations /\ f \in Expectations /\ f[cur] = AfterCall({a0}, a1)
      /\ \A t \in Tasks \ {cur} : f[t] = wanted[t]
  BY <1>4, <1>5, LateExpectations DEF Good, Expectations
<1>8. e \in Expectations /\ e[cur] = AfterCall(v, a1) /\ \A t \in Tasks \ {cur} : e[t] = Late(wanted, o.late)[t]
  BY <1>5, <1>6, <1>7 DEF Expectations
<1> HIDE DEF e, f
<1>9. \A t \in Tasks \ {cur} : Late(f, o.late)[t] = Late(wanted, o.late)[t]
  BY <1>7 DEF Late
<1>10. Late(f, o.late)[cur].pc = f[cur].pc /\ Late(f, o.late)[cur].sp = f[cur].sp
  BY <1>4, <1>5, <1>7, LateExpectations
<1>11. \A t \in Tasks : e[t].pc = Late(f, o.late)[t].pc /\ e[t].sp = Late(f, o.late)[t].sp
  BY <1>6, <1>7, <1>8, <1>9, <1>10
<1>12. Good(o.k, e, Others)
  BY <1>4, <1>8, <1>9, <1>11, GoodAgree DEF Live, Others
<1>13. o.k.stack[Down(sp)]["s0"] = x["s0"]
  BY <1>4, <1>5, DownPlace DEF Kept, Registers, Preserved
<1> QED BY <1>1, <1>2, <1>3, <1>4, <1>8, <1>12, <1>13, EndCallGood

-----------------------------------------------------------------------------
(* The actions *)

LEMMA CallerRuns ==
  ASSUME ContextInv
  PROVE  /\ AtCall.tasks = tasks /\ AtCall.cur = cur /\ tasks[cur].state = "Running"
         /\ Zero \in Int /\ Timeout \in Int /\ expect \in Expectations
         /\ \A a1 \in Int, v \in SUBSET Int : Good(AtCall, [expect EXCEPT ![cur] = AfterCall(v, a1)], Others)
         /\ AtCall.stack[Down(sp)]["s0"] = x["s0"]
         /\ cur \in Tasks /\ cur \in Live(AtCall)
<1>1. Zero \in Int /\ Timeout \in Int
  BY DEF Zero, Timeout
<1>2. /\ AtCall.cur = cur /\ AtCall.tasks = tasks /\ AtCall.stack[Down(sp)]["s0"] = x["s0"]
      /\ \A a1 \in Int, v \in SUBSET Int : Good(AtCall, [expect EXCEPT ![cur] = AfterCall(v, a1)], Others)
  BY <1>1, AtCallGood
<1> QED BY <1>1, <1>2, AboutCurrent DEF ContextInv, Live

LEMMA CallOtherGood ==
  ASSUME ContextInv, CallOther
  PROVE  ContextInv'
<1> DEFINE outcomes == {[k |-> AtCall, late |-> {}]}
<1>1. Ecall("Other", outcomes, Zero, Zero, expect)
  BY DEF CallOther
<1>2. outcomes \subseteq MaybeScheduled(AtCall)
  BY DEF MaybeScheduled
<1> HIDE DEF outcomes
<1>3. Good(AtCall, [expect EXCEPT ![cur] = AfterCall({Zero}, Zero)], Others)
  BY CallerRuns
<1> QED BY <1>1, <1>2, <1>3, CallerRuns, EcallGood

\* A call that leaves its caller in some state and schedules.
LEMMA BlockingCallGood ==
  ASSUME ContextInv, NEW call, NEW state \in States \ {"Dead"}, NEW a0 \in Int,
         Ecall(call, Scheduled(SetState(AtCall, {cur}, state)), a0, Zero, expect)
  PROVE  ContextInv'
<1> DEFINE k == SetState(AtCall, {cur}, state)
           f == [expect EXCEPT ![cur] = AfterCall({a0}, Zero)]
<1>1. Good(AtCall, f, Others)
  BY CallerRuns
<1> HIDE DEF f
<1>2. {cur} \in SUBSET Tasks /\ {cur} \subseteq Live(AtCall)
  BY CallerRuns
<1>3. Good(k, f, Others) /\ k.stack = AtCall.stack
  BY <1>1, <1>2, SetStateGood
<1>4. k.stack[Down(sp)]["s0"] = x["s0"]
  BY <1>3, CallerRuns
<1> HIDE DEF k
<1>5. Ecall(call, Scheduled(k), a0, Zero, expect)
  BY DEF k
<1> QED BY <1>3, <1>4, <1>5, CallerRuns, EcallGood DEF f

LEMMA CallSleepGood ==
  ASSUME ContextInv, CallSleep
  PROVE  ContextInv'
<1>1. PICK state \in {"Sleeping", "Running"} :
        Ecall("Sleep", Scheduled(SetState(AtCall, {cur}, state)), Timeout, Zero, expect)
  BY DEF CallSleep
<1>2. state \in States \ {"Dead"}
  BY DEF States
<1> QED BY <1>1, <1>2, CallerRuns, BlockingCallGood

LEMMA CallFutexWaitGood ==
  ASSUME ContextInv, CallFutexWait
  PROVE  ContextInv'
<1>1. "Sleeping" \in States \ {"Dead"}
  BY DEF States
<1> QED BY <1>1, CallerRuns, BlockingCallGood DEF CallFutexWait

LEMMA CallWaitGood ==
  ASSUME ContextInv, CallWait
  PROVE  ContextInv'
<1>1. "Waiting" \in States \ {"Dead"}
  BY DEF States
<1> QED BY <1>1, CallerRuns, BlockingCallGood DEF CallWait

LEMMA CallFutexWakeGood ==
  ASSUME ContextInv, CallFutexWake
  PROVE  ContextInv'
<1>1. PICK woken \in SUBSET InState(AtCall, "Sleeping") :
        Ecall("FutexWake", MaybeScheduled(SetState(AtCall, woken, "Running")), Zero, Cardinality(woken), expect)
  BY DEF CallFutexWake
<1> DEFINE k == SetState(AtCall, woken, "Running")
           f == [expect EXCEPT ![cur] = AfterCall({Zero}, Cardinality(woken))]
<1>2. woken \in SUBSET Tasks /\ woken \subseteq Live(AtCall) /\ cur \notin woken
  BY CallerRuns DEF InState, Live
<1>3. Cardinality(woken) \in Int
  <2>1. IsFiniteSet(woken)
    BY <1>2, TrapAssumption, FS_Subset
  <2> QED BY <2>1, FS_CardinalityType
<1>4. Good(AtCall, f, Others)
  BY <1>3, CallerRuns
<1> HIDE DEF f
<1>5. "Running" \in States
  BY DEF States
<1>6. Good(k, f, Others) /\ k.stack = AtCall.stack /\ k.cur = cur /\ k.tasks[cur].state = "Running"
  BY <1>2, <1>4, <1>5, CallerRuns, SetStateGood
<1> HIDE DEF k
<1>7. Ecall("FutexWake", MaybeScheduled(k), Zero, Cardinality(woken), expect)
  BY <1>1 DEF k
<1> QED BY <1>3, <1>6, <1>7, CallerRuns, EcallGood DEF f

\* The first frame of a task meets what it is to find at its start.
LEMMA AtStartGood ==
  ASSUME NEW t \in Tasks, NEW context \in Frame
  PROVE  /\ AtStart(t, context) \in [pc : Nat, sp : UserPlaces, x : Wanteds]
         /\ AtStart(t, context).pc = Runner /\ AtStart(t, context).sp = Top(t) /\ Runner \in Nat
         /\ Top(t) \in UserPlaces /\ Top(t).task = t /\ Down(Top(t)) \in Stacks
<1> DEFINE D == {"a0", "a1", "gp"}
           w == [r \in D |-> {context[r]}]
<1>1. D \in SUBSET Registers
  BY DEF Registers, Preserved, Results
<1>2. w \in [D -> SUBSET Int]
  BY <1>1 DEF Frame
<1>3. w \in Wanteds
  BY <1>1, <1>2, WantedIntro
<1>4. Top(t) \in UserPlaces /\ Top(t).task = t
  BY Constants DEF Top, UserPlaces
<1>5. Runner \in Nat
  BY DEF Runner
<1>6. AtStart(t, context) = [pc |-> Runner, sp |-> Top(t), x |-> w]
  BY DEF AtStart
<1> HIDE DEF w
<1> QED BY <1>3, <1>4, <1>5, <1>6, DownPlace

LEMMA NewTaskGood ==
  ASSUME NEW k, NEW e, NEW S, Good(k, e, S), NEW t \in InState(k, "Dead"), t # k.cur, NEW context \in Frame
  PROVE  LET j == NewTask(k, t, context)
         IN  /\ Good(j, [e EXCEPT ![t] = AtStart(t, context)], S) /\ j.cur = k.cur
             /\ \A u \in Tasks \ {t} : j.tasks[u] = k.tasks[u]
             /\ \A p \in Stacks : p.task # t => j.stack[p] = k.stack[p]
<1> DEFINE j == NewTask(k, t, context)
           f == [e EXCEPT ![t] = AtStart(t, context)]
           p0 == Down(Top(t))
           record == [ra |-> Runner, sp |-> p0, state |-> "Running"]
           frame == [r \in Registers |-> IF r \in {"a0", "a1", "gp"} THEN context[r] ELSE Zero]
<1>1. k \in Kernels /\ e \in Expectations /\ t \in Tasks
  BY DEF Good, InState
<1>2. /\ AtStart(t, context) \in [pc : Nat, sp : UserPlaces, x : Wanteds]
      /\ AtStart(t, context).pc = Runner /\ AtStart(t, context).sp = Top(t) /\ Runner \in Nat
      /\ Top(t) \in UserPlaces /\ Top(t).task = t /\ p0 \in Stacks /\ p0.task = t
  BY <1>1, AtStartGood, DownPlace
<1>3. Meets(frame, AtStart(t, context).x)
  BY DEF Meets, AtStart, Registers, Preserved, Results
<1>4. frame \in Frame
  BY DEF Frame, Zero
<1>5. j = [k EXCEPT !.tasks = [k.tasks EXCEPT ![t] = record], !.stack = [k.stack EXCEPT ![p0] = frame]]
  BY DEF NewTask
<1> HIDE DEF j, frame, p0
<1>6. record \in TaskRecords
  BY <1>2 DEF TaskRecords, States
<1> HIDE DEF record
<1>7. /\ j.tasks = [k.tasks EXCEPT ![t] = record] /\ j.stack = [k.stack EXCEPT ![p0] = frame]
      /\ j.cur = k.cur /\ j.mepc = k.mepc /\ j.mscratch = k.mscratch
      /\ j \in Kernels
  BY <1>1, <1>2, <1>4, <1>5, <1>6 DEF Kernels
<1>8. /\ \A u \in Tasks \ {t} : j.tasks[u] = k.tasks[u]
      /\ \A p \in Stacks : p.task # t => j.stack[p] = k.stack[p]
      /\ j.stack[p0] = frame /\ j.tasks[t] = record
  BY <1>1, <1>2, <1>7 DEF Kernels
<1>9. f \in Expectations /\ f[t] = AtStart(t, context) /\ \A u \in Tasks \ {t} : f[u] = e[u]
  BY <1>1, <1>2 DEF Expectations
<1> HIDE DEF f
<1>10. ASSUME NEW u \in Live(j), u # t
       PROVE  u \in Live(k) /\ RaOf(j, u) = RaOf(k, u) /\ SpOf(j, u) = SpOf(k, u) /\ f[u] = e[u]
  BY <1>7, <1>8, <1>9, <1>10 DEF Live, RaOf, SpOf
<1>11. Parked(j, f)
  <2>1. RaOf(j, t) = Runner /\ SpOf(j, t) = p0
    BY <1>7, <1>8 DEF RaOf, SpOf, record
  <2> QED BY <1>2, <1>9, <1>10, <2>1 DEF Good, Parked, p0
<1>12. ASSUME NEW u \in Live(j) \cap S
       PROVE  Meets(j.stack[Down(f[u].sp)], f[u].x)
  <2>1. CASE u = t
    BY <1>2, <1>3, <1>8, <1>9, <2>1 DEF p0
  <2>2. CASE u # t
    <3>1. u \in Live(k) /\ f[u] = e[u] /\ e[u].sp \in UserPlaces /\ e[u].sp.task = u
      BY <1>1, <1>10, <2>2 DEF Good, Parked, Expectations, Live
    <3>2. j.stack[Down(e[u].sp)] = k.stack[Down(e[u].sp)]
      BY <1>8, <2>2, <3>1, DownPlace
    <3> QED BY <3>1, <3>2 DEF Good, Framed
  <2> QED BY <2>1, <2>2
<1>13. Good(j, f, S)
  BY <1>7, <1>9, <1>11, <1>12 DEF Good, Framed
<1> QED BY <1>7, <1>8, <1>13 DEF j, f

LEMMA CallSpawnGood ==
  ASSUME ContextInv, CallSpawn
  PROVE  ContextInv'
<1>1. PICK t \in InState(AtCall, "Dead"), context \in Contexts :
        Ecall("Spawn", MaybeScheduled(NewTask(AtCall, t, context)), Zero, t, [expect EXCEPT ![t] = AtStart(t, context)])
  BY DEF CallSpawn
<1> DEFINE k == NewTask(AtCall, t, context)
           f == [expect EXCEPT ![cur] = AfterCall({Zero}, t)]
           g == [f EXCEPT ![t] = AtStart(t, context)]
           wanted == [expect EXCEPT ![t] = AtStart(t, context)]
<1>2. context \in Frame
  BY Constants DEF ContextInv, Contexts
<1>3. t \in Tasks /\ t \in Int /\ t # cur
  BY Constants, CallerRuns DEF InState
<1>4. Good(AtCall, f, Others)
  BY <1>3, CallerRuns
<1> HIDE DEF f
<1>5. /\ Good(k, g, Others) /\ k.cur = cur /\ k.tasks[cur] = tasks[cur]
      /\ \A p \in Stacks : p.task # t => k.stack[p] = AtCall.stack[p]
  <2>1. t \in InState(AtCall, "Dead") /\ t # AtCall.cur
    BY <1>3, CallerRuns
  <2>2. /\ Good(k, g, Others) /\ k.cur = AtCall.cur
        /\ \A u \in Tasks \ {t} : k.tasks[u] = AtCall.tasks[u]
        /\ \A p \in Stacks : p.task # t => k.stack[p] = AtCall.stack[p]
    BY <1>2, <1>4, <2>1, NewTaskGood
  <2> HIDE DEF k, g
  <2> QED BY <1>3, <2>2, CallerRuns
<1> HIDE DEF k
<1>6. Down(sp) \in Stacks /\ Down(sp).task # t
  BY <1>3, AboutCurrent, DownPlace
<1>7. k.stack[Down(sp)]["s0"] = x["s0"] /\ k.tasks[k.cur].state = "Running"
  BY <1>5, <1>6, CallerRuns
<1>8. AtStart(t, context) \in [pc : Nat, sp : UserPlaces, x : Wanteds] /\ expect \in Expectations
  BY <1>2, <1>3, AtStartGood, CallerRuns
<1>9. wanted \in Expectations
  BY <1>3, <1>8 DEF Expectations
<1>10. g = [wanted EXCEPT ![cur] = AfterCall({Zero}, t)]
  BY <1>3, <1>8, CallerRuns DEF f, Expectations
<1> HIDE DEF g, wanted
<1>11. Ecall("Spawn", MaybeScheduled(k), Zero, t, wanted)
  BY <1>1 DEF k, wanted
<1>12. Good(k, [wanted EXCEPT ![cur] = AfterCall({Zero}, t)], Others)
  BY <1>5, <1>10
<1> QED BY <1>3, <1>7, <1>9, <1>11, <1>12, CallerRuns, EcallGood

LEMMA CallExitGood ==
  ASSUME ContextInv, CallExit
  PROVE  ContextInv'
<1> DEFINE k == SetState(AtCall, {cur}, "Dead")
           f == [expect EXCEPT ![cur] = AfterCall({Zero}, Zero)]
<1>1. PICK o \in Scheduled(k) :
        /\ ReturnToUser(Freed(o.k, cur))
        /\ expect' = [Late(expect, o.late) EXCEPT ![cur] = NoExpectation]
  BY DEF CallExit
<1>2. programs' = programs
  BY DEF CallExit
<1> DEFINE e == [Late(expect, o.late) EXCEPT ![cur] = NoExpectation]
<1>3. Good(AtCall, f, Others) /\ cur \in Tasks /\ expect \in Expectations
  BY CallerRuns
<1>4. f \in Expectations /\ \A t \in Others : f[t] = expect[t]
  BY <1>3 DEF Good, Others
<1> HIDE DEF f
<1>5. {cur} \in SUBSET Tasks /\ "Dead" \in States
  BY <1>3 DEF States
<1>6. Good(k, f, Others) /\ k.tasks[cur].state = "Dead"
  BY <1>3, <1>5, SetStateGood
<1>7. Live(k) \subseteq Others
  BY <1>6 DEF Live, Others
<1> HIDE DEF k
<1>8. /\ o.late \in SUBSET Tasks /\ Good(o.k, Late(f, o.late), Others) /\ Live(o.k) \subseteq Others
      /\ o.k.tasks[o.k.cur].state = "Running"
  BY <1>6, <1>7, ScheduledGood
<1>9. NoExpectation \in [pc : Nat, sp : UserPlaces, x : Wanteds]
  <2>1. [r \in {} |-> {}] \in Wanteds
    <3>1. {} \in SUBSET Registers /\ [r \in {} |-> {}] \in [{} -> SUBSET Int]
      OBVIOUS
    <3> QED BY <3>1, WantedIntro
  <2>2. Runner \in Nat /\ Top(Idle) \in UserPlaces
    BY Constants DEF Runner, Top, UserPlaces
  <2> QED BY <2>1, <2>2 DEF NoExpectation
<1>10. Late(expect, o.late) \in Expectations /\ Late(f, o.late) \in Expectations
  BY <1>3, <1>4, <1>8, LateExpectations
<1>11. e \in Expectations /\ \A t \in Others : e[t] = Late(expect, o.late)[t]
  BY <1>3, <1>9, <1>10 DEF Expectations, Others
<1>12. \A t \in Others : Late(f, o.late)[t] = Late(expect, o.late)[t]
  BY <1>4 DEF Late, Others
<1> HIDE DEF e
<1>13. Good(o.k, e, Others)
  BY <1>8, <1>11, <1>12, GoodAgree
<1> DEFINE stacks == [p \in Stacks |-> IF p.task = cur THEN Unused ELSE o.k.stack[p]]
<1>14. stacks \in [Stacks -> Frame]
  BY <1>13 DEF Good, Kernels, Unused, Frame, Junk
<1>15. ASSUME NEW t \in Live(o.k) \cap Tasks
       PROVE  t \in Others /\ stacks[Down(e[t].sp)] = o.k.stack[Down(e[t].sp)]
  <2>1. t \in Others /\ e[t].sp \in UserPlaces /\ e[t].sp.task = t
    BY <1>8, <1>13 DEF Good, Parked, Expectations
  <2>2. Down(e[t].sp) \in Stacks /\ Down(e[t].sp).task # cur
    BY <2>1, DownPlace DEF Others
  <2> QED BY <2>1, <2>2
<1>16. Freed(o.k, cur) = [o.k EXCEPT !.stack = stacks]
  BY DEF Freed
<1> HIDE DEF stacks
<1>17. /\ Good(Freed(o.k, cur), e, Tasks)
       /\ Freed(o.k, cur).cur = o.k.cur /\ Freed(o.k, cur).tasks = o.k.tasks
  BY <1>13, <1>14, <1>15, <1>16, StackGood
<1>18. programs \in Programs /\ expect' = e
  BY <1>1 DEF ContextInv, e
<1> QED BY <1>1, <1>2, <1>8, <1>17, <1>18, ReturnToUserGood

LEMMA LateTwice ==
  ASSUME NEW e \in Expectations, NEW first \in SUBSET Tasks, NEW second \in SUBSET Tasks
  PROVE  Late(Late(e, first), second) = Late(e, first \cup second)
<1> DEFINE l == Late(e, first)
<1>1. ASSUME NEW t \in first
      PROVE  [l[t] EXCEPT !.x["a0"] = {Timeout}] = l[t]
  <2> DEFINE u == [e[t].x EXCEPT !["a0"] = {Timeout}]
             w == [u EXCEPT !["a0"] = {Timeout}]
  <2>1. e[t] \in [pc : Nat, sp : UserPlaces, x : Wanteds]
    BY DEF Expectations
  <2>2. PICK D \in SUBSET Registers : e[t].x \in [D -> SUBSET Int]
    BY <2>1 DEF Wanteds
  <2>3. w = u
    BY <2>2
  <2> HIDE DEF u
  <2>4. l[t] = [e[t] EXCEPT !.x = u]
    BY DEF Late, u
  <2>5. l[t].x = u /\ l[t] = [pc |-> e[t].pc, sp |-> e[t].sp, x |-> u]
    BY <2>1, <2>4
  <2>6. [l[t] EXCEPT !.x["a0"] = {Timeout}] = [l[t] EXCEPT !.x = w]
    BY <2>5
  <2> QED BY <2>3, <2>5, <2>6
<1>2. \A t \in Tasks \ first : l[t] = e[t]
  BY DEF Late
<1>3. \A t \in first : l[t] = [e[t] EXCEPT !.x["a0"] = {Timeout}]
  BY DEF Late
<1> HIDE DEF l
<1>4. \A t \in Tasks : (IF t \in second THEN [l[t] EXCEPT !.x["a0"] = {Timeout}] ELSE l[t])
                       = IF t \in first \cup second THEN [e[t] EXCEPT !.x["a0"] = {Timeout}] ELSE e[t]
  BY <1>1, <1>2, <1>3
<1> QED BY <1>4 DEF Late, l

LEMMA InterruptGood ==
  ASSUME ContextInv, Interrupt
  PROVE  ContextInv'
<1> DEFINE k0 == Trapped(pc)
           k1 == SaveAll(k0)
           f == [expect EXCEPT ![cur] = Unchanged]
<1>1. PICK woken \in SUBSET InState(k0, "Waiting") :
        \E first \in MaybeScheduled(SetState(k1, woken, "Running")) :
          \E second \in MaybeScheduled(first.k) :
            /\ ReturnToUser(second.k)
            /\ expect' = Late([expect EXCEPT ![cur] = Unchanged], first.late \cup second.late)
  BY DEF Interrupt
<1> DEFINE k2 == SetState(k1, woken, "Running")
<1>2. PICK first \in MaybeScheduled(k2) :
        \E second \in MaybeScheduled(first.k) :
          ReturnToUser(second.k) /\ expect' = Late(f, first.late \cup second.late)
  BY <1>1
<1>3. PICK second \in MaybeScheduled(first.k) :
        ReturnToUser(second.k) /\ expect' = Late(f, first.late \cup second.late)
  BY <1>2
<1>4. programs' = programs /\ programs \in Programs
  BY DEF Interrupt, ContextInv
<1>5. /\ cur \in Tasks /\ pc \in Nat /\ sp \in UserPlaces /\ sp.task = cur
      /\ x \in Frame /\ expect \in Expectations /\ tasks[cur].state = "Running"
  BY AboutCurrent DEF ContextInv
<1>6. Unchanged \in [pc : Nat, sp : UserPlaces, x : Wanteds] /\ Meets(x, Unchanged.x)
      /\ Unchanged.pc = pc /\ Unchanged.sp = sp
  <2> DEFINE w == [r \in Registers |-> {x[r]}]
  <2>1. w \in [Registers -> SUBSET Int] /\ Registers \in SUBSET Registers
    BY <1>5 DEF Frame
  <2>2. w \in Wanteds
    BY <2>1, WantedIntro
  <2>3. Meets(x, w)
    BY DEF Meets
  <2>4. Unchanged = [pc |-> pc, sp |-> sp, x |-> w]
    BY DEF Unchanged
  <2> HIDE DEF w
  <2> QED BY <1>5, <2>2, <2>3, <2>4
<1>7. f \in Expectations /\ f[cur] = Unchanged /\ \A t \in Others : f[t] = expect[t]
  BY <1>5, <1>6 DEF Expectations, Others
<1> HIDE DEF f
<1>8. Good(k0, f, Others) /\ k0.cur = cur /\ k0.tasks = tasks /\ k0.mscratch = Down(sp)
  BY <1>5, <1>6, <1>7, TrappedGood
<1> HIDE DEF k0
<1>9. Good(k1, f, Tasks) /\ k1.cur = cur /\ k1.tasks = tasks
  <2> DEFINE stacks == [k0.stack EXCEPT ![Down(sp)] = x]
  <2>1. Down(sp) \in Stacks /\ k0.stack \in [Stacks -> Frame]
    BY <1>5, <1>8, DownPlace DEF Good, Kernels
  <2>2. /\ stacks \in [Stacks -> Frame] /\ stacks[Down(sp)] = x
        /\ \A p \in Stacks : p # Down(sp) => stacks[p] = k0.stack[p]
    BY <1>5, <2>1
  <2>3. k1 = [k0 EXCEPT !.stack = stacks]
    BY <1>8 DEF SaveAll
  <2> HIDE DEF stacks, k1
  <2>4. ASSUME NEW t \in Live(k0) \cap Tasks
        PROVE  \/ t \in Others /\ stacks[Down(f[t].sp)] = k0.stack[Down(f[t].sp)]
               \/ Meets(stacks[Down(f[t].sp)], f[t].x)
    <3>1. CASE t = cur
      BY <1>6, <1>7, <2>2, <3>1
    <3>2. CASE t # cur
      <4>1. f[t].sp \in UserPlaces /\ f[t].sp.task = t
        BY <1>8 DEF Good, Parked, Expectations
      <4> QED BY <1>5, <2>2, <3>2, <4>1, DownPlace, DownTask DEF Others
    <3> QED BY <3>1, <3>2
  <2>5. Good(k1, f, Tasks) /\ k1.cur = k0.cur /\ k1.tasks = k0.tasks
    BY <1>8, <2>2, <2>3, <2>4, StackGood
  <2> QED BY <1>8, <2>5
<1> HIDE DEF k1
<1>10. Good(k2, f, Tasks) /\ k2.tasks[k2.cur].state = "Running"
  <2>1. woken \in SUBSET Tasks /\ woken \subseteq Live(k1) /\ "Running" \in States
    BY <1>8, <1>9 DEF InState, Live, States
  <2>2. /\ Good(k2, f, Tasks) /\ k2.cur = k1.cur
        /\ \A t \in Tasks : k2.tasks[t].state = IF t \in woken THEN "Running" ELSE k1.tasks[t].state
    BY <1>9, <2>1, SetStateGood
  <2> HIDE DEF k2
  <2> QED BY <1>5, <1>9, <2>2
<1> HIDE DEF k2
<1>11. /\ first.late \in SUBSET Tasks /\ Good(first.k, Late(f, first.late), Tasks)
       /\ first.k.tasks[first.k.cur].state = "Running"
  BY <1>10, MaybeScheduledGood
<1>12. /\ second.late \in SUBSET Tasks /\ Good(second.k, Late(Late(f, first.late), second.late), Tasks)
       /\ second.k.tasks[second.k.cur].state = "Running"
  BY <1>11, MaybeScheduledGood
<1>13. expect' = Late(Late(f, first.late), second.late)
  BY <1>3, <1>7, <1>11, <1>12, LateTwice
<1> QED BY <1>3, <1>4, <1>12, <1>13, ReturnToUserGood

LEMMA WorkGood ==
  ASSUME ContextInv, Work
  PROVE  ContextInv'
<1> DEFINE e == [expect EXCEPT ![cur] = Unchanged']
<1>1. /\ cur \in Tasks /\ tasks \in [Tasks -> TaskRecords] /\ stack \in [Stacks -> Frame]
      /\ expect \in Expectations /\ tasks[cur].state = "Running" /\ programs \in Programs
  BY AboutCurrent DEF ContextInv
<1>2. programs' = programs /\ cur' = cur /\ tasks' = tasks /\ stack' = stack /\ expect' = e
  BY DEF Work
<1>3. x' \in Frame
  BY <1>1, Constants DEF Work, Contexts
<1>4. sp' \in UserPlaces /\ sp'.task = cur
  <2>1. PICK depth \in 0 .. programs.depth : sp' = [task |-> cur, depth |-> depth]
    BY DEF Work
  <2>2. programs.depth \in 0 .. StackMax /\ StackMax \in Nat
    BY <1>1, Constants
  <2>3. depth \in 0 .. StackMax
    BY <2>2
  <2> QED BY <1>1, <2>1, <2>3 DEF UserPlaces
<1>5. pc' \in Nat
  BY Constants DEF Work
<1>6. /\ Unchanged' \in [pc : Nat, sp : UserPlaces, x : Wanteds] /\ Unchanged'.pc = pc'
      /\ Unchanged'.sp = sp' /\ Meets(x', Unchanged'.x)
  <2> DEFINE w == [r \in Registers |-> {x'[r]}]
  <2>1. w \in [Registers -> SUBSET Int] /\ Registers \in SUBSET Registers
    BY <1>3 DEF Frame
  <2>2. w \in Wanteds
    BY <2>1, WantedIntro
  <2>3. Meets(x', w)
    BY DEF Meets
  <2>4. Unchanged' = [pc |-> pc', sp |-> sp', x |-> w]
    BY DEF Unchanged
  <2> HIDE DEF w
  <2> QED BY <1>4, <1>5, <2>2, <2>3, <2>4
<1>7. e \in Expectations /\ e[cur] = Unchanged' /\ \A t \in Others : e[t] = expect[t]
  BY <1>1, <1>6 DEF Expectations, Others
<1> HIDE DEF e
<1>8. /\ Now'.tasks = tasks /\ Now'.cur = cur /\ Now'.mepc = pc' /\ Now'.mscratch = Down(sp')
      /\ Now'.stack = stack /\ Now' \in Kernels
  BY <1>1, <1>2, <1>4, <1>5, DownPlace DEF Now, Kernels
<1>9. Live(Now') = Live(Now)
  BY <1>8 DEF Live, Now
<1>10. ASSUME NEW t \in Live(Now')
       PROVE  e[t].sp.task = t /\ RaOf(Now', t) = e[t].pc /\ SpOf(Now', t) = Down(e[t].sp)
  <2>1. CASE t = cur
    BY <1>4, <1>6, <1>7, <1>8, <2>1 DEF RaOf, SpOf
  <2>2. CASE t # cur
    <3>1. t \in Others /\ RaOf(Now', t) = RaOf(Now, t) /\ SpOf(Now', t) = SpOf(Now, t)
      BY <1>8, <2>2 DEF Others, Live, RaOf, SpOf, Now
    <3> QED BY <1>7, <1>9, <3>1 DEF ContextInv, Good, Parked
  <2> QED BY <2>1, <2>2
<1>11. ASSUME NEW t \in Live(Now') \cap Others
       PROVE  Meets(Now'.stack[Down(e[t].sp)], e[t].x)
  BY <1>7, <1>8, <1>9 DEF ContextInv, Good, Framed, Now
<1>12. Good(Now', expect', Others')
  BY <1>2, <1>7, <1>8, <1>10, <1>11 DEF Good, Parked, Framed, Others
<1>13. RegistersKept'
  BY <1>2, <1>6, <1>7 DEF RegistersKept
<1>14. programs' \in Programs /\ x' \in Frame /\ sp' \in UserPlaces /\ tasks'[cur'].state = "Running"
  BY <1>1, <1>2, <1>3, <1>4
<1> QED BY <1>12, <1>13, <1>14 DEF ContextInv

\* The other steps touch neither the registers nor the kernel's state.
LEMMA ContextStutters ==
  ASSUME ContextInv, UNCHANGED programs, UNCHANGED taskVars
  PROVE  ContextInv'
BY DEF taskVars, ContextInv, RegistersKept, Now, Others, Good, Kernels, Parked, Framed, Live, RaOf, SpOf

LEMMA InitContext == Init => ContextInv
<1> SUFFICES ASSUME Init PROVE ContextInv
  OBVIOUS
<1> DEFINE zeros == [r \in Registers |-> Zero]
<1>1. zeros \in Frame /\ Unused \in Frame
  BY DEF Frame, Zero, Unused, Junk
<1>2. {Idle, First} \subseteq Tasks /\ Idle # First /\ Runner \in Nat
  BY Constants DEF Runner
<1>3. \A t \in Tasks : /\ AtStart(t, zeros) \in [pc : Nat, sp : UserPlaces, x : Wanteds]
                       /\ AtStart(t, zeros).pc = Runner /\ AtStart(t, zeros).sp = Top(t)
                       /\ Top(t) \in UserPlaces /\ Top(t).task = t /\ Down(Top(t)) \in Stacks
  BY <1>1, AtStartGood
<1>4. \A t \in Tasks : Meets(zeros, AtStart(t, zeros).x)
  BY DEF Meets, AtStart, Registers, Preserved, Results
<1>5. x = zeros /\ sp = Top(First) /\ pc = Runner /\ cur = First /\ programs \in Programs
  BY DEF Init
<1>6. stack = [p \in Stacks |-> IF p.task = First THEN Unused ELSE zeros]
  BY DEF Init
<1>7. expect = [t \in Tasks |-> IF t \in {Idle, First} THEN AtStart(t, zeros) ELSE NoExpectation]
  BY DEF Init
<1> HIDE DEF zeros
<1>8. tasks = [t \in Tasks |->
        IF t \in {Idle, First} THEN [ra |-> Runner, sp |-> Down(Top(t)), state |-> "Running"]
        ELSE [ra |-> Runner, sp |-> Down(Top(t)), state |-> "Dead"]]
  BY DEF Init
<1>9. tasks \in [Tasks -> TaskRecords]
  BY <1>2, <1>3, <1>8 DEF TaskRecords, States
<1>10. stack \in [Stacks -> Frame]
  BY <1>1, <1>6
<1>11. expect \in Expectations
  <2>1. NoExpectation \in [pc : Nat, sp : UserPlaces, x : Wanteds]
    <3>1. {} \in SUBSET Registers /\ [r \in {} |-> {}] \in [{} -> SUBSET Int]
      OBVIOUS
    <3>2. [r \in {} |-> {}] \in Wanteds
      BY <3>1, WantedIntro
    <3> QED BY <1>2, <1>3, <3>2 DEF NoExpectation
  <2> QED BY <1>3, <1>7, <2>1 DEF Expectations
<1>12. /\ Now.tasks = tasks /\ Now.cur = First /\ Now.mepc = Runner /\ Now.mscratch = Down(Top(First))
       /\ Now.stack = stack /\ Now \in Kernels
  BY <1>2, <1>3, <1>5, <1>9, <1>10 DEF Now, Kernels
<1>13. Live(Now) = {Idle, First}
  BY <1>2, <1>8, <1>12 DEF Live
<1>14. \A t \in {Idle, First} : /\ expect[t] = AtStart(t, zeros)
                                /\ tasks[t] = [ra |-> Runner, sp |-> Down(Top(t)), state |-> "Running"]
  BY <1>2, <1>7, <1>8
<1>15. Parked(Now, expect)
  BY <1>2, <1>3, <1>12, <1>13, <1>14 DEF Parked, RaOf, SpOf
<1>16. Framed(Now, expect, Others)
  <2>1. Down(Top(Idle)) \in Stacks /\ Down(Top(Idle)).task = Idle
    BY <1>2, <1>3, DownPlace
  <2>2. stack[Down(Top(Idle))] = zeros
    BY <1>2, <1>6, <2>1
  <2> QED BY <1>2, <1>3, <1>4, <1>5, <1>12, <1>13, <1>14, <2>2 DEF Framed, Others
<1>17. RegistersKept
  BY <1>2, <1>3, <1>4, <1>5, <1>14 DEF RegistersKept
<1>18. x \in Frame /\ sp \in UserPlaces /\ tasks[cur].state = "Running"
  BY <1>1, <1>2, <1>3, <1>5, <1>14
<1> QED BY <1>5, <1>11, <1>12, <1>15, <1>16, <1>17, <1>18 DEF ContextInv, Good

LEMMA ContextStep == ContextInv /\ [Next]_vars => ContextInv'
<1> SUFFICES ASSUME ContextInv, [Next]_vars PROVE ContextInv'
  OBVIOUS
<1>1. CASE CallOther
  BY <1>1, CallOtherGood
<1>2. CASE CallSleep
  BY <1>2, CallSleepGood
<1>3. CASE CallFutexWait
  BY <1>3, CallFutexWaitGood
<1>4. CASE CallWait
  BY <1>4, CallWaitGood
<1>5. CASE CallFutexWake
  BY <1>5, CallFutexWakeGood
<1>6. CASE CallSpawn
  BY <1>6, CallSpawnGood
<1>7. CASE CallExit
  BY <1>7, CallExitGood
<1>8. CASE Interrupt
  BY <1>8, InterruptGood
<1>9. CASE Work
  BY <1>9, WorkGood
<1>10. ASSUME NEW w \in Words, LoadReserved(w) \/ StoreConditional(w) \/ Store(w)
       PROVE  ContextInv'
  BY <1>10, ContextStutters DEF LoadReserved, StoreConditional, Store, Instruction
<1>11. CASE DmaWrites
  BY <1>11, ContextStutters DEF DmaWrites
<1>12. CASE UNCHANGED vars
  BY <1>12, ContextStutters DEF vars, taskVars
<1> QED BY <1>1, <1>2, <1>3, <1>4, <1>5, <1>6, <1>7, <1>8, <1>9, <1>10, <1>11, <1>12 DEF Next

\* Whatever the tasks, the depth of their stacks and what they have in the registers: a task
\* that goes on, at the mret of the trap handler, is where it was and finds its registers and
\* the result of its own call (asm.rs, with schedule and the banked registers).
THEOREM RegistersAlwaysKept == Spec => []RegistersKept
<1>1. ContextInv => RegistersKept
  BY DEF ContextInv
<1> QED BY <1>1, InitContext, ContextStep, PTL DEF Spec

-----------------------------------------------------------------------------
(* The reservation *)

\* A reservation is of the word that the running task has linked, and nothing is to write
\* to it unseen.
ReservationInv ==
  /\ linked \in [Tasks -> Int]
  /\ reservation # None => linked[cur] = reservation /\ cur \notin broken /\ reservation \notin dma

LEMMA TrapEndsReservation ==
  ASSUME ReservationInv, DummySc, UNCHANGED linked
  PROVE  ReservationInv'
BY DEF ReservationInv, DummySc

LEMMA ReservationStep == ContextInv /\ ReservationInv /\ [Next]_vars => ReservationInv'
<1> SUFFICES ASSUME ContextInv, ReservationInv, [Next]_vars PROVE ReservationInv'
  OBVIOUS
<1>1. cur \in Tasks /\ Words \subseteq Nat
  BY AboutCurrent, TrapAssumption DEF ContextInv, Words
<1>2. CASE CallOther \/ CallSleep \/ CallFutexWait \/ CallWait \/ CallFutexWake \/ CallSpawn \/ CallExit \/ Interrupt
  BY <1>2, TrapEndsReservation
     DEF CallOther, CallSleep, CallFutexWait, CallWait, CallFutexWake, CallSpawn, CallExit, Interrupt, Ecall
<1>3. CASE Work
  BY <1>3 DEF Work, wordVars, ReservationInv
<1>4. ASSUME NEW w \in Words, LoadReserved(w)
      PROVE  ReservationInv'
  <2>1. /\ reservation' = (IF w \in dma THEN None ELSE w) /\ dma' = dma /\ cur' = cur
        /\ linked' = [linked EXCEPT ![cur] = w] /\ broken' = broken \ {cur}
    BY <1>4 DEF LoadReserved, Instruction, taskVars
  <2> QED BY <1>1, <2>1 DEF ReservationInv
<1>5. ASSUME NEW w \in Words, StoreConditional(w)
      PROVE  ReservationInv'
  BY <1>5 DEF StoreConditional, ReservationInv
<1>6. ASSUME NEW w \in Words, Store(w)
      PROVE  ReservationInv'
  <2>1. reservation' # None => reservation' = reservation /\ reservation # w
    BY <1>6 DEF Store
  <2>2. broken' = broken \cup {t \in Tasks : linked[t] \in {w}} /\ dma' = dma /\ linked' = linked /\ cur' = cur
    BY <1>6 DEF Store, Written, Instruction, taskVars
  <2> QED BY <2>1, <2>2 DEF ReservationInv
<1>7. CASE DmaWrites
  <2>1. PICK w \in dma : dma' = dma \ {w} /\ Written({w})
    BY <1>7 DEF DmaWrites
  <2>2. /\ broken' = broken \cup {t \in Tasks : linked[t] \in {w}}
        /\ reservation' = reservation /\ linked' = linked /\ cur' = cur
    BY <1>7, <2>1 DEF DmaWrites, Written, taskVars
  <2> QED BY <2>1, <2>2 DEF ReservationInv
<1>8. CASE UNCHANGED vars
  BY <1>8 DEF vars, ReservationInv
<1> QED BY <1>2, <1>3, <1>4, <1>5, <1>6, <1>7, <1>8 DEF Next

\* For any tasks and any transfer: an SC that succeeds is by the task that did the LR, with
\* no write to the word in between (the dummy SC of asm.rs, ram_write and
\* check_dma_reservation of cpu.rs).
THEOREM ScAlwaysAtomic == Spec => []ScIsAtomic
<1>1. Init => ReservationInv
  BY DEF Init, ReservationInv, None
<1>2. ContextInv /\ ReservationInv => ScIsAtomic
  <2> SUFFICES ASSUME ContextInv, ReservationInv, NEW w \in Words, ScSucceeds(w)
               PROVE  linked[cur] = w /\ cur \notin broken
    BY DEF ScIsAtomic
  <2>1. w \in Nat
    BY TrapAssumption DEF ContextInv, Words
  <2>2. reservation = w /\ w # None
    BY <2>1 DEF ScSucceeds, None
  <2> QED BY <2>2 DEF ReservationInv
<1> QED BY <1>1, <1>2, InitContext, ContextStep, ReservationStep, PTL DEF Spec
=============================================================================
