--------------------------- MODULE FrontEndProofs ---------------------------
(* Proofs about FrontEnd, for rings, frames and demands of any size and any  *)
(* number of clicks.                                                         *)
EXTENDS FrontEnd, FiniteSetTheorems, SequenceTheorems, TLAPS

Cells == 0 .. Capacity - 1
Positions == {"none", "new", "idle", "play", "consume", "ask"}
Nodes == [ctx : 0 .. MaxClicks, pc : Positions, cells : [Cells -> 0 .. Serials - 1],
          wi : Cells, ri : Cells, made : 0 .. Serials - 1, heard : 0 .. Serials - 1,
          avail : Cells, have : Nat, got : Seq(Nat), lastWriteIndex : Cells,
          canAskForSamples : BOOLEAN, overflow : BOOLEAN]

-----------------------------------------------------------------------------
(* The stages that the handlers of the mute button go through. *)

NodesTyped == nodes \in [Clicks -> Nodes]

\* The main thread writes to the ring of the callback.
MainWrites ==
  \/ main = Idle
  \/ main.node = callback /\ callback \in Clicks /\ main.at \in {"load", "publish"}

\* Only the node of the callback exists, in the context of the same click.
OnlyCallback ==
  \A n \in Clicks :
    IF n = callback THEN nodes[n].ctx = n /\ nodes[n].pc # "none"
    ELSE nodes[n].ctx = 0 /\ nodes[n].pc = "none"

\* The handlers at work are those of the clicks in S.
AtWork(S) == \A n \in Clicks \ S : handlers[n] = Done

\* The audio threads with messages to take are those of the contexts in S.
Addressed(S) == \A c \in Clicks \ S : contexts[c].control = <<>>

Muted == muted /\ clicks % 2 = 0 /\ frameInterval = clicks + 1 /\ intervals = {clicks + 1}
Unmuted == ~muted /\ clicks % 2 = 1 /\ intervals = {}

Silent == Muted /\ AtWork({}) /\ Addressed({}) /\ audioContext = 0 /\ callback = 0

Loading ==
  /\ Unmuted /\ AtWork({clicks}) /\ Addressed({}) /\ audioContext = clicks /\ callback = 0
  /\ frameInterval = clicks /\ contexts[clicks].running
  /\ \/ handlers[clicks] = [at |-> "module", ctx |-> clicks]
     \/ handlers[clicks] = [at |-> "loaded", ctx |-> clicks] /\ contexts[clicks].module

Playing ==
  /\ Unmuted /\ AtWork({}) /\ Addressed({clicks}) /\ audioContext = clicks /\ callback = clicks
  /\ frameInterval = 0 /\ contexts[clicks].running
  /\ contexts[clicks].control \in {<<>>, <<"resume">>}

\* The handler of click n waits for the only suspension of context c.
Leaving(n, c) ==
  \/ /\ handlers[n] = [at |-> "suspend", ctx |-> c] /\ contexts[c].running
     /\ contexts[c].control \in {<<"suspend">>, <<"resume", "suspend">>}
  \/ /\ handlers[n] = [at |-> "suspended", ctx |-> c] /\ ~contexts[c].running
     /\ contexts[c].control = <<>>

Muting ==
  /\ Muted /\ AtWork({clicks}) /\ Addressed({clicks - 1}) /\ clicks - 1 \in Clicks
  /\ audioContext = clicks - 1 /\ callback = clicks - 1
  /\ Leaving(clicks, clicks - 1)

\* Click n came while the handler of click m waits: it asks for a suspension too.
LeavingTwice(m, n, c) ==
  \/ /\ handlers[m] = [at |-> "suspend", ctx |-> c] /\ handlers[n] = [at |-> "suspend", ctx |-> c]
     /\ contexts[c].running
     /\ contexts[c].control \in {<<"suspend", "suspend">>, <<"resume", "suspend", "suspend">>}
  \/ /\ handlers[m] = [at |-> "suspended", ctx |-> c] /\ handlers[n] = [at |-> "suspend", ctx |-> c]
     /\ ~contexts[c].running /\ contexts[c].control = <<"suspend">>
  \/ /\ handlers[m] = [at |-> "suspended", ctx |-> c] /\ handlers[n] = [at |-> "suspended", ctx |-> c]
     /\ ~contexts[c].running /\ contexts[c].control = <<>>

Turning ==
  /\ Unmuted /\ AtWork({clicks - 1, clicks}) /\ Addressed({clicks - 2}) /\ clicks - 2 \in Clicks
  /\ audioContext = clicks - 2 /\ callback = clicks - 2 /\ frameInterval = clicks
  /\ LeavingTwice(clicks - 1, clicks, clicks - 2)

\* The mute is over and the unmute that came meanwhile still waits.
Returning ==
  /\ Unmuted /\ AtWork({clicks}) /\ Addressed({clicks - 2}) /\ clicks - 2 \in Clicks
  /\ audioContext = 0 /\ callback = 0 /\ frameInterval = clicks
  /\ ~contexts[clicks - 2].running
  /\ \/ handlers[clicks] = [at |-> "suspend", ctx |-> clicks - 2]
        /\ contexts[clicks - 2].control = <<"suspend">>
     \/ handlers[clicks] = [at |-> "suspended", ctx |-> clicks - 2]
        /\ contexts[clicks - 2].control = <<>>

Stages == Silent \/ Loading \/ Playing \/ Muting \/ Turning \/ Returning

ClickInv == MainWrites /\ OnlyCallback /\ Stages

\* The invariants below are those of a page that no mute has overtaken; a click that
\* is not one of the stages is the one that overtakes.

-----------------------------------------------------------------------------
(* The demand for frames and the ring of the node in service. *)

\* The frames that are asked for and not yet written.
Requests == messages + rafs + (IF main = Idle THEN 0 ELSE 1)

\* Whether a worklet may ask for another.
May(r) == IF r.pc = "new" \/ MayAsk(r) THEN 1 ELSE 0
Asking == IF callback = 0 THEN 0 ELSE May(nodes[callback])

\* A click to unmute leaves one request more in flight, at the most.
Unmutes == (clicks + 1) \div 2
Allowed == IF Settled \/ muted THEN Unmutes + 1 ELSE Unmutes
RequestsBounded == Requests + Asking <= Allowed

\* A worklet starts with fewer than K requests in flight; the ring has room for K.
FewRequests(K) == \A n \in Clicks : nodes[n].pc = "new" => Requests < K
Most(K) == 2 * (Threshold - 1) + FrameSamples * (K + 1)
RoomFor(K) == Most(K) < Capacity

Level(r) == availableSamples(r)

\* The cells behind the write index have the samples to be published.
Written(r) ==
  \A k \in 0 .. FrameSamples - 1 : r.cells[(r.wi + k) % Capacity] = (r.made + k) % Serials

RingHolds(r) ==
  /\ ~r.overflow /\ r.made = (r.heard + Level(r)) % Serials
  /\ \A k \in 0 .. Level(r) - 1 : r.cells[(r.ri + k) % Capacity] = (r.heard + k) % Serials

ProcessHolds(r) ==
  /\ r.pc \in {"play", "consume"} => r.avail <= Level(r)
  /\ r.pc = "consume" =>
       /\ 2 * r.have <= r.avail /\ Len(r.got) = r.avail - 2 * r.have
       /\ \A k \in DOMAIN r.got : r.got[k] = (r.heard + k - 1) % Serials
  /\ r.pc = "ask" => 2 * r.have <= Level(r)

\* What came since the worklet looked at the level.
Unseen(r) ==
  IF r.pc \in {"play", "consume"} THEN Level(r) - r.avail
  ELSE IF r.pc = "ask" THEN Level(r) - 2 * r.have ELSE 0

\* What is in the ring and what is to come, of D requests, fits.
Demand(K, r, D) ==
  /\ D + May(r) <= K
  /\ Level(r) + FrameSamples * D <= Most(K)
  /\ Unseen(r) + FrameSamples * D <= FrameSamples * K

\* The ring r, while the main thread is at m and D frames are asked for.
RingOf(K, r, m, D) ==
  /\ RingHolds(r) /\ ProcessHolds(r) /\ Demand(K, r, D)
  /\ Level(r) % 2 = 0 /\ r.avail % 2 = 0
  /\ m # Idle => m.will = FrameSamples
  /\ m.at = "publish" => Written(r)

ServiceInv(K) == Playing => RingOf(K, nodes[callback], main, Requests)
-----------------------------------------------------------------------------
(* Numbers *)

LEMMA Sizes ==
  /\ Capacity \in Nat /\ Capacity > 1 /\ FrameSamples \in Nat /\ FrameSamples > 0
  /\ FrameSamples < Capacity /\ Wants \in Nat /\ Wants > 0 /\ Threshold \in Nat /\ Threshold > 0
  /\ Serials \in Nat /\ Serials = 2 * Capacity /\ MaxClicks \in Nat /\ MaxLate \in Nat
  /\ Capacity % 2 = 0 /\ FrameSamples % 2 = 0
BY RingAssumption, ClickAssumption DEF Serials

\* A remainder is less than its divisor.
LEMMA Modulo ==
  ASSUME NEW x \in Int, NEW b \in Nat, b > 0
  PROVE  x % b \in 0 .. b - 1
OBVIOUS

\* A remainder within the first turn or the second.
LEMMA FirstTurn ==
  ASSUME NEW b \in Nat, b > 0, NEW x \in 0 .. b - 1
  PROVE  x % b = x
OBVIOUS

LEMMA SecondTurn ==
  ASSUME NEW b \in Nat, b > 0, NEW x \in b .. 2 * b - 1
  PROVE  x % b = x - b
OBVIOUS

LEMMA AvailableType ==
  ASSUME NEW r, r.wi \in Cells, r.ri \in Cells
  PROVE  availableSamples(r) \in Cells /\ freeSamples(r) \in 1 .. Capacity
BY Sizes DEF availableSamples, freeSamples, Cells

-----------------------------------------------------------------------------
(* Types *)

TypeInv == TypeOK /\ NodesTyped

LEMMA NoNodeType == NoNode \in Nodes
<1>1. 0 \in Cells /\ 0 \in 0 .. Serials - 1 /\ 0 \in 0 .. MaxClicks /\ <<>> \in Seq(Nat)
  BY Sizes DEF Cells
<1>2. [c \in 0 .. Capacity - 1 |-> 0] \in [Cells -> 0 .. Serials - 1]
  BY <1>1 DEF Cells
<1> QED
  BY <1>1, <1>2 DEF NoNode, Nodes, Positions

LEMMA InitTypes == Init => TypeInv
<1> SUFFICES ASSUME Init PROVE TypeInv
  OBVIOUS
<1>1. NodesTyped
  BY NoNodeType DEF Init, NodesTyped
<1>2. NoContext \in [running : BOOLEAN, module : BOOLEAN, control : Seq({"suspend", "resume"})]
  BY DEF NoContext
<1>3. Done \in [at : {"done", "suspend", "suspended", "module", "loaded"}, ctx : 0 .. MaxClicks]
  BY Sizes DEF Done
<1>4. Idle \in [node : 0 .. MaxClicks, at : {"idle", "load", "publish"}, will : 0 .. FrameSamples]
  BY Sizes DEF Idle
<1>5. overtaken \in BOOLEAN
  BY DEF Init
<1> QED
  BY <1>1, <1>2, <1>3, <1>4, <1>5, Sizes DEF Init, TypeInv, TypeOK

\* The numbers of a node.
LEMMA NodeNumbers ==
  ASSUME NEW r \in Nodes
  PROVE  /\ r.wi \in Nat /\ r.wi < Capacity /\ r.ri \in Nat /\ r.ri < Capacity
         /\ r.made \in Nat /\ r.made < Serials /\ r.heard \in Nat /\ r.heard < Serials
         /\ r.avail \in Nat /\ r.avail < Capacity /\ r.have \in Nat
         /\ r.wi \in Cells /\ r.ri \in Cells /\ r.got \in Seq(Nat)
         /\ r.cells \in [Cells -> 0 .. Serials - 1]
         /\ r.lastWriteIndex \in Cells
<1>1. /\ r.wi \in Cells /\ r.ri \in Cells /\ r.avail \in Cells /\ r.have \in Nat /\ r.got \in Seq(Nat)
      /\ r.lastWriteIndex \in Cells
      /\ r.cells \in [Cells -> 0 .. Serials - 1]
      /\ r.made \in 0 .. Serials - 1 /\ r.heard \in 0 .. Serials - 1
  BY DEF Nodes
<1>2. \A x \in Cells : x \in Nat /\ x < Capacity
  BY Sizes DEF Cells
<1>3. \A x \in 0 .. Serials - 1 : x \in Nat /\ x < Serials
  BY Sizes
<1> QED
  BY <1>1, <1>2, <1>3

\* The node that a step of the main thread or of a worklet leaves.
LEMMA NodeUpdate ==
  ASSUME NodesTyped, NEW n, NEW r, n \in Clicks => r \in Nodes
  PROVE  [nodes EXCEPT ![n] = r] \in [Clicks -> Nodes]
BY DEF NodesTyped

LEMMA WriteTypes == TypeInv /\ (WriteSamples \/ PublishSamples) => NodesTyped'
<1> SUFFICES ASSUME TypeInv, WriteSamples \/ PublishSamples PROVE NodesTyped'
  OBVIOUS
<1> DEFINE r == nodes[main.node]
<1>1. main.node \in Clicks => r \in Nodes
  BY DEF TypeInv, NodesTyped
<1>2. CASE WriteSamples
  <2>1. PICK f : f = [c \in 0 .. Capacity - 1 |->
                       IF ((c + Capacity - r.wi) % Capacity) < main.will
                       THEN (r.made + ((c + Capacity - r.wi) % Capacity)) % Serials
                       ELSE r.cells[c]]
    OBVIOUS
  <2>2. nodes' = [nodes EXCEPT ![main.node] = [r EXCEPT !.cells = f]]
    BY <1>2, <2>1 DEF WriteSamples
  <2>3. main.node \in Clicks => f \in [Cells -> 0 .. Serials - 1]
    <3> SUFFICES ASSUME main.node \in Clicks, NEW c \in Cells PROVE f[c] \in 0 .. Serials - 1
      BY <2>1 DEF Cells
    <3> PICK w \in Nat, m \in Nat : w = r.wi /\ m = r.made /\ w < Capacity
      BY <1>1, NodeNumbers
    <3>1. PICK i \in Nat : i = ((c + Capacity - w) % Capacity)
      BY Sizes, Modulo DEF Cells
    <3>2. (m + i) % Serials \in 0 .. Serials - 1
      BY Sizes, Modulo
    <3>3. r.cells[c] \in 0 .. Serials - 1
      BY <1>1 DEF Nodes
    <3> QED
      BY <2>1, <3>1, <3>2, <3>3 DEF Cells
  <2>4. main.node \in Clicks => [r EXCEPT !.cells = f] \in Nodes
    BY <1>1, <2>3 DEF Nodes
  <2> QED
    BY <2>2, <2>4, NodeUpdate DEF NodesTyped, TypeInv
<1>3. CASE PublishSamples
  <2>1. PICK w, k, o : /\ w = (r.wi + main.will) % Capacity /\ k = (r.made + main.will) % Serials
                       /\ o = (r.overflow \/ main.will < FrameSamples)
    OBVIOUS
  <2>2. nodes' = [nodes EXCEPT ![main.node] = [r EXCEPT !.wi = w, !.made = k, !.overflow = o]]
    BY <1>3, <2>1 DEF PublishSamples
  <2>3. main.node \in Clicks => w \in Cells /\ k \in 0 .. Serials - 1 /\ o \in BOOLEAN
    <3> SUFFICES ASSUME main.node \in Clicks PROVE w \in Cells /\ k \in 0 .. Serials - 1 /\ o \in BOOLEAN
      OBVIOUS
    <3>1. r.wi \in Nat /\ r.made \in Nat
      BY <1>1, NodeNumbers
    <3>2. main.will \in Nat
      BY Sizes DEF TypeInv, TypeOK
    <3> QED
      BY <2>1, <3>1, <3>2, Sizes, Modulo DEF Cells
  <2>4. main.node \in Clicks => [r EXCEPT !.wi = w, !.made = k, !.overflow = o] \in Nodes
    BY <1>1, <2>3 DEF Nodes
  <2> QED
    BY <2>2, <2>4, NodeUpdate DEF NodesTyped, TypeInv
<1> QED
  BY <1>2, <1>3

LEMMA LeastType ==
  ASSUME NEW a \in Int, NEW b \in Int
  PROVE  Least(a, b) \in {a, b} /\ Least(a, b) <= a /\ Least(a, b) <= b
BY DEF Least

\* What process() plays of the samples it found.
LEMMA Plays ==
  ASSUME NEW r \in Nodes
  PROVE  LET played == Least(Wants, r.avail \div 2)
         IN  /\ played \in Nat /\ r.avail \div 2 - played \in Nat /\ 2 * played <= r.avail
             /\ 2 * (r.avail \div 2 - played) + 2 * played <= r.avail
             /\ r.avail % 2 = 0 => 2 * (r.avail \div 2 - played) + 2 * played = r.avail
<1> PICK a \in Nat : a = r.avail
  BY NodeNumbers
<1>1. a \div 2 \in Nat /\ 2 * (a \div 2) <= a /\ (a % 2 = 0 => 2 * (a \div 2) = a)
  OBVIOUS
<1>2. PICK h \in Nat : h = a \div 2
  BY <1>1
<1>3. PICK p \in Nat : p = Least(Wants, h) /\ p <= h
  BY LeastType, Sizes
<1> QED
  BY <1>1, <1>2, <1>3

LEMMA WorkletTypes ==
  ASSUME TypeInv, NEW n \in Clicks, Worklet(n)
  PROVE  NodesTyped'
<1> DEFINE r == nodes[n]
<1>1. r \in Nodes
  BY DEF TypeInv, NodesTyped
<1>2. CASE Construct(n)
  <2>1. nodes' = [nodes EXCEPT ![n] = [r EXCEPT !.pc = "idle", !.lastWriteIndex = r.wi,
                                                !.canAskForSamples = TRUE]]
    BY <1>2 DEF Construct
  <2>2. [r EXCEPT !.pc = "idle", !.lastWriteIndex = r.wi, !.canAskForSamples = TRUE] \in Nodes
    BY <1>1 DEF Nodes, Positions
  <2> QED
    BY <2>1, <2>2, NodeUpdate DEF NodesTyped, TypeInv
<1>3. CASE LookForSamples(n)
  <2>1. PICK a \in Cells : a = availableSamples(r)
    BY <1>1, NodeNumbers, AvailableType
  <2>2. nodes' = [nodes EXCEPT ![n] = [r EXCEPT !.pc = "play", !.avail = a]]
    BY <1>3, <2>1 DEF LookForSamples
  <2>3. [r EXCEPT !.pc = "play", !.avail = a] \in Nodes
    BY <1>1 DEF Nodes, Positions
  <2> QED
    BY <2>2, <2>3, NodeUpdate DEF NodesTyped, TypeInv
<1>4. CASE PlaySamples(n)
  <2>1. PICK played \in Nat : played = Least(Wants, r.avail \div 2)
    BY <1>1, Plays
  <2>2. PICK h \in Nat : h = r.avail \div 2 - played
    BY <1>1, <2>1, Plays
  <2>3. PICK g : g = [p \in 1 .. 2 * played |-> r.cells[(r.ri + p - 1) % Capacity]]
    OBVIOUS
  <2>4. g \in Seq(Nat)
    <3>1. ASSUME NEW p \in 1 .. 2 * played PROVE r.cells[(r.ri + p - 1) % Capacity] \in Nat
      <4>1. PICK i \in Nat : i = r.ri
        BY <1>1, NodeNumbers
      <4>2. (i + p - 1) % Capacity \in Cells
        BY Sizes, Modulo DEF Cells
      <4>3. r.cells \in [Cells -> 0 .. Serials - 1]
        BY <1>1, NodeNumbers
      <4>4. r.cells[(i + p - 1) % Capacity] \in 0 .. Serials - 1
        BY <4>2, <4>3
      <4> QED
        BY <4>1, <4>4, Sizes
    <3>2. g \in [1 .. 2 * played -> Nat]
      BY <2>3, <3>1
    <3> QED
      BY <3>2
  <2>5. nodes' = [nodes EXCEPT ![n] = [r EXCEPT !.pc = "consume", !.have = h, !.got = g]]
    BY <1>4, <2>1, <2>2, <2>3 DEF PlaySamples
  <2>6. [r EXCEPT !.pc = "consume", !.have = h, !.got = g] \in Nodes
    BY <1>1, <2>4 DEF Nodes, Positions
  <2> QED
    BY <2>5, <2>6, NodeUpdate DEF NodesTyped, TypeInv
<1>5. CASE ConsumeSamples(n)
  <2>1. PICK i, k : i = AfterConsume(r, Taken(r)) /\ k = (r.heard + Len(r.got)) % Serials
    OBVIOUS
  <2>2. nodes' = [nodes EXCEPT ![n] = [r EXCEPT !.pc = "ask", !.ri = i, !.heard = k]]
    BY <1>5, <2>1 DEF ConsumeSamples
  <2>3. i \in Cells
    <3>1. PICK a \in Nat, h \in Nat, x \in Nat : a = r.avail /\ h = r.have /\ x = r.ri
      BY <1>1, NodeNumbers
    <3>2. PICK v \in Int : v = availableSamples(r)
      BY <1>1, NodeNumbers, AvailableType, Sizes DEF Cells
    <3>3. PICK l \in Int : l = Least(a - h * 2, v)
      BY LeastType
    <3>4. (x + l) % Capacity \in Cells
      BY Sizes, Modulo DEF Cells
    <3> QED
      BY <2>1, <3>1, <3>2, <3>3, <3>4 DEF AfterConsume, Taken
  <2>4. k \in 0 .. Serials - 1
    <3>1. PICK x \in Nat, l \in Nat : x = r.heard /\ l = Len(r.got)
      BY <1>1, NodeNumbers
    <3>2. (x + l) % Serials \in 0 .. Serials - 1
      BY Sizes, Modulo
    <3> QED
      BY <2>1, <3>1, <3>2
  <2>5. [r EXCEPT !.pc = "ask", !.ri = i, !.heard = k] \in Nodes
    BY <1>1, <2>3, <2>4 DEF Nodes, Positions
  <2> QED
    BY <2>2, <2>5, NodeUpdate DEF NodesTyped, TypeInv
<1>6. CASE AskForSamples(n)
  <2>1. PICK may \in BOOLEAN : may = MayAskLater(r)
    BY DEF MayAskLater
  <2>2. nodes' = [nodes EXCEPT ![n] = [r EXCEPT !.pc = "idle", !.lastWriteIndex = r.wi,
                     !.canAskForSamples = may, !.avail = 0, !.have = 0, !.got = <<>>]]
    BY <1>6, <2>1 DEF AskForSamples
  <2>3. 0 \in Cells /\ <<>> \in Seq(Nat)
    BY Sizes DEF Cells
  <2>4. [r EXCEPT !.pc = "idle", !.lastWriteIndex = r.wi, !.canAskForSamples = may,
                  !.avail = 0, !.have = 0, !.got = <<>>] \in Nodes
    BY <1>1, <2>1, <2>3 DEF Nodes, Positions
  <2> QED
    BY <2>2, <2>4, NodeUpdate DEF NodesTyped, TypeInv
<1> QED
  BY <1>2, <1>3, <1>4, <1>5, <1>6 DEF Worklet

\* Nobody else moves a node but the end of a mute and of an unmute.
LEMMA NodesStep ==
  ASSUME TypeInv, [Next]_vars
  PROVE  NodesTyped'
<1>0. CASE nodes' = nodes
  BY <1>0 DEF TypeInv, NodesTyped
<1>1. CASE WriteSamples \/ PublishSamples
  BY <1>1, WriteTypes
<1>2. ASSUME NEW n \in Clicks, Worklet(n) PROVE NodesTyped'
  BY <1>2, WorkletTypes
<1>3. ASSUME NEW n \in Clicks, MuteEnds(n) PROVE NodesTyped'
  <2>1. Collected(handlers[n].ctx) \in [Clicks -> Nodes]
    BY NoNodeType DEF Collected, TypeInv, NodesTyped
  <2> QED
    BY <1>3, <2>1 DEF MuteEnds, NodesTyped
<1>4. ASSUME NEW n \in Clicks, UnmuteEnds(n) PROVE NodesTyped'
  <2>1. [NoNode EXCEPT !.ctx = audioContext, !.pc = "new"] \in Nodes
    BY NoNodeType DEF Nodes, Positions, TypeInv, TypeOK
  <2>2. [nodes EXCEPT ![n] = [NoNode EXCEPT !.ctx = audioContext, !.pc = "new"]] \in [Clicks -> Nodes]
    BY <2>1, NodeUpdate DEF TypeInv
  <2> QED
    BY <1>0, <1>4, <2>2 DEF UnmuteEnds, NodesTyped
<1>5. CASE Click \/ MessageArrives \/ IntervalFires \/ AnimationFrame \/ UNCHANGED vars
  BY <1>0, <1>5 DEF Click, MessageArrives, IntervalFires, AnimationFrame, vars
<1>6. ASSUME NEW n \in Clicks, UnmuteGoesOn(n) \/ Browser(n) PROVE NodesTyped'
  BY <1>0, <1>6 DEF UnmuteGoesOn, Browser, ModuleLoads, Control
<1> QED
  BY <1>1, <1>2, <1>3, <1>4, <1>5, <1>6 DEF Next, MainThread

Contexts == [running : BOOLEAN, module : BOOLEAN, control : Seq({"suspend", "resume"})]
Handlers == [at : {"done", "suspend", "suspended", "module", "loaded"}, ctx : 0 .. MaxClicks]

\* The types without the loads in progress, and without what is not in them.
PlainTypes ==
  /\ muted \in BOOLEAN /\ frameInterval \in 0 .. MaxClicks + 1
  /\ intervals \subseteq 1 .. MaxClicks + 1
  /\ {audioContext, callback} \subseteq 0 .. MaxClicks /\ clicks \in 0 .. MaxClicks
  /\ contexts \in [Clicks -> Contexts] /\ handlers \in [Clicks -> Handlers]

LEMMA ContextUpdate ==
  ASSUME contexts \in [Clicks -> Contexts], NEW c, NEW x, c \in Clicks => x \in Contexts
  PROVE  [contexts EXCEPT ![c] = x] \in [Clicks -> Contexts]
OBVIOUS

LEMMA HandlerUpdate ==
  ASSUME handlers \in [Clicks -> Handlers], NEW n, NEW x, n \in Clicks => x \in Handlers
  PROVE  [handlers EXCEPT ![n] = x] \in [Clicks -> Handlers]
OBVIOUS

LEMMA ToldType ==
  ASSUME contexts \in [Clicks -> Contexts], NEW c, NEW what \in {"suspend", "resume"}
  PROVE  Told(c, what) \in [Clicks -> Contexts]
<1>1. Told(c, what) = [contexts EXCEPT ![c] = [contexts[c] EXCEPT !.control = Append(contexts[c].control, what)]]
  BY DEF Told
<1>2. c \in Clicks => [contexts[c] EXCEPT !.control = Append(contexts[c].control, what)] \in Contexts
  <2> SUFFICES ASSUME c \in Clicks
               PROVE  [contexts[c] EXCEPT !.control = Append(contexts[c].control, what)] \in Contexts
    OBVIOUS
  <2>1. contexts[c] \in Contexts /\ contexts[c].control \in Seq({"suspend", "resume"})
    BY DEF Contexts
  <2>2. Append(contexts[c].control, what) \in Seq({"suspend", "resume"})
    BY <2>1
  <2> QED
    BY <2>1, <2>2 DEF Contexts
<1> QED
  BY <1>1, <1>2, ContextUpdate

LEMMA FreshContext == NoContext \in Contexts /\ [NoContext EXCEPT !.running = TRUE] \in Contexts
<1>1. <<>> \in Seq({"suspend", "resume"})
  OBVIOUS
<1> QED
  BY <1>1 DEF NoContext, Contexts

LEMMA ClickTypes ==
  ASSUME PlainTypes, Click
  PROVE  PlainTypes'
<1> PICK n \in Clicks : n = clicks + 1
  BY Sizes DEF PlainTypes, Click, Clicks
<1>1. /\ clicks' = n /\ n \in 0 .. MaxClicks /\ muted' = ~muted /\ muted' \in BOOLEAN
      /\ n + 1 \in 1 .. MaxClicks + 1 /\ n + 1 \in 0 .. MaxClicks + 1
  BY Sizes DEF Click, PlainTypes, Clicks
<1>2. ASSUME AwaitSuspend(n)
      PROVE  /\ contexts' \in [Clicks -> Contexts] /\ handlers' \in [Clicks -> Handlers]
             /\ audioContext' = audioContext
  <2>1. [at |-> "suspend", ctx |-> audioContext] \in Handlers
    BY DEF PlainTypes, Handlers
  <2> QED
    BY <1>2, <2>1, ToldType, HandlerUpdate DEF AwaitSuspend, PlainTypes
<1>3. ASSUME NewContext(n)
      PROVE  /\ contexts' \in [Clicks -> Contexts] /\ handlers' \in [Clicks -> Handlers]
             /\ audioContext' = n
  <2>1. [NoContext EXCEPT !.running = TRUE] \in Contexts
    BY FreshContext
  <2>2. [at |-> "module", ctx |-> n] \in Handlers
    BY <1>1 DEF Handlers
  <2> QED
    BY <1>3, <2>1, <2>2, HandlerUpdate, ContextUpdate DEF NewContext, PlainTypes
<1>4. CASE muted
  <2>1. Unmute(n)
    BY <1>4 DEF Click
  <2>2. /\ contexts' \in [Clicks -> Contexts] /\ handlers' \in [Clicks -> Handlers]
        /\ audioContext' \in {n, audioContext} /\ callback' = callback /\ frameInterval' = frameInterval
        /\ intervals' \subseteq intervals
    BY <2>1, <1>2, <1>3 DEF Unmute
  <2>3. intervals' \subseteq 1 .. MaxClicks + 1
    BY <2>2 DEF PlainTypes
  <2>4. audioContext' \in 0 .. MaxClicks /\ callback' \in 0 .. MaxClicks /\ frameInterval' \in 0 .. MaxClicks + 1
    BY <1>1, <2>2 DEF PlainTypes
  <2> QED
    BY <1>1, <2>2, <2>3, <2>4 DEF PlainTypes
<1>5. CASE ~muted
  <2>1. Mute(n)
    BY <1>5 DEF Click
  <2>2. /\ contexts' \in [Clicks -> Contexts] /\ handlers' \in [Clicks -> Handlers]
        /\ audioContext' = audioContext /\ callback' \in {callback, 0} /\ frameInterval' = n + 1
        /\ intervals' = intervals \cup {n + 1}
    <3>1. CASE audioContext # 0
      BY <2>1, <1>2, <3>1 DEF Mute
    <3>2. CASE audioContext = 0
      BY <2>1, <3>2 DEF Mute, PlainTypes
    <3> QED
      BY <3>1, <3>2
  <2>3. intervals' \subseteq 1 .. MaxClicks + 1
    BY <1>1, <2>2 DEF PlainTypes
  <2>4. audioContext' \in 0 .. MaxClicks /\ callback' \in 0 .. MaxClicks /\ frameInterval' \in 0 .. MaxClicks + 1
    BY <1>1, <2>2, Sizes DEF PlainTypes
  <2> QED
    BY <1>1, <2>2, <2>3, <2>4 DEF PlainTypes
<1> QED
  BY <1>4, <1>5

LEMMA HandlerTypes ==
  ASSUME PlainTypes, NEW n \in Clicks,
         MuteEnds(n) \/ UnmuteGoesOn(n) \/ UnmuteEnds(n) \/ Browser(n)
  PROVE  PlainTypes'
<1>0. Done \in Handlers /\ n \in 0 .. MaxClicks /\ 0 \in 0 .. MaxClicks /\ 0 \in 0 .. MaxClicks + 1
  BY Sizes DEF Done, Handlers, Clicks
<1>1. CASE MuteEnds(n)
  BY <1>0, <1>1, HandlerUpdate DEF MuteEnds, PlainTypes
<1>2. CASE UnmuteGoesOn(n)
  <2>1. [NoContext EXCEPT !.running = TRUE] \in Contexts
    BY FreshContext
  <2>2. [at |-> "module", ctx |-> n] \in Handlers
    BY <1>0 DEF Handlers
  <2> QED
    BY <1>0, <1>2, <2>1, <2>2, HandlerUpdate, ContextUpdate DEF UnmuteGoesOn, NewContext, PlainTypes
<1>3. CASE UnmuteEnds(n)
  <2>1. handlers' \in [Clicks -> Handlers]
    BY <1>0, <1>3, HandlerUpdate DEF UnmuteEnds, PlainTypes
  <2>2. contexts' \in [Clicks -> Contexts] /\ callback' \in {callback, n} /\ frameInterval' \in {frameInterval, 0}
    BY <1>3, ToldType DEF UnmuteEnds, PlainTypes
  <2> QED
    BY <1>0, <1>3, <2>1, <2>2 DEF UnmuteEnds, PlainTypes
<1>4. CASE ModuleLoads(n)
  <2>1. handlers[n] \in Handlers /\ \A c \in Clicks : contexts[c] \in Contexts
    BY DEF PlainTypes
  <2>2. /\ [handlers[n] EXCEPT !.at = "loaded"] \in Handlers
        /\ \A c \in Clicks : [contexts[c] EXCEPT !.module = TRUE] \in Contexts
    BY <2>1 DEF Handlers, Contexts
  <2>3. handlers' \in [Clicks -> Handlers] /\ contexts' \in [Clicks -> Contexts]
    <3>1. handlers' = [handlers EXCEPT ![n] = [handlers[n] EXCEPT !.at = "loaded"]]
      BY <1>4 DEF ModuleLoads
    <3>2. contexts' = [contexts EXCEPT ![handlers[n].ctx] = [contexts[handlers[n].ctx] EXCEPT !.module = TRUE]]
      BY <1>4 DEF ModuleLoads
    <3> QED
      BY <2>2, <3>1, <3>2, HandlerUpdate, ContextUpdate DEF PlainTypes
  <2> QED
    BY <1>4, <2>3 DEF ModuleLoads, PlainTypes, button
<1>5. CASE Control(n)
  <2>1. /\ contexts[n].control # <<>>
        /\ \E h, b : /\ contexts' = [contexts EXCEPT ![n] = [contexts[n] EXCEPT !.running = (b = "resume"),
                                                                    !.control = Tail(contexts[n].control)]]
                     /\ \/ handlers' = handlers
                        \/ handlers' = [handlers EXCEPT ![h] = [handlers[h] EXCEPT !.at = "suspended"]]
    BY <1>5 DEF Control
  <2>2. PICK h, b : /\ contexts' = [contexts EXCEPT ![n] = [contexts[n] EXCEPT !.running = (b = "resume"),
                                                                    !.control = Tail(contexts[n].control)]]
                    /\ \/ handlers' = handlers
                       \/ handlers' = [handlers EXCEPT ![h] = [handlers[h] EXCEPT !.at = "suspended"]]
    BY <2>1
  <2>3. h \in Clicks => [handlers[h] EXCEPT !.at = "suspended"] \in Handlers
    BY DEF PlainTypes, Handlers
  <2>4. handlers' \in [Clicks -> Handlers]
    BY <2>2, <2>3, HandlerUpdate DEF PlainTypes
  <2>5. Tail(contexts[n].control) \in Seq({"suspend", "resume"}) /\ contexts[n] \in Contexts
    <3>1. contexts[n] \in Contexts /\ contexts[n].control \in Seq({"suspend", "resume"})
      BY DEF PlainTypes, Contexts
    <3> QED
      BY <2>1, <3>1
  <2>6. [contexts[n] EXCEPT !.running = (b = "resume"), !.control = Tail(contexts[n].control)] \in Contexts
    BY <2>5 DEF Contexts
  <2>7. contexts' \in [Clicks -> Contexts]
    BY <2>2, <2>6, ContextUpdate DEF PlainTypes
  <2> QED
    BY <1>5, <2>4, <2>7 DEF Control, PlainTypes, button
<1> QED
  BY <1>1, <1>2, <1>3, <1>4, <1>5 DEF Browser

Loads == [node : 0 .. MaxClicks, at : {"idle", "load", "publish"}, will : 0 .. FrameSamples]
Counts ==
  /\ messages \in Nat /\ rafs \in Nat /\ late \in Nat /\ frame \in {0, 1} /\ main \in Loads
  /\ overtaken \in BOOLEAN

LEMMA TypeParts == TypeOK <=> PlainTypes /\ Counts
BY DEF TypeOK, PlainTypes, Counts, Loads, Contexts, Handlers

\* What the steps that are not of the button leave alone.
Frame == <<muted, frameInterval, intervals, audioContext, callback, clicks, contexts, handlers>>

LEMMA FrameSteps ==
  ASSUME \/ WriteSamples \/ PublishSamples \/ MessageArrives \/ IntervalFires \/ AnimationFrame
         \/ (\E n \in Clicks : Worklet(n)) \/ UNCHANGED vars
  PROVE  UNCHANGED Frame
<1>1. CASE WriteSamples
  BY <1>1 DEF WriteSamples, Frame, button
<1>2. CASE PublishSamples
  BY <1>2 DEF PublishSamples, Frame, button
<1>3. CASE MessageArrives
  BY <1>3 DEF MessageArrives, Frame, button
<1>4. CASE IntervalFires
  BY <1>4 DEF IntervalFires, Frame, button
<1>5. CASE AnimationFrame
  BY <1>5 DEF AnimationFrame, Frame, button
<1>6. ASSUME NEW n \in Clicks, Worklet(n) PROVE UNCHANGED Frame
  BY <1>6 DEF Worklet, Construct, LookForSamples, PlaySamples, ConsumeSamples, AskForSamples, Frame, button
<1>7. CASE UNCHANGED vars
  BY <1>7 DEF vars, Frame
<1> QED
  BY <1>1, <1>2, <1>3, <1>4, <1>5, <1>6, <1>7

LEMMA PlainStep ==
  ASSUME PlainTypes, [Next]_vars
  PROVE  PlainTypes'
<1>1. CASE Click
  BY <1>1, ClickTypes
<1>2. ASSUME NEW n \in Clicks, MuteEnds(n) \/ UnmuteGoesOn(n) \/ UnmuteEnds(n) \/ Browser(n)
      PROVE  PlainTypes'
  BY <1>2, HandlerTypes
<1>3. CASE UNCHANGED Frame
  BY <1>3 DEF PlainTypes, Frame
<1> QED
  BY <1>1, <1>2, <1>3, FrameSteps DEF Next, MainThread

LEMMA RunFrameType ==
  ASSUME TypeInv, RunFrame
  PROVE  main' \in Loads /\ frame' \in {0, 1}
<1>1. CASE callback = 0
  BY <1>1 DEF RunFrame, TypeInv, TypeOK, Loads, Idle
<1>2. CASE callback # 0
  <2>1. callback \in 0 .. MaxClicks /\ callback \in Clicks /\ nodes[callback] \in Nodes
    BY <1>2, Sizes DEF TypeInv, TypeOK, NodesTyped, Clicks
  <2>2. PICK f \in Nat : f = freeSamples(nodes[callback])
    BY <2>1, NodeNumbers, AvailableType
  <2>3. Least(FrameSamples, f) \in 0 .. FrameSamples
    BY Sizes DEF Least
  <2> QED
    BY <1>2, <2>1, <2>2, <2>3 DEF RunFrame, TypeInv, TypeOK, Loads
<1> QED
  BY <1>1, <1>2

LEMMA CountsStep ==
  ASSUME TypeInv, [Next]_vars
  PROVE  Counts'
<1> USE DEF Counts
<1>0. /\ Counts /\ messages - 1 \in Int /\ rafs - 1 \in Int /\ late + 1 \in Nat /\ messages + 1 \in Nat
      /\ rafs + 1 \in Nat /\ (messages > 0 => messages - 1 \in Nat) /\ (rafs > 0 => rafs - 1 \in Nat)
      /\ Idle \in Loads /\ 0 \in Nat
  BY TypeParts, Sizes DEF TypeInv, Idle, Loads
<1>1. CASE Click
  <2>1. overtaken' \in BOOLEAN
    BY <1>1 DEF Click
  <2> QED
    BY <1>0, <1>1, <2>1 DEF Click
<1>2. ASSUME NEW n \in Clicks, MuteEnds(n) \/ UnmuteGoesOn(n) \/ UnmuteEnds(n) \/ Browser(n)
      PROVE  Counts'
  BY <1>0, <1>2 DEF MuteEnds, UnmuteGoesOn, UnmuteEnds, Browser, ModuleLoads, Control, button
<1>3. CASE WriteSamples \/ PublishSamples
  BY <1>0, <1>3 DEF WriteSamples, PublishSamples, button, Loads
<1>4. CASE MessageArrives
  BY <1>0, <1>4 DEF MessageArrives, button
<1>5. CASE IntervalFires
  BY <1>0, <1>5, RunFrameType DEF IntervalFires
<1>6. CASE AnimationFrame
  BY <1>0, <1>6, RunFrameType DEF AnimationFrame, button
<1>7. ASSUME NEW n \in Clicks, Worklet(n) PROVE Counts'
  <2>1. CASE AskForSamples(n)
    BY <1>0, <2>1 DEF AskForSamples, button
  <2>2. CASE ~AskForSamples(n)
    BY <1>0, <1>7, <2>2 DEF Worklet, Construct, LookForSamples, PlaySamples, ConsumeSamples, button
  <2> QED
    BY <2>1, <2>2
<1>8. CASE UNCHANGED vars
  BY <1>0, <1>8 DEF vars
<1> QED
  BY <1>1, <1>2, <1>3, <1>4, <1>5, <1>6, <1>7, <1>8 DEF Next, MainThread

LEMMA TypesStep == TypeInv /\ [Next]_vars => TypeInv'
<1> SUFFICES ASSUME TypeInv, [Next]_vars PROVE TypeInv'
  OBVIOUS
<1>1. PlainTypes' /\ Counts'
  BY PlainStep, CountsStep, TypeParts DEF TypeInv
<1>2. TypeOK'
  BY <1>1 DEF TypeOK, PlainTypes, Counts, Loads, Contexts, Handlers
<1> QED
  BY <1>2, NodesStep DEF TypeInv

\* Type correctness, whatever the clicks and the sizes.
THEOREM TypeCorrect == Spec => []TypeOK
<1>1. TypeInv => TypeOK
  BY DEF TypeInv
<1> QED
  BY <1>1, InitTypes, TypesStep, PTL DEF Spec
-----------------------------------------------------------------------------
(* The stages *)

\* Numbers and functions behind the stages.
LEMMA ClickFacts ==
  ASSUME TypeInv
  PROVE  /\ clicks \in Nat /\ clicks <= MaxClicks /\ MaxClicks \in Nat /\ Clicks = 1 .. MaxClicks
         /\ audioContext \in 0 .. MaxClicks /\ callback \in 0 .. MaxClicks
         /\ contexts \in [Clicks -> Contexts] /\ handlers \in [Clicks -> Handlers]
         /\ muted \in BOOLEAN /\ nodes \in [Clicks -> Nodes]
BY Sizes, TypeParts DEF TypeInv, PlainTypes, Clicks, NodesTyped

Words == {"suspend", "resume"}

LEMMA AppendToOne ==
  ASSUME NEW a \in Words, NEW b \in Words
  PROVE  Append(<<a>>, b) = <<a, b>>
<1>1. <<a>> \in Seq(Words) /\ <<a, b>> \in Seq(Words) /\ Len(<<a, b>>) = 2 /\ Len(<<a>>) = 1
  OBVIOUS
<1>2. Append(<<a>>, b) \in Seq(Words) /\ Len(Append(<<a>>, b)) = 2
  BY <1>1
<1>3. Append(<<a>>, b)[1] = a /\ Append(<<a>>, b)[2] = b
  BY <1>1
<1>4. \A i \in 1 .. 2 : Append(<<a>>, b)[i] = <<a, b>>[i]
  BY <1>3
<1> QED
  BY <1>1, <1>2, <1>4, SeqEqual

LEMMA AppendToTwo ==
  ASSUME NEW a \in Words, NEW b \in Words, NEW c \in Words
  PROVE  Append(<<a, b>>, c) = <<a, b, c>>
<1>1. /\ <<a, b>> \in Seq(Words) /\ <<a, b, c>> \in Seq(Words)
      /\ Len(<<a, b>>) = 2 /\ Len(<<a, b, c>>) = 3
  OBVIOUS
<1>2. Append(<<a, b>>, c) \in Seq(Words) /\ Len(Append(<<a, b>>, c)) = 3
  BY <1>1
<1>3. Append(<<a, b>>, c)[1] = a /\ Append(<<a, b>>, c)[2] = b /\ Append(<<a, b>>, c)[3] = c
  BY <1>1
<1>4. \A i \in 1 .. 3 : Append(<<a, b>>, c)[i] = <<a, b, c>>[i]
  BY <1>3
<1> QED
  BY <1>1, <1>2, <1>4, SeqEqual

\* The few messages that an audio thread may have to take.
LEMMA Messages ==
  /\ Append(<<>>, "resume") = <<"resume">> /\ Append(<<>>, "suspend") = <<"suspend">>
  /\ Append(<<"resume">>, "suspend") = <<"resume", "suspend">>
  /\ Append(<<"suspend">>, "suspend") = <<"suspend", "suspend">>
  /\ Append(<<"resume", "suspend">>, "suspend") = <<"resume", "suspend", "suspend">>
<1>1. Append(<<>>, "resume") = <<"resume">> /\ Append(<<>>, "suspend") = <<"suspend">>
  OBVIOUS
<1> QED
  BY <1>1, AppendToOne, AppendToTwo DEF Words

LEMMA FirstMessages ==
  /\ Head(<<"resume">>) = "resume" /\ Tail(<<"resume">>) = <<>>
  /\ Head(<<"suspend">>) = "suspend" /\ Tail(<<"suspend">>) = <<>>
  /\ Head(<<"resume", "suspend">>) = "resume" /\ Tail(<<"resume", "suspend">>) = <<"suspend">>
  /\ Head(<<"suspend", "suspend">>) = "suspend" /\ Tail(<<"suspend", "suspend">>) = <<"suspend">>
  /\ Head(<<"resume", "suspend", "suspend">>) = "resume"
  /\ Tail(<<"resume", "suspend", "suspend">>) = <<"suspend", "suspend">>
OBVIOUS

LEMMA SuspendFound ==
  /\ "suspend" \notin Range(<<>>) /\ "suspend" \notin Range(<<"resume">>)
  /\ "resume" \notin Range(<<>>) /\ "resume" \notin Range(<<"suspend">>)
  /\ "suspend" \in Range(<<"suspend">>) /\ "suspend" \in Range(<<"resume", "suspend">>)
  /\ "suspend" \in Range(<<"suspend", "suspend">>)
  /\ "suspend" \in Range(<<"resume", "suspend", "suspend">>)
BY DEF Range

LEMMA NotSettled ==
  ASSUME NEW n \in Clicks, handlers[n] # Done
  PROVE  ~Settled
BY DEF Settled

\* Whether a click comes from a mute or an unmute.
LEMMA Parity ==
  ASSUME NEW c \in Nat
  PROVE  /\ c % 2 = 0 => (c + 1) % 2 = 1
         /\ c % 2 = 1 => (c + 1) % 2 = 0
         /\ c % 2 \in {0, 1} /\ (c % 2 = 1 => c >= 1)
OBVIOUS

\* What an audio thread is told.
LEMMA ToldEffect ==
  ASSUME TypeInv, NEW c \in Clicks, NEW what, contexts' = Told(c, what)
  PROVE  /\ contexts'[c].running = contexts[c].running /\ contexts'[c].module = contexts[c].module
         /\ contexts'[c].control = Append(contexts[c].control, what)
         /\ \A d \in Clicks \ {c} : contexts'[d] = contexts[d]
<1>1. contexts[c] \in Contexts /\ contexts \in [Clicks -> Contexts]
  BY ClickFacts
<1>2. contexts' = [contexts EXCEPT ![c] = [contexts[c] EXCEPT !.control = Append(contexts[c].control, what)]]
  BY DEF Told
<1> QED
  BY <1>1, <1>2 DEF Contexts

LEMMA ClickWhenSilent ==
  ASSUME TypeInv, ClickInv, Click, Silent
  PROVE  Loading'
<1> PICK n \in Clicks : n = clicks + 1 /\ clicks' = n
  BY ClickFacts DEF Click
<1>1. n % 2 = 1
  BY ClickFacts, Parity DEF Silent, Muted
<1>2. Unmute(n) /\ NewContext(n) /\ muted' = ~muted /\ muted
  BY DEF Click, Unmute, Silent, Muted
<1>3. intervals' = {} /\ frameInterval' = n /\ callback' = 0 /\ audioContext' = n
  BY <1>2 DEF Silent, Muted, Unmute, NewContext
<1>4. handlers'[n] = [at |-> "module", ctx |-> n] /\ \A k \in Clicks \ {n} : handlers'[k] = Done
  BY <1>2, ClickFacts DEF NewContext, Silent, AtWork
<1>5. contexts'[n].running /\ \A c \in Clicks : contexts'[c].control = <<>>
  BY <1>2, ClickFacts DEF NewContext, Silent, Addressed, NoContext
<1> QED
  BY <1>1, <1>2, <1>3, <1>4, <1>5 DEF Loading, Unmuted, AtWork, Addressed

\* Nobody has a handler of a click to come.
LEMMA ClickWhenPlaying ==
  ASSUME TypeInv, ClickInv, Click, Playing
  PROVE  Muting'
<1> PICK n \in Clicks, c \in Clicks : n = clicks + 1 /\ clicks' = n /\ c = clicks /\ c = n - 1
  BY ClickFacts, Parity DEF Click, Playing, Unmuted
<1>1. n % 2 = 0
  BY ClickFacts, Parity DEF Playing, Unmuted
<1>m. Mute(n) /\ muted'
  BY ClickFacts DEF Click, Playing, Unmuted
<1>2. AwaitSuspend(n) /\ callback' = callback /\ audioContext = c
  BY <1>m, ClickFacts, Sizes DEF Mute, Playing
<1>3. intervals' = {n + 1} /\ frameInterval' = n + 1 /\ callback' = c /\ audioContext' = c
  BY <1>m, <1>2 DEF Playing, Unmuted, Mute, AwaitSuspend
<1>4. handlers'[n] = [at |-> "suspend", ctx |-> c] /\ \A k \in Clicks \ {n} : handlers'[k] = Done
  BY <1>2, ClickFacts DEF AwaitSuspend, Playing, AtWork
<1>5. /\ contexts'[c].running /\ contexts'[c].control = Append(contexts[c].control, "suspend")
      /\ \A d \in Clicks \ {c} : contexts'[d].control = <<>>
  BY <1>2, ToldEffect DEF AwaitSuspend, Playing, Addressed
<1>6. contexts'[c].control \in {<<"suspend">>, <<"resume", "suspend">>}
  BY <1>5, Messages DEF Playing
<1>7. Leaving(n, c)'
  BY <1>4, <1>5, <1>6 DEF Leaving
<1> QED
  BY <1>1, <1>m, <1>3, <1>4, <1>5, <1>7 DEF Muting, Muted, AtWork, Addressed

LEMMA ClickWhenMuting ==
  ASSUME TypeInv, ClickInv, Click, Muting
  PROVE  Turning'
<1> PICK n \in Clicks, m \in Clicks, c \in Clicks :
         n = clicks + 1 /\ clicks' = n /\ m = clicks /\ c = clicks - 1 /\ m = n - 1 /\ c = n - 2
  BY ClickFacts DEF Click, Muting
<1>1. n % 2 = 1
  BY ClickFacts, Parity DEF Muting, Muted
<1>u. Unmute(n) /\ muted' = FALSE
  BY ClickFacts DEF Click, Muting, Muted
<1>2. AwaitSuspend(n) /\ callback' = callback /\ audioContext = c
  BY <1>u, ClickFacts, Sizes DEF Unmute, Muting
<1>3. intervals' = {} /\ frameInterval' = n /\ callback' = c /\ audioContext' = c
  BY <1>u, <1>2 DEF Muting, Muted, Unmute, AwaitSuspend
<1>4. /\ handlers'[n] = [at |-> "suspend", ctx |-> c] /\ handlers'[m] = handlers[m]
      /\ \A k \in Clicks \ {m, n} : handlers'[k] = Done
  BY <1>2, ClickFacts DEF AwaitSuspend, Muting, AtWork
<1>5. /\ contexts'[c].running = contexts[c].running
      /\ contexts'[c].control = Append(contexts[c].control, "suspend")
      /\ \A d \in Clicks \ {c} : contexts'[d].control = <<>>
  BY <1>2, ToldEffect DEF AwaitSuspend, Muting, Addressed
<1>6. LeavingTwice(m, n, c)'
  <2>1. Leaving(m, c)
    BY DEF Muting
  <2>2. CASE handlers[m] = [at |-> "suspend", ctx |-> c]
    BY <1>4, <1>5, <2>1, <2>2, Messages DEF Leaving, LeavingTwice
  <2>3. CASE handlers[m] = [at |-> "suspended", ctx |-> c]
    BY <1>4, <1>5, <2>1, <2>3, Messages DEF Leaving, LeavingTwice
  <2> QED
    BY <2>1, <2>2, <2>3 DEF Leaving
<1> QED
  BY <1>1, <1>u, <1>3, <1>4, <1>5, <1>6 DEF Turning, Unmuted, AtWork, Addressed

\* In the other stages a click is a mute that overtakes an unmute.
LEMMA NoClick ==
  ASSUME TypeInv, Click, ~overtaken'
  PROVE  ~(Loading \/ Turning \/ Returning)
<1> SUFFICES ASSUME Loading \/ Turning \/ Returning PROVE FALSE
  OBVIOUS
<1>1. Unmuted /\ clicks \in Clicks
  BY ClickFacts, Parity DEF Loading, Turning, Returning, Unmuted
<1>2. handlers[clicks] # Done
  BY DEF Loading, Turning, Returning, LeavingTwice, Done
<1>3. ~Settled
  BY <1>1, <1>2, NotSettled
<1> QED
  BY <1>1, <1>3 DEF Unmuted, Click

LEMMA StaysOvertaken ==
  ASSUME [Next]_vars, overtaken
  PROVE  overtaken'
BY DEF Next, MainThread, Click, WriteSamples, PublishSamples, MessageArrives, MuteEnds,
       UnmuteGoesOn, UnmuteEnds, IntervalFires, AnimationFrame, Worklet, Construct,
       LookForSamples, PlaySamples, ConsumeSamples, AskForSamples, Browser, ModuleLoads,
       Control, button, vars

\* The handlers that wait are those of the stages.
LEMMA AtWorkOnly ==
  ASSUME NEW S, AtWork(S), NEW n \in Clicks, handlers[n].at # "done"
  PROVE  n \in S
BY DEF AtWork, Done

LEMMA SuspendedIn ==
  ASSUME ClickInv, NEW n \in Clicks, handlers[n].at = "suspended"
  PROVE  \/ Muting /\ n = clicks
         \/ Turning /\ n \in {clicks - 1, clicks}
         \/ Returning /\ n = clicks
<1>1. CASE Silent
  BY <1>1, AtWorkOnly DEF Silent
<1>2. CASE Playing
  BY <1>2, AtWorkOnly DEF Playing
<1>3. CASE Loading
  <2>1. n = clicks
    BY <1>3, AtWorkOnly DEF Loading
  <2> QED
    BY <1>3, <2>1 DEF Loading
<1>4. CASE Muting
  BY <1>4, AtWorkOnly DEF Muting
<1>5. CASE Turning
  BY <1>5, AtWorkOnly DEF Turning
<1>6. CASE Returning
  BY <1>6, AtWorkOnly DEF Returning
<1> QED
  BY <1>1, <1>2, <1>3, <1>4, <1>5, <1>6 DEF ClickInv, Stages

\* The context of a finished mute is collected with the node of the callback.
LEMMA NothingLeft ==
  ASSUME TypeInv, OnlyCallback, NEW c \in Clicks, c = callback, ~contexts[c].running,
         contexts[c].control \in {<<>>, <<"suspend">>}, nodes' = Collected(c), callback' = 0
  PROVE  OnlyCallback'
<1>1. nodes' = [n \in Clicks |-> IF nodes[n].ctx = c THEN NoNode ELSE nodes[n]]
  BY SuspendFound DEF Collected
<1>2. \A n \in Clicks : nodes'[n].ctx = 0 /\ nodes'[n].pc = "none"
  BY <1>1 DEF OnlyCallback, NoNode
<1>3. \A n \in Clicks : n # 0
  BY ClickFacts
<1> QED
  BY <1>2, <1>3 DEF OnlyCallback

LEMMA MuteEndsStage ==
  ASSUME TypeInv, ClickInv, NEW n \in Clicks, MuteEnds(n)
  PROVE  ClickInv'
<1>1. /\ handlers[n].at = "suspended" /\ n % 2 = 0 /\ main' = Idle
      /\ audioContext' = 0 /\ callback' = 0 /\ handlers' = [handlers EXCEPT ![n] = Done]
      /\ nodes' = Collected(handlers[n].ctx)
      /\ UNCHANGED <<muted, frameInterval, intervals, contexts, clicks>>
  BY DEF MuteEnds, Suspended
<1>2. MainWrites'
  BY <1>1 DEF MainWrites
<1>3. CASE Muting /\ n = clicks
  <2> PICK c \in Clicks : c = clicks - 1
    BY <1>3 DEF Muting
  <2>1. handlers[n].ctx = c /\ ~contexts[c].running /\ contexts[c].control = <<>>
    BY <1>1, <1>3 DEF Muting, Leaving
  <2>2. OnlyCallback'
    BY <1>1, <1>3, <2>1, NothingLeft DEF ClickInv, Muting
  <2>3. \A k \in Clicks : handlers'[k] = Done
    BY <1>1, <1>3, ClickFacts DEF Muting, AtWork
  <2>4. \A d \in Clicks : contexts'[d].control = <<>>
    BY <1>1, <1>3, <2>1 DEF Muting, Addressed
  <2>5. Silent'
    BY <1>1, <1>3, <2>3, <2>4 DEF Muting, Muted, Silent, AtWork, Addressed
  <2> QED
    BY <1>2, <2>2, <2>5 DEF ClickInv, Stages
<1>4. CASE Turning /\ n \in {clicks - 1, clicks}
  <2>1. n = clicks - 1 /\ clicks \in Clicks /\ n # clicks
    BY <1>1, <1>4, ClickFacts DEF Turning, Unmuted
  <2> PICK c \in Clicks : c = clicks - 2
    BY <1>4 DEF Turning
  <2>2. LeavingTwice(n, clicks, c)
    BY <1>4, <2>1 DEF Turning
  <2>3. /\ handlers[n].ctx = c /\ ~contexts[c].running
        /\ \/ handlers[clicks] = [at |-> "suspend", ctx |-> c] /\ contexts[c].control = <<"suspend">>
           \/ handlers[clicks] = [at |-> "suspended", ctx |-> c] /\ contexts[c].control = <<>>
    BY <1>1, <2>2 DEF LeavingTwice
  <2>4. OnlyCallback'
    BY <1>1, <1>4, <2>3, NothingLeft DEF ClickInv, Turning
  <2>5. handlers'[clicks] = handlers[clicks] /\ \A k \in Clicks \ {clicks} : handlers'[k] = Done
    BY <1>1, <1>4, <2>1, ClickFacts DEF Turning, AtWork
  <2>6. Returning'
    BY <1>1, <1>4, <2>3, <2>5 DEF Turning, Returning, Unmuted, AtWork, Addressed
  <2> QED
    BY <1>2, <2>4, <2>6 DEF ClickInv, Stages
<1>5. CASE Returning /\ n = clicks
  BY <1>1, <1>5, Parity, ClickFacts DEF Returning, Unmuted
<1> QED
  BY <1>1, <1>3, <1>4, <1>5, SuspendedIn

LEMMA UnmuteGoesOnStage ==
  ASSUME TypeInv, ClickInv, NEW n \in Clicks, UnmuteGoesOn(n)
  PROVE  ClickInv'
<1>1. /\ Suspended(n) /\ handlers[n].at = "suspended" /\ n % 2 = 1 /\ main' = main /\ NewContext(n)
      /\ UNCHANGED <<muted, frameInterval, intervals, clicks, nodes, callback>>
  BY DEF UnmuteGoesOn, Suspended
<1>2. MainWrites' /\ OnlyCallback'
  BY <1>1 DEF MainWrites, OnlyCallback, ClickInv
<1>3. CASE Muting /\ n = clicks
  BY <1>1, <1>3 DEF Muting, Muted
<1>4. CASE Turning /\ n \in {clicks - 1, clicks}
  <2> PICK m \in Clicks : m = clicks - 1
    BY <1>4, ClickFacts DEF Turning
  <2>1. n = clicks
    BY <1>1, <1>4, ClickFacts DEF Turning, Unmuted
  <2>2. handlers[m].at = "suspended"
    BY <1>1, <1>4, <2>1 DEF Turning, LeavingTwice
  <2>3. n <= m
    BY <1>1, <2>2 DEF Suspended
  <2> QED
    BY <2>1, <2>3, ClickFacts
<1>5. CASE Returning /\ n = clicks
  <2>1. /\ handlers'[n] = [at |-> "module", ctx |-> n] /\ contexts'[n].running
        /\ \A k \in Clicks \ {n} : handlers'[k] = Done
        /\ \A c \in Clicks : contexts'[c].control = <<>>
    <3> PICK d \in Clicks : d = clicks - 2
      BY <1>5 DEF Returning
    <3>1. contexts[d].control = <<>>
      BY <1>1, <1>5 DEF Returning
    <3>2. \A c \in Clicks : contexts[c].control = <<>>
      BY <1>5, <3>1 DEF Returning, Addressed
    <3> QED
      BY <1>1, <1>5, <3>2, ClickFacts DEF NewContext, NoContext, Returning, AtWork
  <2>2. Loading'
    BY <1>1, <1>5, <2>1 DEF Returning, Loading, Unmuted, AtWork, Addressed, NewContext
  <2> QED
    BY <1>2, <2>2 DEF ClickInv, Stages
<1> QED
  BY <1>1, <1>3, <1>4, <1>5, SuspendedIn

\* A module is loaded while no node is there.
LEMMA LoadingOnly ==
  ASSUME TypeInv, ClickInv, NEW n \in Clicks, handlers[n].at \in {"module", "loaded"}
  PROVE  Loading /\ n = clicks
<1>1. CASE Silent
  BY <1>1, AtWorkOnly DEF Silent
<1>2. CASE Playing
  BY <1>2, AtWorkOnly DEF Playing
<1>3. CASE Loading
  BY <1>3, AtWorkOnly DEF Loading
<1>4. CASE Muting
  <2>1. n = clicks
    BY <1>4, AtWorkOnly DEF Muting
  <2> QED
    BY <1>4, <2>1 DEF Muting, Leaving
<1>5. CASE Turning
  <2>1. n \in {clicks - 1, clicks}
    BY <1>5, AtWorkOnly DEF Turning
  <2> QED
    BY <1>5, <2>1 DEF Turning, LeavingTwice
<1>6. CASE Returning
  <2>1. n = clicks
    BY <1>6, AtWorkOnly DEF Returning
  <2> QED
    BY <1>6, <2>1 DEF Returning
<1> QED
  BY <1>1, <1>2, <1>3, <1>4, <1>5, <1>6 DEF ClickInv, Stages

LEMMA UnmuteEndsStage ==
  ASSUME TypeInv, ClickInv, NEW n \in Clicks, UnmuteEnds(n)
  PROVE  /\ ClickInv' /\ Playing' /\ callback = 0 /\ callback' = n
         /\ nodes' = [nodes EXCEPT ![n] = [NoNode EXCEPT !.ctx = n, !.pc = "new"]]
<1>1. /\ main' = main /\ main = Idle /\ handlers[n].at = "loaded"
      /\ handlers' = [handlers EXCEPT ![n] = Done]
      /\ UNCHANGED <<muted, intervals, audioContext, clicks>>
  BY DEF UnmuteEnds
<1>2. Loading /\ n = clicks /\ contexts[n].module /\ audioContext = n /\ n # 0
  <2>1. Loading /\ n = clicks
    BY <1>1, LoadingOnly
  <2> QED
    BY <1>1, <2>1, ClickFacts DEF Loading
<1>3. /\ nodes' = [nodes EXCEPT ![n] = [NoNode EXCEPT !.ctx = n, !.pc = "new"]]
      /\ callback' = n /\ contexts' = Told(n, "resume") /\ frameInterval' = 0
  BY <1>2 DEF UnmuteEnds
<1>4. OnlyCallback'
  <2>1. \A k \in Clicks : nodes[k].ctx = 0 /\ nodes[k].pc = "none"
    BY <1>2, ClickFacts DEF ClickInv, OnlyCallback, Loading
  <2>2. nodes'[n].ctx = n /\ nodes'[n].pc = "new" /\ \A k \in Clicks \ {n} : nodes'[k] = nodes[k]
    BY <1>3, ClickFacts DEF NoNode
  <2> QED
    BY <1>3, <2>1, <2>2 DEF OnlyCallback
<1>5. MainWrites'
  BY <1>1 DEF MainWrites
<1>6. \A k \in Clicks : handlers'[k] = Done
  BY <1>1, <1>2, ClickFacts DEF Loading, AtWork
<1>7. /\ contexts'[n].running /\ contexts'[n].control = <<"resume">>
      /\ \A d \in Clicks \ {n} : contexts'[d].control = <<>>
  <2>1. contexts[n].running /\ \A d \in Clicks : contexts[d].control = <<>>
    BY <1>2 DEF Loading, Addressed
  <2> QED
    BY <1>3, <2>1, ToldEffect, Messages
<1>8. Playing'
  BY <1>1, <1>2, <1>3, <1>6, <1>7 DEF Loading, Playing, Unmuted, AtWork, Addressed
<1> QED
  BY <1>2, <1>3, <1>4, <1>5, <1>8 DEF ClickInv, Stages, Loading

LEMMA ModuleLoadsStage ==
  ASSUME TypeInv, ClickInv, NEW n \in Clicks, ModuleLoads(n)
  PROVE  ClickInv'
<1>1. /\ main' = main /\ nodes' = nodes /\ callback' = callback /\ handlers[n].at = "module"
      /\ handlers' = [handlers EXCEPT ![n].at = "loaded"]
      /\ contexts' = [contexts EXCEPT ![handlers[n].ctx].module = TRUE]
      /\ UNCHANGED <<muted, intervals, frameInterval, audioContext, clicks>>
  BY DEF ModuleLoads, button
<1>2. Loading /\ n = clicks /\ handlers[n] = [at |-> "module", ctx |-> n]
  <2>1. Loading /\ n = clicks
    BY <1>1, LoadingOnly
  <2> QED
    BY <1>1, <2>1 DEF Loading
<1>3. MainWrites' /\ OnlyCallback'
  BY <1>1 DEF MainWrites, OnlyCallback, ClickInv
<1>4. handlers'[n] = [at |-> "loaded", ctx |-> n] /\ \A k \in Clicks \ {n} : handlers'[k] = Done
  BY <1>1, <1>2, ClickFacts DEF Loading, AtWork
<1>5. /\ contexts'[n].module /\ contexts'[n].running = contexts[n].running
      /\ \A c \in Clicks : contexts'[c].control = contexts[c].control
  <2>1. contexts \in [Clicks -> Contexts] /\ contexts[n] \in Contexts
    BY ClickFacts
  <2>2. contexts' = [contexts EXCEPT ![n] = [contexts[n] EXCEPT !.module = TRUE]]
    BY <1>1, <1>2
  <2> QED
    BY <2>1, <2>2 DEF Contexts
<1>6. Loading'
  BY <1>1, <1>2, <1>4, <1>5 DEF Loading, Unmuted, AtWork, Addressed
<1> QED
  BY <1>3, <1>6 DEF ClickInv, Stages

\* An audio thread takes a message.
LEMMA ControlEffect ==
  ASSUME TypeInv, NEW c \in Clicks, Control(c)
  PROVE  /\ contexts[c].control # <<>>
         /\ contexts'[c].running <=> Head(contexts[c].control) = "resume"
         /\ contexts'[c].control = Tail(contexts[c].control)
         /\ contexts'[c].module = contexts[c].module
         /\ \A d \in Clicks \ {c} : contexts'[d] = contexts[d]
         /\ Head(contexts[c].control) = "resume" => handlers' = handlers
         /\ Head(contexts[c].control) = "suspend" =>
              \A n \in Waiting(c) : (\A k \in Waiting(c) : n <= k) =>
                /\ handlers'[n] = [at |-> "suspended", ctx |-> c]
                /\ \A k \in Clicks \ {n} : handlers'[k] = handlers[k]
         /\ UNCHANGED <<button, nodes, main>>
<1> DEFINE what == Head(contexts[c].control)
           first == CHOOSE n \in Waiting(c) : \A k \in Waiting(c) : n <= k
<1>1. /\ contexts[c].control # <<>>
      /\ contexts' = [contexts EXCEPT ![c] = [contexts[c] EXCEPT !.running = (what = "resume"),
                                                !.control = Tail(contexts[c].control)]]
      /\ what = "suspend" => handlers' = [handlers EXCEPT ![first].at = "suspended"]
      /\ what = "resume" => handlers' = handlers
      /\ UNCHANGED <<button, nodes, main>>
  BY DEF Control
<1>2. contexts \in [Clicks -> Contexts] /\ contexts[c] \in Contexts
  BY ClickFacts
<1>3. /\ contexts'[c].running <=> what = "resume"
      /\ contexts'[c].control = Tail(contexts[c].control)
      /\ contexts'[c].module = contexts[c].module
      /\ \A d \in Clicks \ {c} : contexts'[d] = contexts[d]
  BY <1>1, <1>2 DEF Contexts
<1>4. ASSUME what = "suspend", NEW n \in Waiting(c), \A k \in Waiting(c) : n <= k
      PROVE  /\ handlers'[n] = [at |-> "suspended", ctx |-> c]
             /\ \A k \in Clicks \ {n} : handlers'[k] = handlers[k]
  <2>1. n \in Clicks /\ handlers[n] = [at |-> "suspend", ctx |-> c]
    BY DEF Waiting
  <2>2. first \in Waiting(c) /\ \A k \in Waiting(c) : first <= k
    BY <1>4
  <2>3. first = n
    <3>1. first \in Clicks /\ first <= n /\ n <= first
      BY <1>4, <2>2 DEF Waiting
    <3> QED
      BY <2>1, <3>1, ClickFacts
  <2>4. handlers' = [handlers EXCEPT ![n] = [handlers[n] EXCEPT !.at = "suspended"]]
    BY <1>1, <1>4, <2>3
  <2>5. [handlers[n] EXCEPT !.at = "suspended"] = [at |-> "suspended", ctx |-> c]
    BY <2>1
  <2> QED
    BY <2>1, <2>4, <2>5, ClickFacts
<1> QED
  BY <1>1, <1>3, <1>4

\* Only the context of a stage has messages to take.
LEMMA AddressedOnly ==
  ASSUME NEW S, Addressed(S), NEW c \in Clicks, contexts[c].control # <<>>
  PROVE  c \in S
BY DEF Addressed

\* The handlers that a suspension ends are those of a stage.
LEMMA WaitingOnly ==
  ASSUME NEW S, AtWork(S), NEW c, NEW k \in Waiting(c)
  PROVE  k \in S
<1>1. k \in Clicks /\ handlers[k].at = "suspend"
  BY DEF Waiting
<1> QED
  BY <1>1, AtWorkOnly

LEMMA ControlStage ==
  ASSUME TypeInv, ClickInv, NEW c \in Clicks, Control(c)
  PROVE  ClickInv'
<1>e. contexts[c].control # <<>> /\ \A d \in Clicks \ {c} : contexts'[d] = contexts[d]
  BY ControlEffect
<1>u. UNCHANGED <<muted, frameInterval, intervals, audioContext, callback, clicks, nodes, main>>
  BY ControlEffect DEF button
<1>0. MainWrites' /\ OnlyCallback'
  BY <1>u DEF MainWrites, OnlyCallback, ClickInv
<1>1. CASE Silent \/ Loading
  BY <1>1, <1>e, AddressedOnly DEF Silent, Loading
<1>2. CASE Playing
  <2>1. c = clicks /\ contexts[c].control = <<"resume">>
    BY <1>2, <1>e, AddressedOnly DEF Playing
  <2>2. contexts'[c].running /\ contexts'[c].control = <<>> /\ handlers' = handlers
    BY <2>1, ControlEffect, FirstMessages
  <2>3. Playing'
    BY <1>2, <1>e, <1>u, <2>1, <2>2 DEF Playing, Unmuted, AtWork, Addressed
  <2> QED
    BY <1>0, <2>3 DEF ClickInv, Stages
<1>3. CASE Muting
  <2>1. c = clicks - 1 /\ clicks \in Clicks /\ Leaving(clicks, c)
    BY <1>3, <1>e, AddressedOnly, ClickFacts DEF Muting
  <2>3. /\ contexts[c].running /\ handlers[clicks] = [at |-> "suspend", ctx |-> c]
        /\ contexts[c].control \in {<<"suspend">>, <<"resume", "suspend">>}
    BY <1>e, <2>1 DEF Leaving
  <2>2. clicks \in Waiting(c) /\ \A k \in Waiting(c) : clicks <= k
    <3>1. \A k \in Waiting(c) : k = clicks
      BY <1>3, WaitingOnly DEF Muting
    <3> QED
      BY <2>1, <2>3, <3>1, ClickFacts DEF Waiting
  <2>4. Leaving(clicks, c)' /\ \A k \in Clicks \ {clicks} : handlers'[k] = handlers[k]
    <3>1. CASE contexts[c].control = <<"suspend">>
      <4>1. /\ handlers'[clicks] = [at |-> "suspended", ctx |-> c]
            /\ \A k \in Clicks \ {clicks} : handlers'[k] = handlers[k]
        BY <2>1, <2>2, <3>1, ControlEffect, FirstMessages, ClickFacts
      <4>2. contexts'[c].control = <<>> /\ ~contexts'[c].running
        BY <3>1, ControlEffect, FirstMessages
      <4> QED
        BY <1>u, <4>1, <4>2 DEF Leaving
    <3>2. CASE contexts[c].control = <<"resume", "suspend">>
      <4>1. handlers' = handlers /\ contexts'[c].control = <<"suspend">> /\ contexts'[c].running
        BY <3>2, ControlEffect, FirstMessages
      <4> QED
        BY <1>u, <2>3, <4>1 DEF Leaving
    <3> QED
      BY <2>3, <3>1, <3>2
  <2>5. Muting'
    BY <1>3, <1>e, <1>u, <2>1, <2>4 DEF Muting, Muted, AtWork, Addressed
  <2> QED
    BY <1>0, <2>5 DEF ClickInv, Stages
<1>4. CASE Turning
  <2> PICK m, n : m = clicks - 1 /\ n = clicks
    OBVIOUS
  <2>1. c = clicks - 2 /\ m \in Clicks /\ n \in Clicks /\ LeavingTwice(m, n, c) /\ m < n
    BY <1>4, <1>e, AddressedOnly, ClickFacts DEF Turning
  <2>2. \A k \in Waiting(c) : k \in {m, n}
    <3>1. AtWork({m, n})
      BY <1>4 DEF Turning
    <3> QED
      BY <3>1, WaitingOnly
  <2>3. LeavingTwice(m, n, c)' /\ \A k \in Clicks \ {m, n} : handlers'[k] = handlers[k]
    <3>1. CASE /\ handlers[m] = [at |-> "suspend", ctx |-> c]
               /\ handlers[n] = [at |-> "suspend", ctx |-> c]
      <4>1. m \in Waiting(c) /\ n \in Waiting(c) /\ \A k \in Waiting(c) : m <= k
        BY <2>1, <2>2, <3>1, ClickFacts DEF Waiting
      <4>2. contexts[c].control \in {<<"suspend", "suspend">>, <<"resume", "suspend", "suspend">>}
            /\ contexts[c].running
        BY <2>1, <3>1 DEF LeavingTwice
      <4>3. CASE contexts[c].control = <<"suspend", "suspend">>
        <5>1. /\ handlers'[m] = [at |-> "suspended", ctx |-> c]
              /\ \A k \in Clicks \ {m} : handlers'[k] = handlers[k]
          BY <4>1, <4>3, ControlEffect, FirstMessages
        <5>2. contexts'[c].control = <<"suspend">> /\ ~contexts'[c].running
          BY <4>3, ControlEffect, FirstMessages
        <5> QED
          BY <2>1, <3>1, <5>1, <5>2, ClickFacts DEF LeavingTwice
      <4>4. CASE contexts[c].control = <<"resume", "suspend", "suspend">>
        <5>1. handlers' = handlers /\ contexts'[c].control = <<"suspend", "suspend">> /\ contexts'[c].running
          BY <4>4, ControlEffect, FirstMessages
        <5> QED
          BY <3>1, <5>1 DEF LeavingTwice
      <4> QED
        BY <4>2, <4>3, <4>4
    <3>2. CASE /\ handlers[m] = [at |-> "suspended", ctx |-> c]
               /\ handlers[n] = [at |-> "suspend", ctx |-> c]
      <4>1. n \in Waiting(c) /\ \A k \in Waiting(c) : n <= k
        BY <2>1, <2>2, <3>2, ClickFacts DEF Waiting
      <4>2. contexts[c].control = <<"suspend">>
        BY <2>1, <3>2 DEF LeavingTwice
      <4>3. /\ handlers'[n] = [at |-> "suspended", ctx |-> c]
            /\ \A k \in Clicks \ {n} : handlers'[k] = handlers[k]
        BY <4>1, <4>2, ControlEffect, FirstMessages
      <4>4. contexts'[c].control = <<>> /\ ~contexts'[c].running
        BY <4>2, ControlEffect, FirstMessages
      <4> QED
        BY <2>1, <3>2, <4>3, <4>4, ClickFacts DEF LeavingTwice
    <3> QED
      BY <1>e, <2>1, <3>1, <3>2 DEF LeavingTwice
  <2>4. Turning'
    BY <1>4, <1>e, <1>u, <2>1, <2>3 DEF Turning, Unmuted, AtWork, Addressed
  <2> QED
    BY <1>0, <2>4 DEF ClickInv, Stages
<1>5. CASE Returning
  <2>1. c = clicks - 2 /\ clicks \in Clicks
    BY <1>5, <1>e, AddressedOnly, ClickFacts DEF Returning
  <2>2. /\ contexts[c].control = <<"suspend">>
        /\ handlers[clicks] = [at |-> "suspend", ctx |-> c]
    BY <1>5, <1>e, <2>1 DEF Returning
  <2>3. clicks \in Waiting(c) /\ \A k \in Waiting(c) : clicks <= k
    <3>1. \A k \in Waiting(c) : k = clicks
      BY <1>5, WaitingOnly DEF Returning
    <3> QED
      BY <2>1, <2>2, <3>1, ClickFacts DEF Waiting
  <2>4. /\ handlers'[clicks] = [at |-> "suspended", ctx |-> c]
        /\ \A k \in Clicks \ {clicks} : handlers'[k] = handlers[k]
    BY <2>1, <2>2, <2>3, ControlEffect, FirstMessages, ClickFacts
  <2>5. contexts'[c].control = <<>> /\ ~contexts'[c].running
    BY <2>2, ControlEffect, FirstMessages
  <2>6. Returning'
    BY <1>5, <1>e, <1>u, <2>1, <2>4, <2>5 DEF Returning, Unmuted, AtWork, Addressed
  <2> QED
    BY <1>0, <2>6 DEF ClickInv, Stages
<1> QED
  BY <1>1, <1>2, <1>3, <1>4, <1>5 DEF ClickInv, Stages

\* Frames, samples and messages do not change the stage.
LEMMA FrameStages ==
  ASSUME Stages, UNCHANGED Frame
  PROVE  /\ Stages'
         /\ (Playing' <=> Playing) /\ (Silent' <=> Silent) /\ (Loading' <=> Loading)
         /\ (Muting' <=> Muting) /\ (Turning' <=> Turning) /\ (Returning' <=> Returning)
<1> USE DEF Frame
<1>0. UNCHANGED <<muted, frameInterval, intervals, audioContext, callback, clicks, contexts, handlers>>
  OBVIOUS
<1>1. Playing' <=> Playing
  BY <1>0 DEF Playing, Unmuted, AtWork, Addressed
<1>2. Silent' <=> Silent
  BY <1>0 DEF Silent, Muted, AtWork, Addressed
<1>3. Loading' <=> Loading
  BY <1>0 DEF Loading, Unmuted, AtWork, Addressed
<1>4. Muting' <=> Muting
  BY <1>0 DEF Muting, Muted, AtWork, Addressed, Leaving
<1>5. Turning' <=> Turning
  BY <1>0 DEF Turning, Unmuted, AtWork, Addressed, LeavingTwice
<1>6. Returning' <=> Returning
  BY <1>0 DEF Returning, Unmuted, AtWork, Addressed
<1> QED
  BY <1>1, <1>2, <1>3, <1>4, <1>5, <1>6 DEF Stages

\* What a step of a worklet may do to the nodes: its own goes from one position to another.
LEMMA WorkletMoves ==
  ASSUME TypeInv, NEW n \in Clicks, Worklet(n)
  PROVE  /\ nodes[n].pc # "none" /\ main' = main /\ rafs' = rafs
         /\ nodes'[n].ctx = nodes[n].ctx /\ nodes'[n].pc \in Positions \ {"none", "new"}
         /\ \A k \in Clicks \ {n} : nodes'[k] = nodes[k]
<1>1. nodes \in [Clicks -> Nodes] /\ nodes[n] \in Nodes
  BY ClickFacts
<1>2. CASE Construct(n)
  BY <1>1, <1>2 DEF Construct, Positions, Nodes
<1>3. CASE LookForSamples(n)
  BY <1>1, <1>3 DEF LookForSamples, Positions, Nodes
<1>4. CASE PlaySamples(n)
  BY <1>1, <1>4 DEF PlaySamples, Positions, Nodes
<1>5. CASE ConsumeSamples(n)
  BY <1>1, <1>5 DEF ConsumeSamples, Positions, Nodes
<1>6. CASE AskForSamples(n)
  BY <1>1, <1>6 DEF AskForSamples, Positions, Nodes
<1> QED
  BY <1>2, <1>3, <1>4, <1>5, <1>6 DEF Worklet

LEMMA FrameNodes ==
  ASSUME TypeInv, MainWrites, OnlyCallback,
         \/ WriteSamples \/ PublishSamples \/ MessageArrives \/ IntervalFires \/ AnimationFrame
         \/ (\E n \in Clicks : Worklet(n)) \/ UNCHANGED vars
  PROVE  MainWrites' /\ OnlyCallback'
<1>0. callback' = callback
  BY FrameSteps DEF Frame
<1>1. CASE WriteSamples \/ PublishSamples
  <2>1. main # Idle
    BY <1>1 DEF WriteSamples, PublishSamples, Idle
  <2>2. main.node = callback /\ callback \in Clicks
    BY <2>1 DEF MainWrites
  <2>3. nodes \in [Clicks -> Nodes] /\ nodes[callback] \in Nodes
    BY <2>2, ClickFacts
  <2>4. /\ nodes'[callback].ctx = nodes[callback].ctx /\ nodes'[callback].pc = nodes[callback].pc
        /\ \A k \in Clicks \ {callback} : nodes'[k] = nodes[k]
    <3>1. CASE WriteSamples
      BY <2>2, <2>3, <3>1 DEF WriteSamples, Nodes
    <3>2. CASE PublishSamples
      BY <2>2, <2>3, <3>2 DEF PublishSamples, Nodes
    <3> QED
      BY <1>1, <3>1, <3>2
  <2>5. OnlyCallback'
    BY <1>0, <2>4 DEF OnlyCallback
  <2>6. main' = Idle \/ (main'.node = main.node /\ main'.at = "publish")
    <3>1. main \in Loads
      BY DEF TypeInv, TypeOK, Loads
    <3> QED
      BY <1>1, <3>1 DEF WriteSamples, PublishSamples, Loads
  <2> QED
    BY <1>0, <2>2, <2>5, <2>6 DEF MainWrites
<1>2. CASE MessageArrives \/ UNCHANGED vars
  BY <1>0, <1>2 DEF MessageArrives, vars, MainWrites, OnlyCallback
<1>3. CASE IntervalFires \/ AnimationFrame
  <2>1. RunFrame /\ nodes' = nodes
    BY <1>3 DEF IntervalFires, AnimationFrame
  <2>2. callback = 0 \/ callback \in Clicks
    BY ClickFacts
  <2>3. OnlyCallback'
    BY <1>0, <2>1 DEF OnlyCallback
  <2> QED
    BY <1>0, <2>1, <2>2, <2>3 DEF RunFrame, MainWrites
<1>4. ASSUME NEW n \in Clicks, Worklet(n) PROVE MainWrites' /\ OnlyCallback'
  <2>1. n = callback
    BY <1>4, WorkletMoves DEF OnlyCallback
  <2> QED
    BY <1>0, <1>4, <2>1, WorkletMoves DEF MainWrites, OnlyCallback
<1> QED
  BY <1>1, <1>2, <1>3, <1>4

LEMMA ClickStage ==
  ASSUME TypeInv, ClickInv, ~overtaken', Click
  PROVE  ClickInv'
<1>1. main' = main /\ main = Idle /\ nodes' = nodes
  BY DEF Click
<1>2. CASE Silent
  <2>1. Loading'
    BY <1>2, ClickWhenSilent
  <2>2. OnlyCallback'
    <3>1. callback = 0 /\ callback' = 0
      BY <1>2, <2>1 DEF Silent, Loading
    <3> QED
      BY <1>1, <3>1 DEF OnlyCallback, ClickInv
  <2> QED
    BY <1>1, <2>1, <2>2 DEF ClickInv, Stages, MainWrites
<1>3. CASE Playing
  <2>1. Muting'
    BY <1>3, ClickWhenPlaying
  <2>2. OnlyCallback'
    <3>1. callback' = callback
      BY <1>3, <2>1, ClickFacts DEF Playing, Muting, Click
    <3> QED
      BY <1>1, <3>1 DEF OnlyCallback, ClickInv
  <2> QED
    BY <1>1, <2>1, <2>2 DEF ClickInv, Stages, MainWrites
<1>4. CASE Muting
  <2>1. Turning'
    BY <1>4, ClickWhenMuting
  <2>2. OnlyCallback'
    <3>1. callback' = callback
      BY <1>4, <2>1, ClickFacts DEF Turning, Muting, Click
    <3> QED
      BY <1>1, <3>1 DEF OnlyCallback, ClickInv
  <2> QED
    BY <1>1, <2>1, <2>2 DEF ClickInv, Stages, MainWrites
<1>5. CASE Loading \/ Turning \/ Returning
  BY <1>5, NoClick
<1> QED
  BY <1>2, <1>3, <1>4, <1>5 DEF ClickInv, Stages

LEMMA ClickInvStep ==
  ASSUME TypeInv, ClickInv, ~overtaken', [Next]_vars
  PROVE  ClickInv'
<1>1. CASE Click
  BY <1>1, ClickStage
<1>2. ASSUME NEW n \in Clicks, MuteEnds(n) \/ UnmuteGoesOn(n) \/ UnmuteEnds(n) \/ Browser(n)
      PROVE  ClickInv'
  BY <1>2, MuteEndsStage, UnmuteGoesOnStage, UnmuteEndsStage, ModuleLoadsStage, ControlStage DEF Browser
<1>3. CASE \/ WriteSamples \/ PublishSamples \/ MessageArrives \/ IntervalFires \/ AnimationFrame
           \/ (\E n \in Clicks : Worklet(n)) \/ UNCHANGED vars
  BY <1>3, FrameSteps, FrameNodes, FrameStages DEF ClickInv
<1> QED
  BY <1>1, <1>2, <1>3 DEF Next, MainThread

LEMMA InitClickInv == Init => ClickInv
<1> SUFFICES ASSUME Init PROVE ClickInv
  OBVIOUS
<1>1. MainWrites
  BY DEF Init, MainWrites
<1>2. OnlyCallback
  BY Sizes DEF Init, OnlyCallback, NoNode, Clicks
<1>3. Silent
  BY DEF Init, Silent, Muted, AtWork, Addressed, NoContext
<1> QED
  BY <1>1, <1>2, <1>3 DEF ClickInv, Stages

\* A node of a muted page is not in service.
LEMMA InServiceOnly ==
  ASSUME TypeInv, ClickInv, NEW n \in Clicks, InService(n)
  PROVE  Playing /\ n = callback
<1>1. n = callback /\ contexts[n].running /\ "suspend" \notin Range(contexts[n].control)
  BY DEF InService, Running, ClickInv, OnlyCallback
<1>2. n # 0
  BY ClickFacts
<1>3. CASE Muting
  BY <1>1, <1>3, SuspendFound DEF Muting, Leaving
<1>4. CASE Turning
  BY <1>1, <1>4, SuspendFound DEF Turning, LeavingTwice
<1> QED
  BY <1>1, <1>2, <1>3, <1>4 DEF ClickInv, Stages, Silent, Loading, Returning

LEMMA OneSourceHolds ==
  ASSUME TypeInv, ClickInv
  PROVE  OneSource
<1> SUFFICES ASSUME Settled
             PROVE  IF muted THEN /\ Cardinality(intervals) = 1
                                  /\ {n \in Clicks : InService(n)} = {}
                    ELSE intervals = {} /\ {n \in Clicks : InService(n)} = {callback}
  BY DEF OneSource
<1>1. CASE Silent
  <2>1. Cardinality(intervals) = 1 /\ muted
    BY <1>1, FS_Singleton DEF Silent, Muted
  <2>2. \A n \in Clicks : ~InService(n)
    BY <1>1, InServiceOnly, ClickFacts DEF Silent
  <2> QED
    BY <2>1, <2>2
<1>2. CASE Playing
  <2>1. intervals = {} /\ ~muted /\ callback = clicks /\ clicks \in Clicks
    BY <1>2, ClickFacts, Parity DEF Playing, Unmuted
  <2>2. InService(callback)
    <3>1. nodes[callback].ctx = callback /\ callback # 0
      BY <2>1, ClickFacts DEF ClickInv, OnlyCallback
    <3> QED
      BY <1>2, <2>1, <3>1, SuspendFound DEF Playing, InService, Running
  <2> QED
    BY <2>1, <2>2, InServiceOnly
<1>3. CASE Loading \/ Muting \/ Turning \/ Returning
  <2>1. clicks \in Clicks
    BY <1>3, ClickFacts, Parity DEF Loading, Muting, Turning, Returning, Unmuted
  <2>2. handlers[clicks] # Done
    BY <1>3 DEF Loading, Muting, Turning, Returning, Leaving, LeavingTwice, Done
  <2> QED
    BY <2>1, <2>2, NotSettled
<1> QED
  BY <1>1, <1>2, <1>3 DEF ClickInv, Stages

\* One thing at a time runs frames, in any order of clicks, handlers, promises, messages
\* and frames, until a mute is clicked while another click is handled: nothing else
\* breaks it, and an unmute during a mute, or during several, does not.
THEOREM OneSourceAtATime == Spec => []OneSource
<1> DEFINE Inv == TypeInv /\ (overtaken \/ ClickInv)
<1>1. Init => Inv
  BY InitTypes, InitClickInv
<1>2. Inv /\ [Next]_vars => Inv'
  BY TypesStep, ClickInvStep, StaysOvertaken
<1>3. Inv => OneSource
  BY OneSourceHolds DEF OneSource
<1> QED
  BY <1>1, <1>2, <1>3, PTL DEF Spec
-----------------------------------------------------------------------------
(* The demand *)

LEMMA SettledStages ==
  ASSUME TypeInv, ClickInv
  PROVE  /\ Silent \/ Playing => Settled
         /\ Loading \/ Muting \/ Turning \/ Returning => ~Settled
<1>1. Silent \/ Playing => Settled
  BY DEF Silent, Playing, AtWork, Settled
<1>2. ASSUME Loading \/ Muting \/ Turning \/ Returning PROVE ~Settled
  <2>1. clicks \in Clicks
    BY <1>2, ClickFacts, Parity DEF Loading, Muting, Turning, Returning, Unmuted
  <2>2. handlers[clicks] # Done
    BY <1>2 DEF Loading, Muting, Turning, Returning, Leaving, LeavingTwice, Done
  <2> QED
    BY <2>1, <2>2, NotSettled
<1> QED
  BY <1>1, <1>2

LEMMA UnmutesGrow ==
  ASSUME NEW c \in Nat
  PROVE  /\ (c + 1) \div 2 \in Nat /\ (c >= 1 => (c + 1) \div 2 >= 1)
         /\ c % 2 = 0 => ((c + 1) + 1) \div 2 = (c + 1) \div 2 + 1
         /\ c % 2 = 1 => ((c + 1) + 1) \div 2 = (c + 1) \div 2
OBVIOUS

LEMMA RequestTypes ==
  ASSUME TypeInv
  PROVE  /\ messages \in Nat /\ rafs \in Nat /\ Requests \in Nat /\ Asking \in {0, 1} /\ Asking \in Nat
         /\ Unmutes \in Nat /\ Allowed \in Nat /\ Unmutes <= Allowed /\ Allowed <= Unmutes + 1
<1>1. Unmutes \in Nat
  BY ClickFacts, UnmutesGrow DEF Unmutes
<1>2. messages \in Nat /\ rafs \in Nat
  BY TypeParts DEF TypeInv, Counts
<1> QED
  BY <1>1, <1>2 DEF Requests, Asking, May, Allowed

\* What a step of the main thread does to the requests.
LEMMA MainRequests ==
  ASSUME TypeInv
  PROVE  /\ WriteSamples => Requests' = Requests /\ Requests >= 1
         /\ PublishSamples => Requests' = Requests - 1 /\ Requests >= 1
         /\ MessageArrives => Requests' = Requests
         /\ AnimationFrame => /\ Requests' <= Requests /\ Requests >= 1 /\ Requests' \in Nat
                              /\ callback # 0 => Requests' = Requests
         /\ IntervalFires => /\ callback = 0 => Requests' = Requests
                             /\ callback # 0 => Requests' = 1
<1> USE RequestTypes
<1>1. WriteSamples => Requests' = Requests /\ Requests >= 1
  <2> SUFFICES ASSUME WriteSamples PROVE Requests' = Requests /\ Requests >= 1
    OBVIOUS
  <2>1. main # Idle /\ main' # Idle /\ messages' = messages /\ rafs' = rafs
    <3>1. main \in Loads
      BY TypeParts DEF TypeInv, Counts
    <3>2. main.at = "load" /\ main' = [main EXCEPT !.at = "publish"] /\ messages' = messages /\ rafs' = rafs
      BY DEF WriteSamples
    <3>3. main'.at = "publish"
      BY <3>1, <3>2 DEF Loads
    <3> QED
      BY <3>2, <3>3 DEF Idle
  <2> QED
    BY <2>1 DEF Requests
<1>2. PublishSamples => Requests' = Requests - 1 /\ Requests >= 1
  <2> SUFFICES ASSUME PublishSamples PROVE Requests' = Requests - 1 /\ Requests >= 1
    OBVIOUS
  <2>1. main # Idle /\ main' = Idle /\ messages' = messages /\ rafs' = rafs
    BY DEF PublishSamples, Idle
  <2> QED
    BY <2>1 DEF Requests
<1>3. MessageArrives => Requests' = Requests
  BY DEF MessageArrives, Requests
<1>r. RunFrame => main = Idle /\ IF callback = 0 THEN main' = Idle ELSE main' # Idle
  BY DEF RunFrame, Idle
<1>4. AnimationFrame => /\ Requests' <= Requests /\ Requests >= 1 /\ Requests' \in Nat
                        /\ callback # 0 => Requests' = Requests
  BY <1>r DEF AnimationFrame, Requests
<1>5. IntervalFires => /\ callback = 0 => Requests' = Requests
                       /\ callback # 0 => Requests' = 1
  BY <1>r DEF IntervalFires, Requests
<1> QED
  BY <1>1, <1>2, <1>3, <1>4, <1>5

\* What a bound of a sum follows from.
AtMost(a, b) == a \in Int /\ b \in Int /\ a <= b
Within(d, a, b) == d \in Int /\ a \in Int /\ b \in Int /\ d + a <= b

\* What a step of a worklet does to them.
LEMMA WorkletRequests ==
  ASSUME TypeInv, NEW n \in Clicks, Worklet(n)
  PROVE  /\ Within(Requests', May(nodes'[n]), Requests + May(nodes[n]))
         /\ ~AskForSamples(n) => Requests' = Requests
<1> PICK r \in Nodes : r = nodes[n]
  BY ClickFacts
<1> PICK q : q = nodes'[n]
  OBVIOUS
<1>n. nodes \in [Clicks -> Nodes]
  BY ClickFacts
<1>t. messages \in Nat /\ rafs \in Nat /\ Requests \in Nat
  BY RequestTypes
<1>1. CASE ~AskForSamples(n)
  <2>1. Requests' = Requests
    BY <1>1 DEF Worklet, Construct, LookForSamples, PlaySamples, ConsumeSamples, Requests
  <2>2. May(q) <= May(r)
    <3>1. CASE Construct(n)
      BY <1>n, <3>1 DEF Construct, May, MayAsk, Nodes
    <3>2. CASE LookForSamples(n)
      BY <1>n, <3>2 DEF LookForSamples, May, MayAsk, Nodes
    <3>3. CASE PlaySamples(n)
      BY <1>n, <3>3 DEF PlaySamples, May, MayAsk, Nodes
    <3>4. CASE ConsumeSamples(n)
      BY <1>n, <3>4 DEF ConsumeSamples, May, MayAsk, Nodes
    <3> QED
      BY <1>1, <3>1, <3>2, <3>3, <3>4 DEF Worklet
  <2>3. Within(Requests, May(q), Requests + May(r))
    BY <1>t, <2>2 DEF May, Within
  <2> QED
    BY <1>1, <2>1, <2>3, Zenon
<1>2. CASE AskForSamples(n)
  <2>1. /\ q.pc = "idle" /\ q.canAskForSamples = MayAskLater(r) /\ q.wi = q.lastWriteIndex
        /\ messages' = IF Asks(r) THEN messages + 1 ELSE messages
        /\ rafs' = rafs /\ main' = main /\ r.pc = "ask"
    BY <1>n, <1>2 DEF AskForSamples, Nodes
  <2>2. May(q) = IF MayAskLater(r) THEN 1 ELSE 0
    BY <2>1 DEF May, MayAsk
  <2>3. CASE Asks(r)
    <3>1. May(r) = 1 /\ ~MayAskLater(r)
      BY <2>3 DEF May, Asks, MayAskLater
    <3>2. Within(Requests', May(q), Requests + May(r))
      BY <1>t, <2>1, <2>2, <2>3, <3>1 DEF Requests, Within
    <3> QED
      BY <1>2, <3>2, Zenon
  <2>4. CASE ~Asks(r)
    <3>1. May(r) >= May(q) /\ May(r) \in Int /\ May(q) \in Int
      BY <2>2 DEF May, MayAskLater
    <3>2. Within(Requests', May(q), Requests + May(r))
      BY <1>t, <2>1, <2>4, <3>1 DEF Requests, Within
    <3> QED
      BY <1>2, <3>2, Zenon
  <2> QED
    BY <2>3, <2>4
<1> QED
  BY <1>1, <1>2

LEMMA AskingIs ==
  ASSUME TypeInv, ClickInv
  PROVE  /\ Silent \/ Loading \/ Returning => callback = 0
         /\ Playing \/ Muting \/ Turning => callback \in Clicks /\ callback # 0
         /\ Muting => Unmutes >= 1
<1>1. Silent \/ Loading \/ Returning => callback = 0
  BY DEF Silent, Loading, Returning
<1>2. Playing \/ Muting \/ Turning => callback \in Clicks /\ callback # 0
  BY ClickFacts, Parity DEF Playing, Muting, Turning, Unmuted
<1>3. Muting => Unmutes >= 1
  BY ClickFacts, UnmutesGrow DEF Muting, Unmutes
<1> QED
  BY <1>1, <1>2, <1>3

\* Nothing but a click and the end of an unmute changes what is allowed.
LEMMA AllowedKept ==
  ASSUME clicks' = clicks, muted' = muted, Settled => Settled', TypeInv
  PROVE  Allowed <= Allowed'
BY RequestTypes DEF Allowed, Unmutes

LEMMA SumKept ==
  ASSUME NEW d, NEW a, NEW b, NEW e, NEW f, NEW c,
         Within(d, a, b), AtMost(e, d), AtMost(f, a), AtMost(b, c)
  PROVE  Within(e, f, c)
BY DEF Within, AtMost

LEMMA SumMoved ==
  ASSUME NEW d, NEW a, NEW b, NEW e, NEW f,
         Within(d, a, b), AtMost(0, a), e = d - 1, AtMost(f, 1)
  PROVE  Within(e, f, b)
BY DEF Within, AtMost

LEMMA SumOfTwo ==
  ASSUME NEW e, NEW f, NEW b, AtMost(e, 1), AtMost(f, 1), AtMost(2, b)
  PROVE  Within(e, f, b)
BY DEF Within, AtMost

LEMMA FrameRequests ==
  ASSUME TypeInv, ClickInv, RequestsBounded,
         \/ WriteSamples \/ PublishSamples \/ MessageArrives \/ IntervalFires \/ AnimationFrame
         \/ (\E n \in Clicks : Worklet(n)) \/ UNCHANGED vars
  PROVE  RequestsBounded'
<1>0. UNCHANGED <<callback, clicks, muted, handlers, intervals>>
  BY FrameSteps DEF Frame
<1>1. Allowed' = Allowed
  BY <1>0 DEF Allowed, Unmutes, Settled
<1>t. /\ Requests \in Nat /\ Asking \in Nat /\ Asking <= 1 /\ Allowed \in Nat /\ Requests + Asking <= Allowed
      /\ Asking' \in Nat /\ Asking' <= 1
  BY RequestTypes DEF RequestsBounded, Asking, May
<1>w. Within(Requests, Asking, Allowed) /\ AtMost(Allowed, Allowed) /\ AtMost(0, Asking) /\ AtMost(Asking', 1)
  BY <1>t DEF Within, AtMost
<1> SUFFICES Within(Requests', Asking', Allowed)
  BY <1>1, Zenon DEF RequestsBounded, Within
<1>2. CASE nodes' = nodes /\ Requests' <= Requests /\ Requests' \in Int
  <2>1. Asking' = Asking
    BY <1>0, <1>2 DEF Asking, May, MayAsk
  <2>2. AtMost(Asking', Asking)
    BY <1>t, <2>1 DEF AtMost
  <2>3. AtMost(Requests', Requests)
    BY <1>2, <1>t DEF AtMost
  <2> QED
    BY <1>w, <2>2, <2>3, SumKept, Zenon
<1>3. CASE WriteSamples
  <2>1. main.node = callback /\ callback \in Clicks /\ nodes \in [Clicks -> Nodes] /\ nodes[callback] \in Nodes
    <3>1. main # Idle
      BY <1>3 DEF WriteSamples, Idle
    <3> QED
      BY <3>1, ClickFacts DEF ClickInv, MainWrites
  <2>2. May(nodes'[callback]) = May(nodes[callback])
    BY <1>3, <2>1 DEF WriteSamples, May, MayAsk, Nodes
  <2>3. Asking' = Asking
    BY <1>0, <2>2 DEF Asking
  <2>4. AtMost(Asking', Asking)
    BY <1>t, <2>3 DEF AtMost
  <2>5. AtMost(Requests', Requests)
    <3>1. Requests' = Requests
      BY <1>3, MainRequests
    <3> QED
      BY <1>t, <3>1 DEF AtMost
  <2> QED
    BY <1>w, <2>4, <2>5, SumKept, Zenon
<1>4. CASE PublishSamples
  <2>1. Requests' = Requests - 1
    BY <1>4, MainRequests
  <2> QED
    BY <1>w, <2>1, SumMoved, Zenon
<1>5. CASE MessageArrives
  <2>1. nodes' = nodes /\ Requests' <= Requests /\ Requests' \in Int
    BY <1>5, <1>t, MainRequests DEF MessageArrives
  <2> QED
    BY <1>2, <2>1
<1>6. CASE AnimationFrame
  BY <1>2, <1>6, <1>t, MainRequests DEF AnimationFrame
<1>7. CASE IntervalFires
  <2>1. CASE callback = 0
    BY <1>2, <1>7, <1>t, <2>1, MainRequests DEF IntervalFires
  <2>2. CASE callback # 0
    <3>1. intervals # {}
      BY <1>7 DEF IntervalFires
    <3>2. Muting
      BY <2>2, <3>1, AskingIs DEF ClickInv, Stages, Playing, Turning, Unmuted
    <3>3. AtMost(2, Allowed)
      <4>1. muted /\ Unmutes >= 1 /\ Unmutes \in Nat
        BY <3>2, AskingIs, RequestTypes DEF Muting, Muted
      <4> QED
        BY <4>1 DEF Allowed, AtMost
    <3>4. AtMost(Requests', 1)
      <4>1. Requests' = 1
        BY <1>7, <2>2, MainRequests
      <4> QED
        BY <4>1 DEF AtMost
    <3> QED
      BY <1>w, <3>3, <3>4, SumOfTwo, Zenon
  <2> QED
    BY <2>1, <2>2
<1>8. ASSUME NEW n \in Clicks, Worklet(n) PROVE Within(Requests', Asking', Allowed)
  <2>1. n = callback /\ n # 0
    BY <1>8, WorkletMoves, ClickFacts DEF ClickInv, OnlyCallback
  <2>2. Asking = May(nodes[n]) /\ Asking' = May(nodes'[n])
    BY <1>0, <2>1 DEF Asking
  <2>3. Within(Requests', May(nodes'[n]), Requests + May(nodes[n]))
    BY <1>8, WorkletRequests
  <2>4. Within(Requests', Asking', Requests + Asking)
    BY <2>2, <2>3, Zenon
  <2>5. AtMost(Requests + Asking, Allowed) /\ AtMost(Asking', Asking')
    BY <1>t DEF AtMost
  <2>6. AtMost(Requests', Requests')
    BY <2>4 DEF Within, AtMost
  <2> QED
    BY <2>4, <2>5, <2>6, SumKept, Zenon
<1>9. CASE UNCHANGED vars
  BY <1>2, <1>9, <1>t DEF vars, Requests
<1> QED
  BY <1>3, <1>4, <1>5, <1>6, <1>7, <1>8, <1>9

LEMMA ClickRequests ==
  ASSUME TypeInv, ClickInv, RequestsBounded, ~overtaken', Click
  PROVE  RequestsBounded'
<1>1. Requests' = Requests /\ nodes' = nodes /\ clicks' = clicks + 1 /\ muted' = ~muted
  BY DEF Click, Requests
<1>t. /\ Requests \in Nat /\ Asking \in Nat /\ Asking <= 1 /\ Unmutes \in Nat /\ Requests + Asking <= Allowed
      /\ Asking' \in Nat /\ Asking' <= 1 /\ clicks \in Nat
  BY RequestTypes, ClickFacts DEF RequestsBounded, Asking, May
<1>u. /\ clicks % 2 = 0 => Unmutes' = Unmutes + 1
      /\ clicks % 2 = 1 => Unmutes' = Unmutes
  BY <1>1, <1>t, UnmutesGrow DEF Unmutes
<1>a. /\ Unmutes' \in Nat /\ Unmutes' <= Allowed' /\ Allowed' \in Nat
      /\ muted' => Allowed' = Unmutes' + 1
  BY <1>t, <1>u, Parity DEF Allowed
<1>w. Within(Requests, Asking, Allowed) /\ AtMost(Requests', Requests)
  BY <1>1, <1>t, RequestTypes DEF Within, AtMost
<1> SUFFICES AtMost(Asking', Asking) /\ AtMost(Allowed, Allowed')
  <2>1. Within(Requests', Asking', Allowed')
    BY <1>w, SumKept, Zenon
  <2> QED
    BY <2>1, Zenon DEF RequestsBounded, Within
<1>2. CASE Silent
  <2>1. Loading'
    BY <1>2, ClickWhenSilent
  <2>2. callback' = 0 /\ clicks % 2 = 0 /\ Allowed = Unmutes + 1 /\ callback = 0
    BY <1>2, <2>1 DEF Silent, Muted, Loading, Allowed
  <2>3. Asking' = 0 /\ Asking = 0
    BY <2>2 DEF Asking
  <2>4. AtMost(Asking', Asking)
    BY <1>t, <2>3 DEF AtMost
  <2>5. AtMost(Allowed, Allowed')
    BY <1>t, <1>u, <1>a, <2>2 DEF AtMost
  <2> QED
    BY <2>4, <2>5
<1>3. CASE Playing
  <2>1. Muting'
    BY <1>3, ClickWhenPlaying
  <2>2. callback' = callback /\ clicks % 2 = 1 /\ muted' /\ Allowed = Unmutes + 1
    <3>1. callback' = clicks' - 1 /\ callback = clicks
      BY <1>3, <2>1 DEF Playing, Muting
    <3> QED
      BY <1>1, <1>3, <1>t, <2>1, <3>1, SettledStages DEF Playing, Unmuted, Muting, Muted, Allowed
  <2>3. Asking' = Asking
    BY <1>1, <2>2 DEF Asking, May, MayAsk
  <2>4. AtMost(Asking', Asking)
    BY <1>t, <2>3 DEF AtMost
  <2>5. AtMost(Allowed, Allowed')
    BY <1>t, <1>u, <1>a, <2>2 DEF AtMost
  <2> QED
    BY <2>4, <2>5
<1>4. CASE Muting
  <2>1. Turning'
    BY <1>4, ClickWhenMuting
  <2>2. callback' = callback /\ clicks % 2 = 0 /\ Allowed = Unmutes + 1
    <3>1. callback' = clicks' - 2 /\ callback = clicks - 1
      BY <1>4, <2>1 DEF Turning, Muting
    <3> QED
      BY <1>1, <1>4, <1>t, <3>1 DEF Muting, Muted, Allowed
  <2>3. Asking' = Asking
    BY <1>1, <2>2 DEF Asking, May, MayAsk
  <2>4. AtMost(Asking', Asking)
    BY <1>t, <2>3 DEF AtMost
  <2>5. AtMost(Allowed, Allowed')
    BY <1>t, <1>u, <1>a, <2>2 DEF AtMost
  <2> QED
    BY <2>4, <2>5
<1> QED
  BY <1>2, <1>3, <1>4, NoClick DEF ClickInv, Stages

LEMMA ButtonRequests ==
  ASSUME TypeInv, ClickInv, RequestsBounded, NEW n \in Clicks,
         MuteEnds(n) \/ UnmuteGoesOn(n) \/ UnmuteEnds(n) \/ Browser(n)
  PROVE  RequestsBounded'
<1>1. Requests' = Requests /\ clicks' = clicks /\ muted' = muted
  BY DEF MuteEnds, UnmuteGoesOn, UnmuteEnds, Browser, ModuleLoads, Control, Requests, button
<1>t. /\ Requests \in Nat /\ Asking \in Nat /\ Asking <= 1 /\ Unmutes \in Nat /\ Requests + Asking <= Allowed
      /\ Asking' \in Nat /\ Asking' <= 1 /\ Allowed \in Nat
  BY RequestTypes DEF RequestsBounded, Asking, May
<1>w. Unmutes' = Unmutes /\ Allowed' \in Nat
  BY <1>1, <1>t DEF Allowed, Unmutes
<1>r. Within(Requests, Asking, Allowed) /\ AtMost(Requests', Requests)
  BY <1>1, <1>t DEF Within, AtMost
<1>s. AtMost(Asking', Asking) /\ AtMost(Allowed, Allowed') => RequestsBounded'
  <2> SUFFICES ASSUME AtMost(Asking', Asking), AtMost(Allowed, Allowed') PROVE RequestsBounded'
    OBVIOUS
  <2>1. Within(Requests', Asking', Allowed')
    BY <1>r, SumKept, Zenon
  <2> QED
    BY <2>1, Zenon DEF RequestsBounded, Within
<1>2. CASE MuteEnds(n) \/ UnmuteGoesOn(n) \/ ModuleLoads(n)
  <2>1. handlers[n] # Done
    BY <1>2 DEF MuteEnds, UnmuteGoesOn, ModuleLoads, Suspended, Done
  <2>2. Allowed <= Allowed'
    BY <1>1, <2>1, NotSettled, AllowedKept
  <2>3. Asking' <= Asking
    <3>1. CASE MuteEnds(n)
      <4>1. callback' = 0
        BY <3>1 DEF MuteEnds
      <4> QED
        BY <1>t, <4>1 DEF Asking
    <3>2. CASE UnmuteGoesOn(n) \/ ModuleLoads(n)
      <4>1. nodes' = nodes /\ callback' = callback
        BY <3>2 DEF UnmuteGoesOn, ModuleLoads, button
      <4> QED
        BY <1>t, <4>1 DEF Asking, May, MayAsk
    <3> QED
      BY <1>2, <3>1, <3>2
  <2>9. AtMost(Asking', Asking) /\ AtMost(Allowed, Allowed')
    BY <1>t, <1>w, <2>2, <2>3 DEF AtMost
  <2> QED
    BY <1>s, <2>9
<1>3. CASE UnmuteEnds(n)
  <2>1. Playing' /\ callback = 0 /\ ~Settled /\ ~muted
    <3>1. handlers[n].at = "loaded"
      BY <1>3 DEF UnmuteEnds
    <3>2. Loading
      BY <3>1, LoadingOnly
    <3> QED
      BY <1>3, <3>2, UnmuteEndsStage, SettledStages DEF Loading, Unmuted
  <2>2. Settled'
    BY <2>1 DEF Playing, AtWork, Settled
  <2>3. Asking = 0 /\ Allowed = Unmutes /\ Allowed' = Unmutes + 1
    BY <1>w, <2>1, <2>2 DEF Asking, Allowed
  <2>4. Within(Requests, 1, Unmutes + 1)
    BY <1>t, <2>3 DEF Within
  <2>5. AtMost(Asking', 1) /\ AtMost(Unmutes + 1, Unmutes + 1)
    BY <1>t DEF AtMost
  <2>6. Within(Requests', Asking', Unmutes + 1)
    BY <1>r, <2>4, <2>5, SumKept, Zenon
  <2> QED
    BY <2>3, <2>6, Zenon DEF RequestsBounded, Within
<1>4. CASE Control(n)
  <2>1. Settled => Settled'
    <3> SUFFICES ASSUME Settled PROVE Settled'
      OBVIOUS
    <3>1. contexts[n].control # <<>>
      BY <1>4, ControlEffect
    <3>2. Playing
      <4>1. Silent \/ Playing
        BY SettledStages DEF ClickInv, Stages
      <4> QED
        BY <3>1, <4>1, AddressedOnly DEF Silent
    <3>3. contexts[n].control = <<"resume">>
      BY <3>1, <3>2, AddressedOnly DEF Playing
    <3>4. handlers' = handlers
      BY <1>4, <3>3, ControlEffect, FirstMessages
    <3> QED
      BY <3>4 DEF Settled
  <2>2. Allowed <= Allowed'
    BY <1>1, <2>1, AllowedKept
  <2>3. Asking' = Asking
    <3>1. nodes' = nodes /\ callback' = callback
      BY <1>4 DEF Control, button
    <3> QED
      BY <3>1 DEF Asking, May, MayAsk
  <2>9. AtMost(Asking', Asking) /\ AtMost(Allowed, Allowed')
    BY <1>t, <1>w, <2>2, <2>3 DEF AtMost
  <2> QED
    BY <1>s, <2>9
<1> QED
  BY <1>2, <1>3, <1>4 DEF Browser

LEMMA RequestsStep ==
  ASSUME TypeInv, ClickInv, RequestsBounded, ~overtaken', [Next]_vars
  PROVE  RequestsBounded'
BY ClickRequests, ButtonRequests, FrameRequests DEF Next, MainThread

LEMMA InitRequests == Init => RequestsBounded
<1> SUFFICES ASSUME Init PROVE RequestsBounded
  OBVIOUS
<1>1. Requests = 0 /\ Asking = 0
  BY DEF Init, Requests, Asking
<1> QED
  BY <1>1, InitTypes, RequestTypes DEF RequestsBounded

\* The bound on the requests that the bound on the clicks gives.
MostRequests == (MaxClicks + 1) \div 2 + 1

LEMMA FewAreAsked ==
  ASSUME TypeInv, ClickInv, RequestsBounded
  PROVE  FewRequests(MostRequests)
<1> SUFFICES ASSUME NEW n \in Clicks, nodes[n].pc = "new" PROVE Requests < MostRequests
  BY DEF FewRequests
<1>1. n = callback /\ n # 0
  BY ClickFacts DEF ClickInv, OnlyCallback
<1>2. Asking = 1
  BY <1>1 DEF Asking, May
<1>3. (clicks + 1) \div 2 <= (MaxClicks + 1) \div 2
  <2>1. PICK c \in Nat, b \in Nat : c = clicks /\ b = MaxClicks /\ c <= b
    BY ClickFacts
  <2>2. (c + 1) \div 2 <= (b + 1) \div 2
    BY <2>1
  <2> QED
    BY <2>1, <2>2
<1>4. (MaxClicks + 1) \div 2 \in Nat
  BY Sizes, UnmutesGrow
<1> QED
  BY <1>2, <1>3, <1>4, RequestTypes DEF RequestsBounded, MostRequests, Unmutes
-----------------------------------------------------------------------------
(* The ring *)

\* Going on within two turns.
LEMMA AddModulo ==
  ASSUME NEW b \in Nat, b > 0, NEW x \in Nat, NEW k \in Nat, x + k < 2 * b
  PROVE  ((x % b) + k) % b = (x + k) % b
<1>1. CASE x < b
  <2>1. x % b = x
    BY <1>1, FirstTurn
  <2> QED
    BY <2>1
<1>2. CASE x >= b
  <2>1. x % b = x - b /\ (x + k) % b = x + k - b
    BY <1>2, SecondTurn
  <2>2. (x - b + k) % b = x - b + k
    BY <1>2, FirstTurn
  <2>3. x - b + k = x + k - b
    OBVIOUS
  <2> QED
    BY <2>1, <2>2, <2>3
<1> QED
  BY <1>1, <1>2

LEMMA TurnOn ==
  ASSUME NEW b \in Nat, b > 0, NEW x \in Nat, NEW y \in Nat, NEW k \in Nat, x + y + k < 2 * b
  PROVE  (((x + y) % b) + k) % b = (x + (y + k)) % b
<1>1. x + y \in Nat /\ (x + y) + k < 2 * b /\ (x + y) + k = x + (y + k)
  OBVIOUS
<1>2. (((x + y) % b) + k) % b = ((x + y) + k) % b
  BY <1>1, AddModulo
<1> QED
  BY <1>1, <1>2

\* The write index is as far from the read index as there are samples.
LEMMA WriteIndexIs ==
  ASSUME NEW r \in Nodes
  PROVE  Level(r) \in Cells /\ Level(r) \in Nat /\ Level(r) < Capacity /\ r.wi = (r.ri + Level(r)) % Capacity
<1> PICK w \in Nat, i \in Nat : w = r.wi /\ i = r.ri /\ w < Capacity /\ i < Capacity
  BY NodeNumbers
<1>1. Level(r) = IF w >= i THEN w - i ELSE Capacity - (i - w)
  BY DEF Level, availableSamples
<1>2. CASE w >= i
  <2>0. w \in 0 .. Capacity - 1 /\ Capacity \in Nat /\ Capacity > 0
    BY Sizes
  <2>1. w % Capacity = w
    BY <2>0, FirstTurn
  <2>2. PICK l \in Nat : l = w - i /\ l < Capacity /\ l = Level(r)
    BY <1>1, <1>2, Sizes
  <2>3. i + l = w
    BY <2>2
  <2> QED
    BY <2>1, <2>2, <2>3, Sizes DEF Cells
<1>3. CASE w < i
  <2>1. i + (Capacity - (i - w)) = w + Capacity
    BY Sizes
  <2>2. (w + Capacity) % Capacity = w
    BY Sizes, SecondTurn
  <2> QED
    BY <1>1, <1>3, <2>1, <2>2, Sizes DEF Cells
<1> QED
  BY <1>2, <1>3

LEMMA LevelOf ==
  ASSUME NEW r, NEW n \in Cells, r.ri \in Cells, r.wi = (r.ri + n) % Capacity
  PROVE  Level(r) = n
<1> PICK i \in Nat : i = r.ri /\ i < Capacity /\ n \in Nat /\ n < Capacity
  BY Sizes DEF Cells
<1> PICK w : w = r.wi
  OBVIOUS
<1>1. CASE i + n < Capacity
  <2>1. w = i + n
    BY <1>1, Sizes, FirstTurn
  <2> QED
    BY <2>1 DEF Level, availableSamples
<1>2. CASE i + n >= Capacity
  <2>1. w = i + n - Capacity
    BY <1>2, Sizes, SecondTurn
  <2> QED
    BY <2>1, Sizes DEF Level, availableSamples
<1> QED
  BY <1>1, <1>2, Sizes

\* Where the cells that hold samples are, seen from the write index: out of reach
\* of a frame that fits.
LEMMA Behind ==
  ASSUME NEW C \in Nat, C > 0, NEW i \in Nat, i < C, NEW l \in Nat, l < C, NEW k \in Nat, k < l
  PROVE  (((i + k) % C) + C - ((i + l) % C)) % C = C + k - l
<1>1. CASE i + l < C
  <2>1. (i + k) % C = i + k /\ (i + l) % C = i + l
    BY <1>1, FirstTurn
  <2>2. i + k + C - (i + l) = C + k - l /\ (C + k - l) % C = C + k - l
    BY FirstTurn
  <2> QED
    BY <2>1, <2>2
<1>2. CASE i + l >= C /\ i + k < C
  <2>1. (i + k) % C = i + k /\ (i + l) % C = i + l - C
    BY <1>2, FirstTurn, SecondTurn
  <2>2. i + k + C - (i + l - C) = C + (C + k - l) /\ (C + (C + k - l)) % C = C + k - l
    BY SecondTurn
  <2> QED
    BY <2>1, <2>2
<1>3. CASE i + k >= C
  <2>1. (i + k) % C = i + k - C /\ (i + l) % C = i + l - C
    BY <1>3, SecondTurn
  <2>2. i + k - C + C - (i + l - C) = C + k - l /\ (C + k - l) % C = C + k - l
    BY FirstTurn
  <2> QED
    BY <2>1, <2>2
<1> QED
  BY <1>1, <1>2, <1>3

LEMMA Ahead ==
  ASSUME NEW C \in Nat, C > 0, NEW w \in Nat, w < C, NEW j \in Nat, j < C
  PROVE  (((w + j) % C) + C - w) % C = j
<1>1. CASE w + j < C
  <2>1. (w + j) % C = w + j
    BY <1>1, FirstTurn
  <2>2. w + j + C - w = C + j /\ (C + j) % C = j
    BY SecondTurn
  <2> QED
    BY <2>1, <2>2
<1>2. CASE w + j >= C
  <2>1. (w + j) % C = w + j - C
    BY <1>2, SecondTurn
  <2>2. w + j - C + C - w = j /\ j % C = j
    BY FirstTurn
  <2> QED
    BY <2>1, <2>2
<1> QED
  BY <1>1, <1>2

\* What D requests take of the ring.
LEMMA Products ==
  ASSUME NEW F \in Nat, NEW D \in Nat, NEW K \in Nat
  PROVE  /\ F * D \in Nat /\ F * K \in Nat
         /\ F * (D + 1) = F * D + F /\ F * (K + 1) = F * K + F
         /\ D >= 1 => F * (D - 1) = F * D - F /\ F * D >= F
         /\ D <= K => F * D <= F * K
<1>1. F * D \in Nat /\ F * K \in Nat
  OBVIOUS
<1>2. F * (D + 1) = F * D + F /\ F * (K + 1) = F * K + F
  OBVIOUS
<1>3. ASSUME D >= 1 PROVE F * (D - 1) = F * D - F /\ F * D >= F
  <2>1. PICK e \in Nat : e = D - 1
    BY <1>3
  <2>2. D = e + 1 /\ F * (e + 1) = F * e + F /\ F * e \in Nat
    BY <2>1
  <2> QED
    BY <2>1, <2>2
<1>4. ASSUME D <= K PROVE F * D <= F * K
  <2>1. PICK e \in Nat : e = K - D
    BY <1>4
  <2>2. K = D + e /\ F * (D + e) = F * D + F * e /\ F * e \in Nat
    BY <2>1
  <2> QED
    BY <1>1, <2>1, <2>2
<1> QED
  BY <1>1, <1>2, <1>3, <1>4

LEMMA MayIs ==
  ASSUME NEW r
  PROVE  May(r) \in {0, 1} /\ (r.pc = "new" => May(r) = 1)
BY DEF May

\* A frame that is asked for has room.
LEMMA FrameFits ==
  ASSUME NEW K \in Nat, RoomFor(K), NEW r \in Nodes, NEW D \in Nat, D >= 1, Demand(K, r, D)
  PROVE  Level(r) + FrameSamples < Capacity
<1>1. FrameSamples * D >= FrameSamples /\ FrameSamples * D \in Nat
  BY Products, Sizes
<1>2. Level(r) + FrameSamples * D <= Most(K) /\ Most(K) < Capacity
  BY DEF Demand, RoomFor
<1>3. Level(r) \in Nat
  BY WriteIndexIs
<1>4. Most(K) \in Int
  BY Sizes, Products DEF Most
<1> QED
  BY <1>1, <1>2, <1>3, <1>4, Sizes

\* What the writing and the publishing of w samples do to ring r.
Wrote(r, q, w) ==
  /\ q.wi = r.wi /\ q.made = r.made /\ q.overflow = r.overflow /\ May(q) = May(r)
  /\ \A c \in Cells : LET i == (c + Capacity - r.wi) % Capacity
                      IN  q.cells[c] = IF i < w THEN (r.made + i) % Serials ELSE r.cells[c]

Published(r, q, w) ==
  /\ q.cells = r.cells /\ q.wi = (r.wi + w) % Capacity /\ q.made = (r.made + w) % Serials
  /\ q.overflow = (r.overflow \/ w < FrameSamples)

\* The fields that a step of the main thread leaves alone.
SameReader(r, q) ==
  q.ri = r.ri /\ q.heard = r.heard /\ q.pc = r.pc /\ q.avail = r.avail /\ q.have = r.have /\ q.got = r.got

\* The parts of RingOf that the level decides.
LEMMA ProcessKept ==
  ASSUME NEW r \in Nodes, NEW q \in Nodes, SameReader(r, q), ProcessHolds(r), Level(q) >= Level(r)
  PROVE  ProcessHolds(q) /\ Unseen(q) <= Unseen(r) + (Level(q) - Level(r)) /\ Unseen(r) \in Nat /\ Unseen(q) \in Nat
<1> PICK l \in Nat, e \in Nat : l = Level(r) /\ e = Level(q)
  BY WriteIndexIs
<1> PICK a \in Nat, h \in Nat : a = r.avail /\ h = r.have
  BY NodeNumbers
<1>1. q.avail = a /\ q.have = h /\ q.pc = r.pc /\ q.got = r.got /\ q.heard = r.heard
  BY DEF SameReader
<1>2. /\ r.pc \in {"play", "consume"} => a <= l
      /\ r.pc = "ask" => 2 * h <= l
  BY DEF ProcessHolds
<1>3. ProcessHolds(q)
  <2>1. q.pc = "consume" =>
          /\ 2 * q.have <= q.avail /\ Len(q.got) = q.avail - 2 * q.have
          /\ \A k \in DOMAIN q.got : q.got[k] = (q.heard + k - 1) % Serials
    BY <1>1 DEF ProcessHolds
  <2> QED
    BY <1>1, <1>2, <2>1 DEF ProcessHolds
<1>4. /\ Unseen(r) = IF r.pc \in {"play", "consume"} THEN l - a ELSE IF r.pc = "ask" THEN l - 2 * h ELSE 0
      /\ Unseen(q) = IF r.pc \in {"play", "consume"} THEN e - a ELSE IF r.pc = "ask" THEN e - 2 * h ELSE 0
  BY <1>1 DEF Unseen
<1> QED
  BY <1>2, <1>3, <1>4

\* The samples of a frame are written behind those that are there.
LEMMA WriteRing ==
  ASSUME NEW K \in Nat, RoomFor(K), NEW r \in Nodes, NEW q \in Nodes, NEW m, NEW o, NEW D \in Nat, D >= 1,
         RingOf(K, r, m, D), m # Idle, o.at = "publish", o.will = m.will,
         SameReader(r, q), Wrote(r, q, m.will)
  PROVE  RingOf(K, q, o, D)
<1>l. PICK l \in Nat, w \in Nat, i \in Nat, h \in Nat, n \in Nat :
        /\ l = Level(r) /\ w = r.wi /\ i = r.ri /\ h = r.heard /\ n = r.made
        /\ w < Capacity /\ i < Capacity /\ w = (i + l) % Capacity /\ l < Capacity
  BY NodeNumbers, WriteIndexIs
<1>s. Capacity \in Nat /\ Capacity > 0 /\ FrameSamples \in Nat
  BY Sizes
<1>f. m.will = FrameSamples
  BY DEF RingOf
<1>1. l + FrameSamples < Capacity
  BY <1>l, FrameFits DEF RingOf
<1>2. Level(q) = l
  BY <1>l DEF Level, availableSamples, SameReader, Wrote
<1>3. \A c \in Cells : LET j == (c + Capacity - w) % Capacity
                       IN  q.cells[c] = IF j < FrameSamples THEN (n + j) % Serials ELSE r.cells[c]
  BY <1>l, <1>f DEF Wrote
<1>4. RingHolds(q)
  <2>1. ASSUME NEW k \in 0 .. l - 1 PROVE q.cells[(i + k) % Capacity] = (h + k) % Serials
    <3>c. PICK c : c = (i + k) % Capacity
      OBVIOUS
    <3>0. k \in Nat /\ k < l /\ i + k \in Int /\ l < Capacity /\ i < Capacity
      BY <1>l
    <3>1. c \in Cells
      BY <1>s, <3>0, <3>c, Modulo DEF Cells
    <3>2. (((i + k) % Capacity) + Capacity - ((i + l) % Capacity)) % Capacity = Capacity + k - l
      BY <1>s, <3>0, Behind
    <3>i. (c + Capacity - w) % Capacity = Capacity + k - l
      BY <1>l, <3>c, <3>2, Zenon
    <3>3. ~(Capacity + k - l < FrameSamples)
      BY <1>1, <1>s, <3>0
    <3>4. q.cells[c] = r.cells[c]
      BY <1>3, <3>1, <3>i, <3>3, Zenon
    <3> QED
      BY <1>l, <3>c, <3>4 DEF RingOf, RingHolds
  <2> QED
    BY <1>l, <1>2, <2>1, Zenon DEF RingOf, RingHolds, SameReader, Wrote
<1>5. Written(q)
  <2> SUFFICES ASSUME NEW k \in 0 .. FrameSamples - 1
               PROVE  q.cells[(w + k) % Capacity] = (n + k) % Serials
    BY <1>l, Zenon DEF Written, Wrote
  <2>c. PICK c : c = (w + k) % Capacity
    OBVIOUS
  <2>1. k \in Nat /\ k < Capacity /\ k < FrameSamples /\ w < Capacity /\ w + k \in Int
    BY <1>l, <1>s, Sizes
  <2>2. c \in Cells
    BY <1>s, <2>c, <2>1, Modulo DEF Cells
  <2>3. (((w + k) % Capacity) + Capacity - w) % Capacity = k
    BY <1>s, <2>1, Ahead
  <2> QED
    BY <1>3, <2>c, <2>1, <2>2, <2>3, Zenon
<1>6. ProcessHolds(q) /\ Unseen(q) = Unseen(r)
  BY <1>l, <1>2 DEF RingOf, ProcessHolds, SameReader, Unseen
<1>7. Demand(K, q, D)
  BY <1>l, <1>2, <1>6 DEF RingOf, Demand, Wrote
<1> QED
  BY <1>f, <1>l, <1>2, <1>4, <1>5, <1>6, <1>7 DEF RingOf, SameReader

\* They become a part of what is there.
LEMMA PublishRing ==
  ASSUME NEW K \in Nat, RoomFor(K), NEW r \in Nodes, NEW q \in Nodes, NEW m, NEW D \in Nat, D >= 1,
         RingOf(K, r, m, D), m # Idle, m.at = "publish",
         SameReader(r, q), Published(r, q, m.will)
  PROVE  RingOf(K, q, Idle, D - 1)
<1>l. PICK l \in Nat, w \in Nat, i \in Nat, h \in Nat, n \in Nat :
        /\ l = Level(r) /\ w = r.wi /\ i = r.ri /\ h = r.heard /\ n = r.made
        /\ w < Capacity /\ i < Capacity /\ w = (i + l) % Capacity /\ h < Serials
  BY NodeNumbers, WriteIndexIs
<1>F. PICK F \in Nat : F = FrameSamples /\ F % 2 = 0
  BY Sizes
<1>s. Capacity \in Nat /\ Capacity > 0 /\ Serials \in Nat /\ Serials = 2 * Capacity /\ Serials > 0
  BY Sizes
<1>f. m.will = F
  BY <1>F DEF RingOf
<1>1. l + F < Capacity
  BY <1>F, <1>l, FrameFits DEF RingOf
<1>b. i + l + F < 2 * Capacity /\ h + l + F < 2 * Serials
  <2>1. i < Capacity /\ h < Serials
    BY <1>l
  <2> QED
    BY <1>s, <1>1, <2>1
<1>2. Level(q) = l + F
  <2>1. q.wi = (i + (l + F)) % Capacity
    <3>1. (((i + l) % Capacity) + F) % Capacity = (i + (l + F)) % Capacity
      BY <1>s, <1>b, TurnOn
    <3> QED
      BY <1>f, <1>l, <3>1, Zenon DEF Published
  <2>2. l + F \in Cells
    BY <1>s, <1>1 DEF Cells
  <2>3. q.ri \in Cells /\ q.ri = i
    BY <1>l, NodeNumbers DEF SameReader
  <2> QED
    BY <2>1, <2>2, <2>3, LevelOf, Zenon
<1>3. n = (h + l) % Serials /\ ~r.overflow
  BY <1>l DEF RingOf, RingHolds
<1>4. q.made = (h + (l + F)) % Serials
  <2>1. (((h + l) % Serials) + F) % Serials = (h + (l + F)) % Serials
    BY <1>s, <1>b, TurnOn
  <2> QED
    BY <1>3, <1>f, <1>l, <2>1, Zenon DEF Published
<1>5. RingHolds(q)
  <2>1. ASSUME NEW k \in 0 .. (l + F) - 1 PROVE q.cells[(i + k) % Capacity] = (h + k) % Serials
    <3>1. CASE k < l
      <4>1. k \in 0 .. l - 1
        BY <3>1
      <4> QED
        BY <1>l, <4>1, Zenon DEF RingOf, RingHolds, Published
    <3>2. CASE k >= l
      <4>1. PICK j \in Nat : k = l + j /\ j \in 0 .. F - 1
        <5>1. k - l \in Nat /\ k = l + (k - l) /\ k - l \in 0 .. F - 1
          BY <3>2
        <5> QED
          BY <5>1
      <4>2. r.cells[(w + j) % Capacity] = (n + j) % Serials
        BY <1>F, <1>l, <4>1, Zenon DEF RingOf, Written
      <4>b. i + l + j < 2 * Capacity /\ h + l + j < 2 * Serials
        BY <1>b, <1>s, <4>1
      <4>3. (((i + l) % Capacity) + j) % Capacity = (i + (l + j)) % Capacity
        BY <1>s, <4>b, TurnOn
      <4>4. (((h + l) % Serials) + j) % Serials = (h + (l + j)) % Serials
        BY <1>s, <4>b, TurnOn
      <4> QED
        BY <1>3, <1>l, <4>1, <4>2, <4>3, <4>4, Zenon DEF Published
    <3>3. k < l \/ k >= l
      OBVIOUS
    <3> QED
      BY <3>1, <3>2, <3>3
  <2>2. ~q.overflow
    <3>1. ~(F < F)
      OBVIOUS
    <3> QED
      BY <1>F, <1>f, <1>3, <3>1, Zenon DEF Published
  <2> QED
    BY <1>l, <1>2, <1>4, <2>1, <2>2, Zenon DEF RingHolds, SameReader
<1>6. ProcessHolds(q) /\ Unseen(q) <= Unseen(r) + F /\ Unseen(r) \in Nat /\ Unseen(q) \in Nat
  <2>1. Level(q) >= Level(r) /\ Level(q) - Level(r) = F
    BY <1>l, <1>2
  <2> QED
    BY <2>1, ProcessKept DEF RingOf
<1>7. Demand(K, q, D - 1)
  <2>1. D + May(r) <= K /\ l + F * D <= Most(K) /\ Unseen(r) + F * D <= F * K
    BY <1>F, <1>l DEF RingOf, Demand
  <2>2. F * (D - 1) = F * D - F /\ F * D \in Nat /\ F * K \in Nat
    BY Products
  <2>3. (D - 1) + May(q) <= K
    BY <2>1, MayIs
  <2>4. PICK x \in Nat, y \in Nat, u \in Nat, v \in Nat :
          x = F * D /\ y = F * K /\ u = Unseen(r) /\ v = Unseen(q)
    BY <1>6, <2>2
  <2>5. Most(K) \in Int
    BY Sizes, Products DEF Most
  <2>6. Level(q) + F * (D - 1) <= Most(K)
    <3>1. (l + F) + (x - F) <= Most(K)
      BY <2>1, <2>4, <2>5
    <3> QED
      BY <1>2, <2>2, <2>4, <3>1
  <2>7. Unseen(q) + F * (D - 1) <= F * K
    <3>1. v + (x - F) <= y
      BY <1>6, <2>1, <2>4
    <3> QED
      BY <2>2, <2>4, <3>1
  <2> QED
    BY <1>F, <2>3, <2>6, <2>7, Zenon DEF Demand
<1>8. Level(q) % 2 = 0
  <2>1. l % 2 = 0
    BY <1>l DEF RingOf
  <2>2. (l + F) % 2 = 0
    BY <1>F, <2>1
  <2> QED
    BY <1>2, <2>2
<1> QED
  BY <1>5, <1>6, <1>7, <1>8 DEF RingOf, SameReader, Idle

\* A frame that was asked for finds room for all its samples.
LEMMA FrameRing ==
  ASSUME NEW K \in Nat, RoomFor(K), NEW r \in Nodes, NEW m, NEW o, NEW D \in Nat, D >= 1,
         RingOf(K, r, m, D), o.at = "load", o.will = Least(FrameSamples, freeSamples(r))
  PROVE  RingOf(K, r, o, D)
<1>l. PICK l \in Nat : l = Level(r)
  BY WriteIndexIs
<1>1. l + FrameSamples < Capacity
  BY <1>l, FrameFits DEF RingOf
<1>2. freeSamples(r) = Capacity - l
  BY <1>l DEF freeSamples, Level
<1>3. o.will = FrameSamples
  BY <1>1, <1>2, Sizes DEF Least
<1> QED
  BY <1>3 DEF RingOf

\* The fields that a step of the worklet leaves alone.
SameWriter(r, q) ==
  q.cells = r.cells /\ q.wi = r.wi /\ q.made = r.made /\ q.overflow = r.overflow
SamePlace(r, q) == SameWriter(r, q) /\ q.ri = r.ri /\ q.heard = r.heard
SameRight(r, q) == q.lastWriteIndex = r.lastWriteIndex /\ q.canAskForSamples = r.canAskForSamples

LEMMA WrittenKept ==
  ASSUME NEW r, NEW q, SameWriter(r, q), Written(r)
  PROVE  Written(q)
BY DEF SameWriter, Written

LEMMA PlaceKept ==
  ASSUME NEW r, NEW q, SamePlace(r, q)
  PROVE  Level(q) = Level(r) /\ (RingHolds(r) => RingHolds(q))
<1>1. Level(q) = Level(r)
  BY DEF Level, availableSamples, SamePlace, SameWriter
<1> QED
  BY <1>1 DEF RingHolds, SamePlace, SameWriter

LEMMA RightKept ==
  ASSUME NEW r, NEW q, SameWriter(r, q), SameRight(r, q), r.pc # "new", q.pc # "new"
  PROVE  May(q) = May(r)
BY DEF May, MayAsk, SameWriter, SameRight

\* What is left to show of a step that reads and does not consume.
LEMMA ReadRing ==
  ASSUME NEW K \in Nat, NEW r \in Nodes, NEW q \in Nodes, NEW m, NEW D \in Nat,
         RingOf(K, r, m, D), SamePlace(r, q), May(q) <= May(r), May(q) \in Nat, May(r) \in Nat,
         ProcessHolds(q), Unseen(q) + FrameSamples * D <= FrameSamples * K, q.avail % 2 = 0
  PROVE  RingOf(K, q, m, D)
<1>1. Level(q) = Level(r) /\ RingHolds(q)
  BY PlaceKept DEF RingOf
<1>2. D + May(q) <= K
  BY DEF RingOf, Demand
<1>3. Level(q) + FrameSamples * D <= Most(K)
  BY <1>1 DEF RingOf, Demand
<1>4. Demand(K, q, D)
  BY <1>2, <1>3, Zenon DEF Demand
<1>5. m.at = "publish" => Written(q)
  BY WrittenKept DEF RingOf, SamePlace
<1> QED
  BY <1>1, <1>4, <1>5, Zenon DEF RingOf

Constructed(r, q) ==
  SamePlace(r, q) /\ r.pc = "new" /\ q.pc = "idle" /\ q.avail = r.avail

Looked(r, q) ==
  SamePlace(r, q) /\ SameRight(r, q) /\ r.pc = "idle" /\ q.pc = "play" /\ q.avail = availableSamples(r)

Played(r, q) ==
  LET played == Least(Wants, r.avail \div 2)
  IN  /\ SamePlace(r, q) /\ SameRight(r, q) /\ r.pc = "play" /\ q.pc = "consume" /\ q.avail = r.avail
      /\ q.have = r.avail \div 2 - played
      /\ q.got = [p \in 1 .. 2 * played |-> r.cells[(r.ri + p - 1) % Capacity]]

Consumed(r, q) ==
  /\ SameWriter(r, q) /\ SameRight(r, q) /\ r.pc = "consume" /\ q.pc = "ask"
  /\ q.avail = r.avail /\ q.have = r.have
  /\ q.ri = AfterConsume(r, Taken(r)) /\ q.heard = (r.heard + Len(r.got)) % Serials

Asked(r, q) ==
  /\ SamePlace(r, q) /\ r.pc = "ask" /\ q.pc = "idle" /\ q.lastWriteIndex = r.wi
  /\ q.canAskForSamples = MayAskLater(r) /\ q.avail = 0

LEMMA RequestsFit ==
  ASSUME NEW K \in Nat, NEW r, NEW D \in Nat, Demand(K, r, D)
  PROVE  FrameSamples * D <= FrameSamples * K /\ FrameSamples * D \in Nat
<1>1. D <= K
  BY MayIs DEF Demand
<1> QED
  BY <1>1, Products, Sizes

LEMMA ConstructRing ==
  ASSUME NEW K \in Nat, NEW r \in Nodes, NEW q \in Nodes, NEW m, NEW D \in Nat,
         RingOf(K, r, m, D), Constructed(r, q)
  PROVE  RingOf(K, q, m, D)
<1>1. SamePlace(r, q) /\ q.pc = "idle" /\ q.avail = r.avail /\ May(r) = 1
  BY MayIs DEF Constructed
<1>2. May(q) <= May(r) /\ May(q) \in Nat /\ May(r) \in Nat
  BY <1>1, MayIs
<1>3. ProcessHolds(q) /\ Unseen(q) = 0
  BY <1>1 DEF ProcessHolds, Unseen
<1>4. q.avail % 2 = 0
  BY <1>1 DEF RingOf
<1>5. Unseen(q) + FrameSamples * D <= FrameSamples * K
  BY <1>3, RequestsFit DEF RingOf
<1> QED
  BY <1>1, <1>2, <1>3, <1>4, <1>5, ReadRing

LEMMA LookRing ==
  ASSUME NEW K \in Nat, NEW r \in Nodes, NEW q \in Nodes, NEW m, NEW D \in Nat,
         RingOf(K, r, m, D), Looked(r, q)
  PROVE  RingOf(K, q, m, D)
<1>1. SamePlace(r, q) /\ q.pc = "play" /\ q.avail = Level(r) /\ May(q) = May(r)
  BY RightKept DEF Looked, SamePlace, Level
<1>2. May(q) <= May(r) /\ May(q) \in Nat /\ May(r) \in Nat
  BY <1>1, MayIs
<1>l. PICK l \in Nat : l = Level(r) /\ l = Level(q)
  BY <1>1, WriteIndexIs, PlaceKept
<1>3. ProcessHolds(q) /\ Unseen(q) = 0
  BY <1>1, <1>l DEF ProcessHolds, Unseen
<1>4. q.avail % 2 = 0
  BY <1>1 DEF RingOf
<1>5. Unseen(q) + FrameSamples * D <= FrameSamples * K
  BY <1>3, RequestsFit DEF RingOf
<1> QED
  BY <1>1, <1>2, <1>3, <1>4, <1>5, ReadRing

LEMMA PlayRing ==
  ASSUME NEW K \in Nat, NEW r \in Nodes, NEW q \in Nodes, NEW m, NEW D \in Nat,
         RingOf(K, r, m, D), Played(r, q)
  PROVE  RingOf(K, q, m, D)
<1>1. SamePlace(r, q) /\ q.pc = "consume" /\ r.pc = "play" /\ q.avail = r.avail /\ May(q) = May(r)
  BY RightKept DEF Played, SamePlace
<1>2. May(q) <= May(r) /\ May(q) \in Nat /\ May(r) \in Nat
  BY <1>1, MayIs
<1>l. PICK l \in Nat, a \in Nat : l = Level(r) /\ l = Level(q) /\ a = r.avail /\ a % 2 = 0 /\ a <= l
  BY <1>1, WriteIndexIs, PlaceKept, NodeNumbers DEF RingOf, ProcessHolds
<1>p. PICK p \in Nat, h \in Nat :
        p = Least(Wants, r.avail \div 2) /\ h = r.avail \div 2 - p /\ 2 * h + 2 * p = a
  BY <1>l, Plays DEF RingOf
<1>g. q.have = h /\ q.got = [k \in 1 .. 2 * p |-> r.cells[(r.ri + k - 1) % Capacity]]
  BY <1>p DEF Played
<1>3. ProcessHolds(q)
  <2>0. 2 * h <= a /\ 2 * p = a - 2 * h /\ 2 * p <= l
    <3>1. a <= l /\ 2 * h + 2 * p = a
      BY <1>l, <1>p
    <3> QED
      BY <3>1
  <2>1. DOMAIN q.got = 1 .. 2 * p /\ Len(q.got) = 2 * p
    <3>1. q.got \in Seq(Nat)
      BY NodeNumbers
    <3>2. DOMAIN q.got = 1 .. 2 * p
      BY <1>g
    <3>3. 2 * p \in Nat
      OBVIOUS
    <3> QED
      BY <3>1, <3>2, <3>3, LenProperties
  <2>2. ASSUME NEW k \in 1 .. 2 * p PROVE q.got[k] = (q.heard + k - 1) % Serials
    <3>n. PICK i \in Nat, h0 \in Nat : i = r.ri /\ h0 = r.heard /\ q.heard = h0
      BY <1>1, NodeNumbers DEF SamePlace
    <3>j. PICK j \in Nat : k = j + 1 /\ j <= l - 1
      <4>1. k - 1 \in Nat /\ k = (k - 1) + 1 /\ k - 1 <= l - 1
        BY <2>0
      <4> QED
        BY <4>1
    <3>1. j \in 0 .. l - 1
      BY <3>j
    <3>2. r.cells[(i + j) % Capacity] = (h0 + j) % Serials
      BY <3>n, <3>1, <1>l, Zenon DEF RingOf, RingHolds
    <3>3. i + k - 1 = i + j /\ h0 + k - 1 = h0 + j
      BY <3>j
    <3>4. q.got[k] = r.cells[(i + k - 1) % Capacity]
      BY <1>g, <3>n
    <3> QED
      BY <3>n, <3>2, <3>3, <3>4, Zenon
  <2>3. q.avail <= Level(q) /\ 2 * q.have <= q.avail /\ Len(q.got) = q.avail - 2 * q.have
    BY <1>1, <1>l, <1>g, <2>0, <2>1, Zenon
  <2> QED
    BY <1>1, <2>1, <2>2, <2>3, Zenon DEF ProcessHolds
<1>4. q.avail % 2 = 0
  BY <1>1 DEF RingOf
<1>5. Unseen(q) + FrameSamples * D <= FrameSamples * K
  <2>1. Unseen(q) = Unseen(r)
    BY <1>1, <1>l DEF Unseen
  <2> QED
    BY <2>1 DEF RingOf, Demand
<1> QED
  BY <1>1, <1>2, <1>3, <1>4, <1>5, ReadRing

LEMMA AskRing ==
  ASSUME NEW K \in Nat, NEW r \in Nodes, NEW q \in Nodes, NEW m, NEW D \in Nat, NEW E,
         RingOf(K, r, m, D), Asked(r, q), E = IF Asks(r) THEN D + 1 ELSE D
  PROVE  RingOf(K, q, m, E)
<1> PICK F \in Nat : F = FrameSamples
  BY Sizes
<1>1. SamePlace(r, q) /\ r.pc = "ask" /\ q.pc = "idle" /\ q.avail = 0
  BY DEF Asked
<1>l. PICK l \in Nat, h \in Nat : l = Level(r) /\ l = Level(q) /\ h = r.have
  BY <1>1, WriteIndexIs, PlaceKept, NodeNumbers
<1>m. May(q) = IF MayAskLater(r) THEN 1 ELSE 0
  <2>1. q.wi = q.lastWriteIndex /\ q.canAskForSamples = MayAskLater(r)
    BY DEF Asked, SamePlace, SameWriter
  <2> QED
    BY <1>1, <2>1 DEF May, MayAsk
<1>2. ProcessHolds(q) /\ Unseen(q) = 0
  BY <1>1 DEF ProcessHolds, Unseen
<1>3. RingHolds(q) /\ (m.at = "publish" => Written(q))
  BY <1>1, PlaceKept, WrittenKept DEF RingOf, SamePlace
<1>d. D + May(r) <= K /\ l + F * D <= Most(K) /\ Unseen(r) + F * D <= F * K
  BY <1>l DEF RingOf, Demand
<1>p. F * D \in Nat /\ F * K \in Nat /\ F * (D + 1) = F * D + F /\ F * (K + 1) = F * K + F
  BY Products
<1>4. Demand(K, q, E)
  <2>1. CASE Asks(r)
    <3>1. May(r) = 1 /\ ~MayAskLater(r) /\ h < Threshold
      BY <1>1, <1>l, <2>1 DEF May, Asks, MayAskLater
    <3>2. E = D + 1 /\ May(q) = 0 /\ D + 1 <= K
      BY <1>m, <1>d, <2>1, <3>1
    <3>3. Unseen(r) = l - 2 * h
      BY <1>1, <1>l DEF Unseen
    <3>4. F * (D + 1) <= F * K
      BY <3>2, Products
    <3>5. l + F * (D + 1) <= Most(K)
      <4>1. PICK x \in Nat, y \in Nat : x = F * D /\ y = F * K
        BY <1>p
      <4>2. (l - 2 * h) + x <= y /\ h <= Threshold - 1 /\ Threshold \in Nat
        BY <1>d, <3>1, <3>3, <4>1, Sizes
      <4>3. l + (x + F) <= 2 * (Threshold - 1) + (y + F)
        BY <4>2
      <4> QED
        BY <1>p, <4>1, <4>3, Zenon DEF Most
    <3>6. E + May(q) <= K
      BY <3>2
    <3>7. Unseen(q) + F * E <= F * K
      BY <1>2, <3>2, <3>4, <1>p
    <3>8. Level(q) + F * E <= Most(K)
      BY <1>l, <3>2, <3>5, Zenon
    <3> QED
      BY <3>6, <3>7, <3>8, Zenon DEF Demand
  <2>2. CASE ~Asks(r)
    <3>1. May(q) <= May(r) /\ May(r) \in Nat /\ May(q) \in Nat
      BY <1>1, <1>m, MayIs DEF May, MayAskLater
    <3>2. E = D /\ E + May(q) <= K
      BY <1>d, <2>2, <3>1
    <3>3. Unseen(q) + F * D <= F * K
      BY <1>2, RequestsFit, <1>p DEF RingOf
    <3>4. Level(q) + F * D <= Most(K)
      BY <1>l, <1>d
    <3> QED
      BY <3>2, <3>3, <3>4, Zenon DEF Demand
  <2> QED
    BY <2>1, <2>2
<1>5. Level(q) % 2 = 0 /\ q.avail % 2 = 0 /\ (m # Idle => m.will = FrameSamples)
  BY <1>1, <1>l DEF RingOf
<1> QED
  BY <1>2, <1>3, <1>4, <1>5, Zenon DEF RingOf

\* Giving back the room of what was played.
LEMMA ConsumeRing ==
  ASSUME NEW K \in Nat, NEW r \in Nodes, NEW q \in Nodes, NEW m, NEW D \in Nat,
         RingOf(K, r, m, D), Consumed(r, q)
  PROVE  RingOf(K, q, m, D)
<1>1. /\ SameWriter(r, q) /\ r.pc = "consume" /\ q.pc = "ask" /\ q.avail = r.avail /\ q.have = r.have
      /\ May(q) = May(r)
  BY RightKept DEF Consumed
<1>s. Capacity \in Nat /\ Capacity > 0 /\ Serials \in Nat /\ Serials = 2 * Capacity /\ Serials > 0
  BY Sizes
<1>l. PICK l \in Nat, w \in Nat, i \in Nat, n \in Nat :
        /\ l = Level(r) /\ w = r.wi /\ i = r.ri /\ n = r.heard
        /\ i < Capacity /\ w = (i + l) % Capacity /\ n < Serials /\ l < Capacity
  BY NodeNumbers, WriteIndexIs
<1>a. PICK a \in Nat, h \in Nat : a = r.avail /\ h = r.have
  BY NodeNumbers
<1>h. a <= l /\ 2 * h <= a /\ Len(r.got) = a - 2 * h
  BY <1>1, <1>l, <1>a DEF RingOf, ProcessHolds
<1>t. PICK t \in Nat, e \in Nat : t = a - 2 * h /\ l = t + e /\ e = (l - a) + 2 * h
  <2>1. a - 2 * h \in Nat /\ l - (a - 2 * h) \in Nat
    BY <1>h
  <2>2. l = (a - 2 * h) + (l - (a - 2 * h)) /\ l - (a - 2 * h) = (l - a) + 2 * h
    OBVIOUS
  <2> QED
    BY <2>1, <2>2
<1>b. i + t + e < 2 * Capacity /\ n + t + e < 2 * Serials /\ e < Capacity
  BY <1>l, <1>s, <1>t
<1>i. q.ri = (i + t) % Capacity /\ q.heard = (n + t) % Serials
  <2>1. Taken(r) = t
    BY <1>a, <1>t DEF Taken
  <2>2. Least(t, l) = t
    BY <1>t DEF Least
  <2>3. AfterConsume(r, t) = (i + t) % Capacity
    BY <1>l, <2>2, Zenon DEF AfterConsume, Level
  <2>4. Len(r.got) = t
    BY <1>h, <1>t
  <2> QED
    BY <1>l, <2>1, <2>3, <2>4, Zenon DEF Consumed
<1>2. Level(q) = e
  <2>1. (((i + t) % Capacity) + e) % Capacity = (i + (t + e)) % Capacity
    BY <1>s, <1>b, TurnOn
  <2>2. q.wi = (q.ri + e) % Capacity
    BY <1>1, <1>i, <1>l, <1>t, <2>1, Zenon DEF SameWriter
  <2>3. e \in Cells /\ q.ri \in Cells
    BY <1>s, <1>b, NodeNumbers DEF Cells
  <2> QED
    BY <2>2, <2>3, LevelOf, Zenon
<1>3. RingHolds(q)
  <2>1. q.made = (q.heard + e) % Serials
    <3>1. (((n + t) % Serials) + e) % Serials = (n + (t + e)) % Serials
      BY <1>s, <1>b, TurnOn
    <3> QED
      BY <1>1, <1>i, <1>l, <1>t, <3>1, Zenon DEF SameWriter, RingOf, RingHolds
  <2>2. ASSUME NEW k \in 0 .. e - 1
        PROVE  q.cells[(q.ri + k) % Capacity] = (q.heard + k) % Serials
    <3>1. /\ k \in Nat /\ i + t + k < 2 * Capacity /\ n + t + k < 2 * Serials
          /\ t + k \in 0 .. l - 1
      BY <1>b, <1>s, <1>t
    <3>2. r.cells[(i + (t + k)) % Capacity] = (n + (t + k)) % Serials
      BY <1>l, <3>1, Zenon DEF RingOf, RingHolds
    <3>3. (((i + t) % Capacity) + k) % Capacity = (i + (t + k)) % Capacity
      BY <1>s, <3>1, TurnOn
    <3>4. (((n + t) % Serials) + k) % Serials = (n + (t + k)) % Serials
      BY <1>s, <3>1, TurnOn
    <3> QED
      BY <1>1, <1>i, <3>2, <3>3, <3>4, Zenon DEF SameWriter
  <2>3. ~q.overflow
    BY <1>1, Zenon DEF SameWriter, RingOf, RingHolds
  <2> QED
    BY <1>2, <2>1, <2>2, <2>3, Zenon DEF RingHolds
<1>4. ProcessHolds(q)
  <2>1. 2 * h <= e
    BY <1>h, <1>t
  <2> QED
    BY <1>1, <1>2, <1>a, <2>1 DEF ProcessHolds
<1>5. Demand(K, q, D)
  <2>1. Unseen(q) = e - 2 * h /\ Unseen(r) = l - a
    BY <1>1, <1>2, <1>a, <1>l DEF Unseen
  <2>2. e - 2 * h = l - a
    BY <1>t
  <2>3. Unseen(q) = Unseen(r)
    BY <2>1, <2>2, Zenon
  <2>4. D + May(q) <= K /\ Unseen(q) + FrameSamples * D <= FrameSamples * K
    BY <1>1, <2>3, Zenon DEF RingOf, Demand
  <2>5. e + FrameSamples * D <= Most(K)
    <3>1. PICK x \in Nat : x = FrameSamples * D
      BY RequestsFit DEF RingOf
    <3>2. l + x <= Most(K) /\ Most(K) \in Int
      BY <1>l, <3>1, Products, Sizes DEF RingOf, Demand, Most
    <3>3. e + x <= Most(K)
      BY <1>t, <3>2
    <3> QED
      BY <3>1, <3>3, Zenon
  <2> QED
    BY <1>2, <2>4, <2>5, Zenon DEF Demand
<1>6. Level(q) % 2 = 0
  <2>1. l % 2 = 0 /\ a % 2 = 0
    BY <1>l, <1>a DEF RingOf
  <2>2. e % 2 = 0
    BY <1>t, <2>1
  <2> QED
    BY <1>2, <2>2
<1>7. q.avail % 2 = 0 /\ (m # Idle => m.will = FrameSamples) /\ (m.at = "publish" => Written(q))
  BY <1>1, WrittenKept DEF RingOf
<1> QED
  BY <1>3, <1>4, <1>5, <1>6, <1>7, Zenon DEF RingOf

\* The stage in which the node of the last click plays.
LEMMA PlayingIs ==
  ASSUME TypeInv, ClickInv
  PROVE  /\ Playing => callback \in Clicks /\ callback # 0 /\ callback = clicks /\ ~muted /\ intervals = {}
         /\ ~muted /\ callback = clicks /\ callback # 0 => Playing
<1>1. Playing => callback \in Clicks /\ callback # 0 /\ callback = clicks /\ ~muted /\ intervals = {}
  BY AskingIs DEF Playing, Unmuted
<1>2. ASSUME ~muted, callback = clicks, callback # 0 PROVE Playing
  <2>1. ~Silent /\ ~Muting
    BY <1>2 DEF Silent, Muting, Muted
  <2>2. ~Loading /\ ~Returning
    BY <1>2 DEF Loading, Returning
  <2>3. ~Turning
    BY <1>2, ClickFacts DEF Turning
  <2> QED
    BY <2>1, <2>2, <2>3 DEF ClickInv, Stages
<1> QED
  BY <1>1, <1>2

\* The steps of the main thread on the ring of the node that plays.
LEMMA WriteService ==
  ASSUME NEW K \in Nat, RoomFor(K), TypeInv, NodesTyped', ClickInv, Playing,
         RingOf(K, nodes[callback], main, Requests), WriteSamples \/ PublishSamples
  PROVE  RingOf(K, nodes'[callback], main', Requests')
<1>1. main # Idle
  BY DEF WriteSamples, PublishSamples, Idle
<1>2. main.node = callback /\ callback \in Clicks /\ main \in Loads /\ main.will \in Nat
  BY <1>1, ClickFacts, TypeParts, Sizes DEF ClickInv, MainWrites, TypeInv, Counts, Loads
<1>n. nodes \in [Clicks -> Nodes]
  BY ClickFacts
<1>q. nodes'[callback] \in Nodes
  BY <1>2 DEF NodesTyped
<1> PICK r \in Nodes : r = nodes[callback]
  BY <1>n, <1>2
<1> PICK q \in Nodes : q = nodes'[callback]
  BY <1>q
<1>D. PICK D \in Nat : D = Requests
  BY RequestTypes
<1>3. CASE WriteSamples
  <2>1. Requests' = Requests /\ D >= 1
    BY <1>3, <1>D, MainRequests
  <2>2. main'.at = "publish" /\ main'.will = main.will
    BY <1>2, <1>3 DEF WriteSamples, Loads
  <2>3. PICK f : /\ f = [c \in 0 .. Capacity - 1 |->
                           IF ((c + Capacity - r.wi) % Capacity) < main.will
                           THEN (r.made + ((c + Capacity - r.wi) % Capacity)) % Serials
                           ELSE r.cells[c]]
                 /\ q = [r EXCEPT !.cells = f]
    BY <1>2, <1>3, <1>n DEF WriteSamples
  <2>4. SameReader(r, q) /\ q.wi = r.wi /\ q.made = r.made /\ q.overflow = r.overflow /\ q.cells = f
        /\ q.lastWriteIndex = r.lastWriteIndex /\ q.canAskForSamples = r.canAskForSamples
    BY <2>3 DEF SameReader, Nodes
  <2>5. May(q) = May(r)
    BY <2>4 DEF SameReader, May, MayAsk
  <2>6. Wrote(r, q, main.will)
    BY <2>3, <2>4, <2>5 DEF Wrote, Cells
  <2>7. RingOf(K, r, main, D)
    BY <1>D, Zenon
  <2>8. RingOf(K, q, main', D)
    BY <1>1, <2>1, <2>2, <2>4, <2>6, <2>7, WriteRing
  <2> QED
    BY <1>D, <2>1, <2>8, Zenon
<1>4. CASE PublishSamples
  <2>1. Requests' = D - 1 /\ D >= 1 /\ main' = Idle /\ main.at = "publish"
    BY <1>4, <1>D, MainRequests DEF PublishSamples
  <2>2. PICK w, k, o : /\ w = (r.wi + main.will) % Capacity /\ k = (r.made + main.will) % Serials
                       /\ o = (r.overflow \/ main.will < FrameSamples)
                       /\ q = [r EXCEPT !.wi = w, !.made = k, !.overflow = o]
    BY <1>2, <1>4, <1>n DEF PublishSamples
  <2>3. SameReader(r, q) /\ q.cells = r.cells /\ q.wi = w /\ q.made = k /\ q.overflow = o
    BY <2>2 DEF SameReader, Nodes
  <2>4. Published(r, q, main.will)
    BY <2>2, <2>3, Zenon DEF Published
  <2>5. RingOf(K, r, main, D)
    BY <1>D, Zenon
  <2>6. RingOf(K, q, Idle, D - 1)
    BY <1>1, <2>1, <2>3, <2>4, <2>5, PublishRing
  <2> QED
    BY <2>1, <2>6, Zenon
<1> QED
  BY <1>3, <1>4

\* The steps of the worklet on it.
LEMMA WorkletService ==
  ASSUME NEW K \in Nat, TypeInv, NodesTyped', NEW n \in Clicks, Worklet(n),
         RingOf(K, nodes[n], main, Requests)
  PROVE  RingOf(K, nodes'[n], main', Requests')
<1>n. nodes \in [Clicks -> Nodes] /\ nodes'[n] \in Nodes /\ main' = main
  BY ClickFacts, WorkletMoves DEF NodesTyped
<1> PICK r \in Nodes : r = nodes[n]
  BY <1>n
<1> PICK q \in Nodes : q = nodes'[n]
  BY <1>n
<1>D. PICK D \in Nat : D = Requests
  BY RequestTypes
<1>r. RingOf(K, r, main, D)
  BY <1>D, Zenon
<1>k. ~AskForSamples(n) => Requests' = D
  BY <1>D, WorkletRequests
<1>1. CASE Construct(n)
  <2>1. r.pc = "new" /\ q = [r EXCEPT !.pc = "idle", !.lastWriteIndex = r.wi, !.canAskForSamples = TRUE]
    BY <1>1, <1>n DEF Construct
  <2>2. Constructed(r, q)
    BY <2>1 DEF Constructed, SamePlace, SameWriter, Nodes
  <2>3. Requests' = D
    BY <1>1, <1>D DEF Construct, Requests
  <2>4. RingOf(K, q, main, D)
    BY <1>r, <2>2, ConstructRing
  <2> QED
    BY <1>n, <2>3, <2>4, Zenon
<1>2. CASE LookForSamples(n)
  <2>1. PICK a : a = availableSamples(r) /\ r.pc = "idle" /\ q = [r EXCEPT !.pc = "play", !.avail = a]
    BY <1>2, <1>n DEF LookForSamples
  <2>2. Looked(r, q)
    BY <2>1 DEF Looked, SamePlace, SameWriter, SameRight, Nodes
  <2>3. Requests' = D
    BY <1>2, <1>D DEF LookForSamples, Requests
  <2>4. RingOf(K, q, main, D)
    BY <1>r, <2>2, LookRing
  <2> QED
    BY <1>n, <2>3, <2>4, Zenon
<1>3. CASE PlaySamples(n)
  <2>1. PICK p, h, g : /\ p = Least(Wants, nodes[n].avail \div 2) /\ h = nodes[n].avail \div 2 - p
                       /\ g = [k \in 1 .. 2 * p |-> nodes[n].cells[(nodes[n].ri + k - 1) % Capacity]]
    OBVIOUS
  <2>2. nodes[n].pc = "play" /\ nodes' = [nodes EXCEPT ![n].pc = "consume", ![n].have = h, ![n].got = g]
    BY <1>3, <2>1, Zenon DEF PlaySamples
  <2>6. r.pc = "play" /\ q = [r EXCEPT !.pc = "consume", !.have = h, !.got = g]
    BY <1>n, <2>2
  <2>7. /\ SamePlace(r, q) /\ SameRight(r, q) /\ r.pc = "play" /\ q.pc = "consume" /\ q.avail = r.avail
        /\ q.have = h /\ q.got = g
    BY <2>6 DEF SamePlace, SameWriter, SameRight, Nodes
  <2>8. Played(nodes[n], q)
    BY <2>1, <2>7, Zenon DEF Played
  <2>5. Played(r, q)
    BY <2>8, Zenon
  <2>3. Requests' = D
    BY <1>3, <1>D DEF PlaySamples, Requests
  <2>4. RingOf(K, q, main, D)
    BY <1>r, <2>5, PlayRing
  <2> QED
    BY <1>n, <2>3, <2>4, Zenon
<1>4. CASE ConsumeSamples(n)
  <2>1. PICK i, h : /\ i = AfterConsume(r, Taken(r)) /\ h = (r.heard + Len(r.got)) % Serials
                    /\ r.pc = "consume" /\ q = [r EXCEPT !.pc = "ask", !.ri = i, !.heard = h]
    BY <1>4, <1>n DEF ConsumeSamples
  <2>2. /\ SameWriter(r, q) /\ SameRight(r, q) /\ r.pc = "consume" /\ q.pc = "ask"
        /\ q.avail = r.avail /\ q.have = r.have /\ q.ri = i /\ q.heard = h
    BY <2>1 DEF SameWriter, SameRight, Nodes
  <2>5. Consumed(r, q)
    BY <2>1, <2>2, Zenon DEF Consumed
  <2>3. Requests' = D
    BY <1>4, <1>D DEF ConsumeSamples, Requests
  <2>4. RingOf(K, q, main, D)
    BY <1>r, <2>5, ConsumeRing
  <2> QED
    BY <1>n, <2>3, <2>4, Zenon
<1>5. CASE AskForSamples(n)
  <2>1. PICK w, c : /\ w = r.wi /\ c = MayAskLater(r) /\ r.pc = "ask"
                    /\ q = [r EXCEPT !.pc = "idle", !.lastWriteIndex = w, !.canAskForSamples = c,
                                     !.avail = 0, !.have = 0, !.got = <<>>]
    BY <1>5, <1>n DEF AskForSamples
  <2>2. /\ SamePlace(r, q) /\ r.pc = "ask" /\ q.pc = "idle" /\ q.lastWriteIndex = w
        /\ q.canAskForSamples = c /\ q.avail = 0
    BY <2>1 DEF SamePlace, SameWriter, Nodes
  <2>5. Asked(r, q)
    BY <2>1, <2>2, Zenon DEF Asked
  <2>3. Requests' = IF Asks(r) THEN D + 1 ELSE D
    <3>1. messages' = (IF Asks(r) THEN messages + 1 ELSE messages) /\ rafs' = rafs /\ main' = main
      BY <1>5 DEF AskForSamples
    <3>2. messages \in Nat /\ rafs \in Nat
      BY RequestTypes
    <3>3. CASE Asks(r)
      BY <1>D, <3>1, <3>2, <3>3 DEF Requests
    <3>4. CASE ~Asks(r)
      BY <1>D, <3>1, <3>2, <3>4 DEF Requests
    <3> QED
      BY <3>3, <3>4
  <2>4. RingOf(K, q, main, Requests')
    BY <1>r, <2>5, <2>3, AskRing
  <2> QED
    BY <1>n, <2>4, Zenon
<1> QED
  BY <1>1, <1>2, <1>3, <1>4, <1>5 DEF Worklet

LEMMA FrameService ==
  ASSUME NEW K \in Nat, RoomFor(K), TypeInv, TypeInv', ClickInv, ClickInv', ServiceInv(K),
         \/ WriteSamples \/ PublishSamples \/ MessageArrives \/ IntervalFires \/ AnimationFrame
         \/ (\E n \in Clicks : Worklet(n)) \/ UNCHANGED vars
  PROVE  ServiceInv(K)'
<1>0. callback' = callback /\ (Playing' => Playing) /\ intervals' = intervals
  <2>1. UNCHANGED Frame
    BY FrameSteps
  <2> QED
    BY <2>1, FrameStages DEF Frame, ClickInv
<1> SUFFICES ASSUME Playing PROVE RingOf(K, nodes'[callback], main', Requests')
  BY <1>0, Zenon DEF ServiceInv
<1>r. RingOf(K, nodes[callback], main, Requests)
  BY Zenon DEF ServiceInv
<1>c. callback \in Clicks /\ callback # 0 /\ intervals = {}
  BY PlayingIs
<1>t. NodesTyped' /\ nodes \in [Clicks -> Nodes] /\ nodes[callback] \in Nodes
  BY <1>c, ClickFacts DEF TypeInv
<1>1. CASE WriteSamples \/ PublishSamples
  BY <1>1, <1>r, <1>t, WriteService
<1>2. CASE MessageArrives
  <2>1. nodes' = nodes /\ main' = main /\ Requests' = Requests
    BY <1>2, MainRequests DEF MessageArrives
  <2> QED
    BY <1>r, <2>1, Zenon
<1>3. CASE IntervalFires
  BY <1>3, <1>c DEF IntervalFires
<1>4. CASE AnimationFrame
  <2>1. nodes' = nodes /\ Requests' = Requests /\ Requests >= 1
    BY <1>4, <1>c, MainRequests DEF AnimationFrame
  <2>2. main'.at = "load" /\ main'.will = Least(FrameSamples, freeSamples(nodes[callback]))
    BY <1>4, <1>c DEF AnimationFrame, RunFrame
  <2>D. PICK D \in Nat : D = Requests
    BY RequestTypes
  <2>3. RingOf(K, nodes[callback], main', D)
    <3>1. PICK r \in Nodes : r = nodes[callback]
      BY <1>t
    <3>2. RingOf(K, r, main, D) /\ main'.will = Least(FrameSamples, freeSamples(r)) /\ D >= 1
      BY <1>r, <2>1, <2>2, <2>D, <3>1, Zenon
    <3>3. RingOf(K, r, main', D)
      BY <2>2, <3>2, FrameRing
    <3> QED
      BY <3>1, <3>3, Zenon
  <2> QED
    BY <2>1, <2>3, <2>D, Zenon
<1>5. ASSUME NEW n \in Clicks, Worklet(n) PROVE RingOf(K, nodes'[callback], main', Requests')
  <2>1. n = callback
    BY <1>5, WorkletMoves DEF ClickInv, OnlyCallback
  <2> QED
    BY <1>5, <1>r, <1>t, <2>1, WorkletService
<1>6. CASE UNCHANGED vars
  <2>1. nodes' = nodes /\ main' = main /\ Requests' = Requests
    BY <1>6 DEF vars, Requests
  <2> QED
    BY <1>r, <2>1, Zenon
<1> QED
  BY <1>1, <1>2, <1>3, <1>4, <1>5, <1>6

\* A click, or the handler of one: only the end of an unmute puts a node into service.
LEMMA ButtonService ==
  ASSUME NEW K \in Nat, RoomFor(K), TypeInv, TypeInv', ClickInv, ClickInv', ServiceInv(K), FewRequests(K)',
         Click \/ \E n \in Clicks : MuteEnds(n) \/ UnmuteGoesOn(n) \/ UnmuteEnds(n) \/ Browser(n)
  PROVE  ServiceInv(K)'
<1> SUFFICES ASSUME Playing' PROVE RingOf(K, nodes'[callback'], main', Requests')
  BY Zenon DEF ServiceInv
<1>1. callback' \in Clicks /\ callback' # 0 /\ callback' = clicks' /\ ~muted' /\ \A n \in Clicks : handlers'[n] = Done
  <2>1. \A n \in Clicks : handlers'[n] = Done
    BY DEF Playing, AtWork
  <2>2. callback' \in Clicks /\ callback' # 0 /\ callback' = clicks' /\ ~muted'
    <3>1. ~muted' /\ callback' = clicks' /\ clicks' % 2 = 1
      BY DEF Playing, Unmuted
    <3>2. clicks' \in 0 .. MaxClicks
      BY DEF TypeInv, TypeOK
    <3>3. clicks' # 0
      BY <3>1
    <3> QED
      BY <3>1, <3>2, <3>3, Sizes DEF Clicks
  <2> QED
    BY <2>1, <2>2
<1>2. ~Click
  <2> SUFFICES ASSUME Click PROVE FALSE
    OBVIOUS
  <2>1. muted /\ clicks + 1 \in Clicks /\ handlers \in [Clicks -> Handlers] /\ audioContext \in 0 .. MaxClicks
    BY <1>1, ClickFacts DEF Click
  <2>2. Unmute(clicks + 1)
    BY <2>1 DEF Click
  <2>3. handlers'[clicks + 1].at \in {"suspend", "module"}
    BY <2>1, <2>2 DEF Unmute, AwaitSuspend, NewContext
  <2> QED
    BY <1>1, <2>1, <2>3 DEF Done
<1>3. ASSUME NEW n \in Clicks, MuteEnds(n) \/ UnmuteGoesOn(n) \/ UnmuteEnds(n) \/ Browser(n)
      PROVE  RingOf(K, nodes'[callback'], main', Requests')
  <2>h. handlers \in [Clicks -> Handlers]
    BY ClickFacts
  <2>1. ~MuteEnds(n)
    BY <1>1 DEF MuteEnds
  <2>2. ~UnmuteGoesOn(n)
    BY <1>1, <2>h DEF UnmuteGoesOn, NewContext, Done
  <2>3. ~ModuleLoads(n)
    BY <1>1, <2>h DEF ModuleLoads, Handlers, Done
  <2>4. CASE UnmuteEnds(n)
    <3>1. /\ nodes' = [nodes EXCEPT ![n] = [NoNode EXCEPT !.ctx = n, !.pc = "new"]] /\ callback' = n
          /\ main' = Idle
      BY <2>4, UnmuteEndsStage DEF UnmuteEnds
    <3>2. PICK q \in Nodes : q = nodes'[n]
      BY DEF TypeInv, NodesTyped
    <3>3. /\ q.pc = "new" /\ ~q.overflow /\ q.made = 0 /\ q.heard = 0 /\ q.wi = 0 /\ q.ri = 0 /\ q.avail = 0
      <4>1. q = [NoNode EXCEPT !.ctx = n, !.pc = "new"]
        BY <3>1, <3>2, ClickFacts
      <4> QED
        BY <4>1 DEF NoNode
    <3>4. PICK D \in Nat : D = Requests'
      BY <2>4, RequestTypes DEF UnmuteEnds, Requests
    <3>5. D + 1 <= K
      <4>1. D < K
        BY <3>2, <3>3, <3>4, Zenon DEF FewRequests
      <4> QED
        BY <4>1
    <3>6. Level(q) = 0
      BY <3>3, Sizes DEF Level, availableSamples
    <3>7. RingHolds(q) /\ ProcessHolds(q) /\ Unseen(q) = 0 /\ May(q) = 1
      <4>1. (0 + 0) % Serials = 0
        BY Sizes, FirstTurn
      <4>2. q.made = (q.heard + Level(q)) % Serials
        BY <3>3, <3>6, <4>1
      <4>3. \A k \in 0 .. Level(q) - 1 : q.cells[(q.ri + k) % Capacity] = (q.heard + k) % Serials
        BY <3>6
      <4> QED
        BY <3>3, <4>2, <4>3, MayIs DEF RingHolds, ProcessHolds, Unseen
    <3>8. Demand(K, q, D)
      <4>1. FrameSamples * D <= FrameSamples * K /\ FrameSamples * D \in Nat /\ FrameSamples * K \in Nat
            /\ FrameSamples * (K + 1) = FrameSamples * K + FrameSamples
        BY <3>5, Products, Sizes
      <4>2. Most(K) >= FrameSamples * D
        BY <4>1, Sizes DEF Most
      <4> QED
        BY <3>5, <3>6, <3>7, <4>1, <4>2, Sizes DEF Demand
    <3>9. RingOf(K, q, Idle, D)
      BY <3>3, <3>6, <3>7, <3>8 DEF RingOf, Idle
    <3> QED
      BY <3>1, <3>2, <3>4, <3>9, Zenon
  <2>5. CASE Control(n)
    <3>1. nodes' = nodes /\ main' = main /\ callback' = callback /\ clicks' = clicks /\ muted' = muted
          /\ Requests' = Requests
      BY <2>5 DEF Control, button, Requests
    <3>2. Playing
      BY <1>1, <3>1, PlayingIs
    <3> QED
      BY <3>1, <3>2, Zenon DEF ServiceInv
  <2> QED
    BY <1>3, <2>1, <2>2, <2>3, <2>4, <2>5 DEF Browser
<1> QED
  BY <1>2, <1>3

LEMMA InitService ==
  ASSUME NEW K
  PROVE  Init => ServiceInv(K)
BY DEF Init, Playing, Unmuted, ServiceInv

LEMMA ServiceStep ==
  ASSUME NEW K \in Nat, RoomFor(K), TypeInv, TypeInv', ClickInv, ClickInv', ServiceInv(K), FewRequests(K)',
         [Next]_vars
  PROVE  ServiceInv(K)'
BY FrameService, ButtonService DEF Next, MainThread

\* While a node is in service it is the one that plays, and the invariant holds of its ring.
LEMMA RingInOrderHolds ==
  ASSUME NEW K \in Nat, TypeInv, ClickInv, ServiceInv(K)
  PROVE  RingInOrder
<1> SUFFICES ASSUME NEW n \in Clicks, InService(n)
             PROVE  LET r == nodes[n]
                        level == availableSamples(r)
                    IN /\ ~r.overflow /\ r.made = (r.heard + level) % Serials
                       /\ \A k \in 0 .. level - 1 :
                            r.cells[(r.ri + k) % Capacity] = (r.heard + k) % Serials
                       /\ r.pc = "consume" =>
                            \A k \in DOMAIN r.got : r.got[k] = (r.heard + k - 1) % Serials
  BY Zenon DEF RingInOrder
<1>1. RingOf(K, nodes[n], main, Requests)
  BY InServiceOnly DEF ServiceInv
<1> QED
  BY <1>1, Zenon DEF RingOf, RingHolds, ProcessHolds, Level

\* What is heard is what the emulator made: as long as fewer than K frames are asked
\* for when a worklet starts, and the ring has room for K frames and one more
\* (twice what is left when the worklet asks, besides), no sample that is between the
\* indices is overwritten, none is dropped for lack of room, and those that process()
\* reads are the next ones, wherever the steps of the two threads come between each
\* other (shared-fifo.ts, audio-worklet.ts).
THEOREM RingStaysInOrder ==
  ASSUME NEW K \in Nat, RoomFor(K)
  PROVE  Spec /\ []FewRequests(K) => []RingInOrder
<1> DEFINE Inv == TypeInv /\ (overtaken \/ (ClickInv /\ ServiceInv(K)))
<1>1. Init => Inv
  BY InitTypes, InitClickInv, InitService
<1>2. Inv /\ FewRequests(K)' /\ [Next]_vars => Inv'
  <2> SUFFICES ASSUME Inv, FewRequests(K)', [Next]_vars PROVE Inv'
    OBVIOUS
  <2>1. TypeInv'
    BY TypesStep
  <2>2. CASE ~overtaken'
    <3>1. ClickInv /\ ServiceInv(K)
      BY <2>2, StaysOvertaken
    <3>2. ClickInv'
      BY <2>2, <3>1, ClickInvStep
    <3> QED
      BY <2>1, <3>1, <3>2, ServiceStep
  <2> QED
    BY <2>1, <2>2
<1>3. Inv => RingInOrder
  BY RingInOrderHolds DEF RingInOrder
<1> QED
  BY <1>1, <1>2, <1>3, PTL DEF Spec

\* The same of a page that is clicked no more than MaxClicks times, without a
\* hypothesis on the frames asked for: each unmute leaves one more at the most.
THEOREM RingInOrderForFewClicks ==
  ASSUME RoomFor(MostRequests)
  PROVE  Spec => []RingInOrder
<1> DEFINE Good == ClickInv /\ RequestsBounded /\ ServiceInv(MostRequests)
           Inv == TypeInv /\ (overtaken \/ Good)
<1>k. MostRequests \in Nat
  BY Sizes, UnmutesGrow DEF MostRequests
<1>1. Init => Inv
  BY InitTypes, InitClickInv, InitRequests, InitService
<1>2. Inv /\ [Next]_vars => Inv'
  <2> SUFFICES ASSUME Inv, [Next]_vars PROVE Inv'
    OBVIOUS
  <2>t. TypeInv'
    BY TypesStep
  <2>1. CASE ~overtaken'
    <3>1. Good
      BY <2>1, StaysOvertaken
    <3>2. ClickInv' /\ RequestsBounded'
      BY <2>1, <3>1, ClickInvStep, RequestsStep
    <3>3. FewRequests(MostRequests)'
      <4>1. (TypeInv /\ ClickInv /\ RequestsBounded => FewRequests(MostRequests))'
        BY FewAreAsked, PTL
      <4> QED
        BY <2>t, <3>2, <4>1
    <3> QED
      BY <1>k, <2>t, <3>1, <3>2, <3>3, ServiceStep
  <2> QED
    BY <2>t, <2>1
<1>3. Inv => RingInOrder
  BY <1>k, RingInOrderHolds DEF RingInOrder
<1> QED
  BY <1>1, <1>2, <1>3, PTL DEF Spec
=============================================================================
