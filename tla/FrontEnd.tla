------------------------------ MODULE FrontEnd ------------------------------
(***************************************************************************)
(* The web page: src/nr32-web/src/main.ts (the mute button), audio-worklet *)
(* .ts, shared-fifo.ts, and runFrame of emulator.ts.                       *)
(*                                                                         *)
(* Two kinds of thread share a ring of samples: the page's main thread,    *)
(* which runs frames and writes the samples they made, and the audio       *)
(* thread of each AudioContext, which plays them and asks for more.  A     *)
(* frame is run by an interval while the page is muted and on demand of    *)
(* the worklet while it is not.  The click handler is asynchronous: it is  *)
(* cut at its awaits, and frames, messages and other clicks come between.  *)
(***************************************************************************)
EXTENDS Naturals, Sequences, FiniteSets, Functions

CONSTANTS
  Capacity,      \* samples in the ring (two for each instant)
  FrameSamples,  \* samples that a frame makes
  Wants,         \* instants (pairs of samples) that process() is asked for
  Threshold,     \* instants left below which the worklet asks for a frame
  MaxClicks,     \* bound on the clicks on the mute button
  MaxOvertaken,  \* bound on the clicks once a mute has overtaken another click
  MaxLate        \* bound on the frames of an interval during one click

ASSUME RingAssumption ==
  /\ {Capacity, FrameSamples, Wants, Threshold} \subseteq Nat \ {0}
  /\ Capacity % 2 = 0 /\ FrameSamples % 2 = 0 /\ FrameSamples < Capacity
ASSUME ClickAssumption == {MaxClicks, MaxOvertaken, MaxLate} \subseteq Nat

VARIABLES
  muted,          \* the button's own flag
  frameInterval,  \* the interval in the variable of that name, 0: undefined
  intervals,      \* the intervals that are running
  audioContext,   \* the context in the variable of that name, 0: undefined
  contexts,       \* the audio contexts: [running, module, control]
  nodes,          \* worklet nodes with their rings and processors
  callback,       \* the node whose ring the samples go to, 0: nowhere
  handlers,       \* where the handler of each click is: [at, ctx]
  clicks,         \* clicks so far
  messages,       \* need_samples messages on their way
  rafs,           \* requested animation frames
  main,           \* loadI16Samples in progress: [node, at, will], or Idle
  frame,          \* parity of the frames that were run
  late,           \* frames that intervals ran since a click is handled
  overtaken       \* history: a mute was clicked while another click was handled

vars == <<muted, frameInterval, intervals, audioContext, contexts, nodes,
          callback, handlers, clicks, messages, rafs, main, frame, late, overtaken>>
button == <<muted, frameInterval, intervals, audioContext, callback, clicks,
            late, overtaken>>

\* The n-th click creates interval n + 1, or context n and its node n.
Clicks == 1 .. MaxClicks
\* Samples are numbered modulo twice the ring, so that those of one turn
\* differ from those of the next.
Serials == 2 * Capacity

Idle == [node |-> 0, at |-> "idle", will |-> 0]
Done == [at |-> "done", ctx |-> 0]
NoContext == [running |-> FALSE, module |-> FALSE, control |-> <<>>]
NoNode == [ctx |-> 0, pc |-> "none", cells |-> [c \in 0 .. Capacity - 1 |-> 0],
           wi |-> 0, ri |-> 0, made |-> 0, heard |-> 0, avail |-> 0,
           have |-> 0, got |-> <<>>, lastWriteIndex |-> 0,
           canAskForSamples |-> FALSE, overflow |-> FALSE]

Least(a, b) == IF a < b THEN a ELSE b

-----------------------------------------------------------------------------
(* The ring.                                                               *)

availableSamples(r) ==
  IF r.wi >= r.ri THEN r.wi - r.ri ELSE Capacity - (r.ri - r.wi)
freeSamples(r) == Capacity - availableSamples(r)
AfterConsume(r, n) == (r.ri + Least(n, availableSamples(r))) % Capacity

\* runFrame, and loadI16Samples up to its loop: the samples of the frame go
\* to the ring that the callback was made with.
RunFrame ==
  /\ main = Idle
  /\ frame' = 1 - frame
  /\ main' = IF callback = 0 THEN Idle
             ELSE [node |-> callback, at |-> "load",
                   will |-> Least(FrameSamples, freeSamples(nodes[callback]))]

\* The loop of loadI16Samples: the samples are written, not yet published.
WriteSamples ==
  LET r == nodes[main.node]
      Into(c) == (c + Capacity - r.wi) % Capacity
  IN /\ main.at = "load"
     /\ nodes' = [nodes EXCEPT ![main.node].cells =
                    [c \in 0 .. Capacity - 1 |->
                       IF Into(c) < main.will THEN (r.made + Into(c)) % Serials
                       ELSE r.cells[c]]]
     /\ main' = [main EXCEPT !.at = "publish"]
     /\ UNCHANGED <<button, contexts, handlers, messages, rafs, frame>>

\* setWriteIndex.  The samples that found no room are lost, with a warning.
PublishSamples ==
  /\ main.at = "publish"
  /\ nodes' = [nodes EXCEPT ![main.node].wi = (@ + main.will) % Capacity,
                            ![main.node].made = (@ + main.will) % Serials,
                            ![main.node].overflow = @ \/ main.will < FrameSamples]
  /\ main' = Idle
  /\ UNCHANGED <<button, contexts, handlers, messages, rafs, frame>>

-----------------------------------------------------------------------------
(* The worklet, on the audio thread of its context.                        *)

Running(n) == nodes[n].ctx # 0 /\ contexts[nodes[n].ctx].running

\* The processor is constructed after the node, on the other thread.
Construct(n) ==
  /\ nodes[n].pc = "new"
  /\ nodes' = [nodes EXCEPT ![n].pc = "idle", ![n].lastWriteIndex = nodes[n].wi,
                            ![n].canAskForSamples = TRUE]
  /\ UNCHANGED <<button, contexts, handlers, messages, rafs, main, frame>>

\* process() reads how much there is to play ...
LookForSamples(n) ==
  /\ nodes[n].pc = "idle" /\ Running(n)
  /\ nodes' = [nodes EXCEPT ![n].pc = "play",
                            ![n].avail = availableSamples(nodes[n])]
  /\ UNCHANGED <<button, contexts, handlers, messages, rafs, main, frame>>

\* ... plays it, silence when there is none ...
PlaySamples(n) ==
  LET r == nodes[n]
      played == Least(Wants, r.avail \div 2)
  IN /\ r.pc = "play"
     /\ nodes' = [nodes EXCEPT ![n].pc = "consume",
                    ![n].have = r.avail \div 2 - played,
                    ![n].got = [p \in 1 .. 2 * played |->
                                  r.cells[(r.ri + p - 1) % Capacity]]]
     /\ UNCHANGED <<button, contexts, handlers, messages, rafs, main, frame>>

\* ... gives its room back ...
\* Mutant: the room of what was wanted, for what had come by then.
TakenAsWanted(r) == 2 * Wants
Taken(r) == r.avail - r.have * 2
ConsumeSamples(n) ==
  LET r == nodes[n]
  IN /\ r.pc = "consume"
     /\ nodes' = [nodes EXCEPT ![n].pc = "ask",
                    ![n].ri = AfterConsume(r, Taken(r)),
                    ![n].heard = (@ + Len(r.got)) % Serials]
     /\ UNCHANGED <<button, contexts, handlers, messages, rafs, main, frame>>

\* ... and asks for more: once, until it has seen new samples come.
MayAsk(r) == r.canAskForSamples \/ r.wi # r.lastWriteIndex
Asks(r) == MayAsk(r) /\ r.have < Threshold
\* Mutant: it may only ask when the samples are seen.
ForgetsToAsk(r) == FALSE
MayAskLater(r) == MayAsk(r) /\ ~Asks(r)
AskForSamples(n) ==
  LET r == nodes[n]
  IN /\ r.pc = "ask"
     /\ nodes' = [nodes EXCEPT ![n].pc = "idle", ![n].lastWriteIndex = r.wi,
                    ![n].canAskForSamples = MayAskLater(r),
                    ![n].avail = 0, ![n].have = 0, ![n].got = <<>>]
     /\ messages' = IF Asks(r) THEN messages + 1 ELSE messages
     /\ UNCHANGED <<button, contexts, handlers, rafs, main, frame>>

Worklet(n) == \/ Construct(n) \/ LookForSamples(n) \/ PlaySamples(n)
              \/ ConsumeSamples(n) \/ AskForSamples(n)

-----------------------------------------------------------------------------
(* What runs a frame on the main thread, which does one thing at a time.   *)

Settled == \A n \in Clicks : handlers[n] = Done

\* Timing: requested frames are run before the next one of an interval, since
\* a page is drawn more often than an interval fires.  Bound: the handling of
\* a click lasts at most MaxLate frames of an interval.
IntervalFires ==
  /\ intervals # {} /\ messages = 0 /\ rafs = 0
  /\ Settled \/ late < MaxLate
  /\ late' = IF Settled THEN 0 ELSE late + 1
  /\ RunFrame
  /\ UNCHANGED <<muted, frameInterval, intervals, audioContext, callback, clicks,
                 contexts, nodes, handlers, messages, rafs, overtaken>>

\* onmessage: a frame is run when the page is next drawn.
MessageArrives ==
  /\ main = Idle /\ messages > 0
  /\ messages' = messages - 1 /\ rafs' = rafs + 1
  /\ UNCHANGED <<button, contexts, nodes, handlers, main, frame>>

AnimationFrame ==
  /\ rafs > 0 /\ rafs' = rafs - 1
  /\ RunFrame
  /\ UNCHANGED <<button, contexts, nodes, handlers, messages>>

-----------------------------------------------------------------------------
(* The mute button.                                                        *)

\* suspend() and resume() are messages to the audio thread.
Told(c, what) == [contexts EXCEPT ![c].control = Append(@, what)]

\* Click n continues with a new context, whose module it waits for.  The
\* click lets the context start at once.
NewContext(n) ==
  /\ audioContext' = n
  /\ contexts' = [contexts EXCEPT ![n] = [NoContext EXCEPT !.running = TRUE]]
  /\ handlers' = [handlers EXCEPT ![n] = [at |-> "module", ctx |-> n]]

AwaitSuspend(n) ==
  /\ contexts' = Told(audioContext, "suspend")
  /\ handlers' = [handlers EXCEPT ![n] = [at |-> "suspend", ctx |-> audioContext]]
  /\ UNCHANGED audioContext

Mute(n) ==
  /\ frameInterval' = n + 1 /\ intervals' = intervals \cup {n + 1}
  /\ IF audioContext # 0 THEN AwaitSuspend(n) /\ UNCHANGED callback
     ELSE callback' = 0 /\ UNCHANGED <<audioContext, contexts, handlers>>

\* Mutant: without clearInterval.
UnmuteKeepsInterval(n) ==
  /\ IF audioContext # 0 THEN AwaitSuspend(n) ELSE NewContext(n)
  /\ UNCHANGED <<frameInterval, intervals, callback>>

Unmute(n) ==
  /\ intervals' = intervals \ {frameInterval}
  /\ IF audioContext # 0 THEN AwaitSuspend(n) ELSE NewContext(n)
  /\ UNCHANGED <<frameInterval, callback>>

Click ==
  /\ main = Idle /\ clicks < MaxClicks /\ (overtaken => clicks < MaxOvertaken)
  /\ clicks' = clicks + 1
  /\ muted' = ~muted
  /\ IF muted THEN Unmute(clicks + 1) ELSE Mute(clicks + 1)
  /\ late' = 0 /\ overtaken' = (overtaken \/ (~muted /\ ~Settled))
  /\ UNCHANGED <<nodes, messages, rafs, main, frame>>

\* A context that is suspended and that nothing will resume is collected with
\* its nodes.
Collected(c) ==
  IF contexts[c].running \/ "resume" \in Range(contexts[c].control) THEN nodes
  ELSE [n \in Clicks |-> IF nodes[n].ctx = c THEN NoNode ELSE nodes[n]]

\* The promises of suspend() are kept in order, and their handlers go on so.
Suspended(n) ==
  /\ handlers[n].at = "suspended"
  /\ \A k \in Clicks : handlers[k].at = "suspended" => n <= k

\* The rest of a mute, once its context is suspended.
MuteEnds(n) ==
  /\ main = Idle /\ Suspended(n) /\ n % 2 = 0
  /\ audioContext' = 0 /\ callback' = 0
  /\ handlers' = [handlers EXCEPT ![n] = Done]
  /\ nodes' = Collected(handlers[n].ctx)
  /\ UNCHANGED <<muted, frameInterval, intervals, contexts, clicks, messages,
                 rafs, main, frame, late, overtaken>>

UnmuteGoesOn(n) ==
  /\ main = Idle /\ Suspended(n) /\ n % 2 = 1
  /\ NewContext(n)
  /\ UNCHANGED <<muted, frameInterval, intervals, nodes, callback, clicks,
                 messages, rafs, main, frame, late, overtaken>>

\* The rest of an unmute, once a module is loaded.  The node is made in the
\* context that the variable holds by now; without one, or in one that has
\* not loaded the module, its constructor throws and nothing more is done.
UnmuteEnds(n) ==
  /\ main = Idle /\ handlers[n].at = "loaded"
  /\ handlers' = [handlers EXCEPT ![n] = Done]
  /\ IF audioContext # 0 => ~contexts[audioContext].module
     THEN UNCHANGED <<nodes, callback, contexts, frameInterval>>
     ELSE /\ nodes' = [nodes EXCEPT ![n] = [NoNode EXCEPT !.ctx = audioContext,
                                                           !.pc = "new"]]
          /\ callback' = n
          /\ contexts' = Told(audioContext, "resume")
          /\ frameInterval' = 0
  /\ UNCHANGED <<muted, intervals, audioContext, clicks, messages, rafs, main,
                 frame, late, overtaken>>

\* The browser: a module is loaded, or an audio thread between two calls of
\* its processors takes its next message.  Suspensions end in order.
ModuleLoads(n) ==
  /\ handlers[n].at = "module"
  /\ handlers' = [handlers EXCEPT ![n].at = "loaded"]
  /\ contexts' = [contexts EXCEPT ![handlers[n].ctx].module = TRUE]
  /\ UNCHANGED <<button, nodes, messages, rafs, main, frame>>

Waiting(c) == {n \in Clicks : handlers[n] = [at |-> "suspend", ctx |-> c]}

Control(c) ==
  /\ contexts[c].control # <<>>
  /\ \A n \in Clicks : nodes[n].ctx = c => nodes[n].pc \in {"new", "idle"}
  /\ LET what == Head(contexts[c].control)
         first == CHOOSE n \in Waiting(c) : \A k \in Waiting(c) : n <= k
     IN /\ contexts' = [contexts EXCEPT ![c].running = (what = "resume"),
                                        ![c].control = Tail(@)]
        /\ handlers' = IF what = "suspend"
                       THEN [handlers EXCEPT ![first].at = "suspended"]
                       ELSE handlers
  /\ UNCHANGED <<button, nodes, messages, rafs, main, frame>>

-----------------------------------------------------------------------------
\* The page starts muted, with an interval.
Init ==
  /\ muted = TRUE /\ frameInterval = 1 /\ intervals = {1}
  /\ audioContext = 0 /\ callback = 0 /\ clicks = 0
  /\ contexts = [n \in Clicks |-> NoContext]
  /\ nodes = [n \in Clicks |-> NoNode]
  /\ handlers = [n \in Clicks |-> Done]
  /\ messages = 0 /\ rafs = 0 /\ main = Idle /\ frame = 0 /\ late = 0
  /\ overtaken = FALSE

MainThread ==
  \/ WriteSamples \/ PublishSamples
  \/ MessageArrives
  \/ \E n \in Clicks : MuteEnds(n) \/ UnmuteGoesOn(n) \/ UnmuteEnds(n)

Browser(n) == ModuleLoads(n) \/ Control(n)

Next ==
  \/ Click
  \/ MainThread \/ IntervalFires \/ AnimationFrame
  \/ \E n \in Clicks : Worklet(n) \/ Browser(n)

Spec == Init /\ [][Next]_vars

\* A running page: timers fire, the page is drawn, audio is played, modules
\* load and suspensions end.  Nothing is assumed of the user.
FairSpec ==
  /\ Spec
  /\ WF_vars(MainThread) /\ WF_vars(IntervalFires) /\ WF_vars(AnimationFrame)
  /\ \A n \in Clicks : WF_vars(Worklet(n)) /\ WF_vars(Browser(n))
-----------------------------------------------------------------------------
(* Properties.                                                             *)

TypeOK ==
  /\ muted \in BOOLEAN /\ frameInterval \in 0 .. MaxClicks + 1
  /\ intervals \subseteq 1 .. MaxClicks + 1
  /\ {audioContext, callback} \subseteq 0 .. MaxClicks /\ clicks \in 0 .. MaxClicks
  /\ contexts \in [Clicks -> [running : BOOLEAN, module : BOOLEAN,
                              control : Seq({"suspend", "resume"})]]
  /\ handlers \in [Clicks -> [at : {"done", "suspend", "suspended", "module",
                                    "loaded"}, ctx : 0 .. MaxClicks]]
  /\ {messages, rafs, late} \subseteq Nat /\ frame \in {0, 1}
  /\ overtaken \in BOOLEAN
  /\ main \in [node : 0 .. MaxClicks, at : {"idle", "load", "publish"},
                will : 0 .. FrameSamples]

\* A node that plays, and that nobody has asked to stop.
InService(n) ==
  /\ Running(n)
  /\ "suspend" \notin Range(contexts[nodes[n].ctx].control)

\* What is heard is what the emulator made: while a node is in service, what
\* lies between the indices of its ring are the samples that follow those it
\* has played, all of them and in order, and the pairs it has just read are
\* the next ones.  So no sample is overwritten, dropped for lack of room,
\* skipped or heard twice, whatever the audio thread and the main thread do
\* between each other's reads and writes of the indices (shared-fifo.ts:37
\* and 60, audio-worklet.ts:29-49).  Of a page that lost its interval, below,
\* nothing is said: two things make samples then.
RingInOrder ==
  \A n \in Clicks : ~overtaken /\ InService(n) =>
    LET r == nodes[n]
        level == availableSamples(r)
    IN /\ ~r.overflow /\ r.made = (r.heard + level) % Serials
       /\ \A k \in 0 .. level - 1 :
            r.cells[(r.ri + k) % Capacity] = (r.heard + k) % Serials
       /\ r.pc = "consume" =>
            \A k \in DOMAIN r.got : r.got[k] = (r.heard + k - 1) % Serials

\* "We have two ways of synchronizing the emulator" (main.ts:33): when no
\* click is being handled, a muted page has one interval and nothing else
\* that plays; otherwise one worklet, that of the callback, and no interval.
\* It takes a mute clicked while another click is handled to break this: the
\* end of an unmute then forgets the interval of the mute (main.ts:104), which
\* no click can clear.
OneSource ==
  Settled /\ ~overtaken =>
    LET playing == {n \in Clicks : InService(n)}
    IN IF muted THEN Cardinality(intervals) = 1 /\ playing = {}
       ELSE intervals = {} /\ playing = {callback}

\* Whatever was clicked, within the bounds on the clicks and also when a mute
\* has overtaken an unmute, frames go on being run: the worklet never waits
\* for samples that nobody was asked for (audio-worklet.ts:51-62).
FramesGoOn == []<>(frame = 0) /\ []<>(frame = 1)
=============================================================================
