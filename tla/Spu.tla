--------------------------------- MODULE Spu ---------------------------------
(* The voices of the sound processor (spu.rs): the decoder that fills a queue  *)
(* of samples, the step that empties it, and the envelope.  Volumes, the       *)
(* filter between samples and the mixing of the voices are left out.           *)
EXTENDS Integers, SequencesExt, FiniteSetsExt

CONSTANTS
  BlockSize,   \* words of a block of ADPCM, header included
  Ahead,       \* samples that the decoder keeps ready
  Queue        \* size of the queue of decoded samples

Max16 == 32767
Min16 == -32768
Bounded(x, low, high) == Max({low, Min({x, high})})
Wrapped16(x) == ((x - Min16) % 65536) + Min16

Blank == [end |-> FALSE, loop |-> FALSE, start |-> FALSE, filter |-> 0, shift |-> 0]

-----------------------------------------------------------------------------
(* The envelope.  A configuration has the shift and step of each phase. *)

Steps(shift, step) ==
  IF shift < 11 THEN [div |-> 32768, level |-> step * 2 ^ (11 - shift)]
  ELSE [div |-> Max({1, 32768 \div 2 ^ (shift - 11)}), level |-> step]

Linear(s) == [low |-> s, high |-> s, exponential |-> FALSE]
Exponential(s) == [low |-> s, high |-> s, exponential |-> TRUE]
\* smooth_mode: the steps it is given are 4 to 7, the branches for 10 and more are dead.
SmoothUp(s) == [low |-> s, high |-> [s EXCEPT !.level = @ \div 4], exponential |-> FALSE]

\* refresh_params
Params(config) ==
  LET attack == Steps(config.attackShift, 7 - config.attackStep)
      down == Steps(config.sustainShift, config.sustainStep - 8)
      up == Steps(config.sustainShift, 7 - config.sustainStep)
      release == Steps(config.releaseShift, -8)
  IN  [ Attack |-> IF config.attackExp THEN SmoothUp(attack) ELSE Linear(attack),
        Decay |-> Exponential(Steps(config.decayShift, -8)),
        Sustain |-> IF config.sustainExp
                    THEN IF config.sustainDown THEN Exponential(down) ELSE SmoothUp(up)
                    ELSE Linear(IF config.sustainDown THEN down ELSE up),
        Release |-> IF config.releaseExp THEN Exponential(release) ELSE Linear(release),
        sustainLevel |-> (config.sustainLevel + 1) * 2048 - 1 ]

\* AdsrConfig, by its fields
Configs ==
  [ attackShift : 0 .. 31, attackStep : 0 .. 3, attackExp : BOOLEAN, decayShift : 0 .. 15,
    sustainShift : 0 .. 31, sustainStep : 0 .. 3, sustainExp : BOOLEAN, sustainDown : BOOLEAN,
    sustainLevel : 0 .. 15, releaseShift : 0 .. 31, releaseExp : BOOLEAN ]

\* A configuration register that was never written.
NoConfig ==
  [ attackShift |-> 0, attackStep |-> 0, attackExp |-> FALSE, decayShift |-> 0,
    sustainShift |-> 0, sustainStep |-> 0, sustainExp |-> FALSE, sustainDown |-> FALSE,
    sustainLevel |-> 0, releaseShift |-> 0, releaseExp |-> FALSE ]

InHigh(p, level) == IF level >= 24576 THEN p.high ELSE p.low

\* Mutant: the product is rounded to zero, as / does.
LevelStepRounded(p, level) ==
  IF p.exponential THEN -((-p.low.level * level) \div 32768) ELSE InHigh(p, level).level

\* compute_level_step
LevelStep(p, level) ==
  IF p.exponential THEN (p.low.level * level) \div 32768 ELSE InHigh(p, level).level

\* The level overflows up or down.
NextLevel(p, level) ==
  LET step == LevelStep(p, level)
      sum == Wrapped16(level + step)
  IN  IF sum >= 0 THEN sum ELSE IF step > 0 THEN Max16 ELSE 0

\* A step of the level may end a phase.  Nothing ends an attack but a release.
EndPhase(v) ==
  [v EXCEPT !.state = CASE @ = "Decay" /\ v.level <= v.params.sustainLevel -> "Sustain"
                        [] @ = "Release" /\ v.level = 0 -> "Stopped"
                        [] OTHER -> @]

\* Adsr::run_cycle
RunEnvelope(v) ==
  LET p == v.params[v.state]
      divider == v.divider + InHigh(p, v.level).div
  IN  IF divider < 32768 THEN [v EXCEPT !.divider = divider]
      ELSE EndPhase([v EXCEPT !.divider = 0, !.level = NextLevel(p, @)])

-----------------------------------------------------------------------------
(* Voices.  line, a history variable, has the samples that were in the queue *)
(* when the voice was started, stale of them, and those decoded since; heard *)
(* of them have left the queue; played counts the cycles since the start.    *)

NewVoice ==
  [ state |-> "Stopped", level |-> 0, divider |-> 0, params |-> Params(NoConfig),
    step |-> 0, phase |-> 0, start |-> 0, cur |-> 0, loopIndex |-> 0, header |-> Blank,
    last |-> <<0, 0>>, queue |-> <<>>,
    line |-> <<>>, stale |-> 0, heard |-> 0, played |-> 0, startedAt |-> -1 ]

\* Mutant: the header of the block that was playing is kept.
StartKeepsHeader(v, date) ==
  [v EXCEPT !.cur = v.start, !.phase = 0,
            !.state = "Attack", !.divider = 0, !.level = 0,
            !.line = v.queue, !.stale = Len(v.queue), !.heard = 0, !.played = 0, !.startedAt = date]

Start(v, date) ==
  [v EXCEPT !.cur = v.start, !.phase = 0, !.header = Blank,
            !.state = "Attack", !.divider = 0, !.level = 0,
            !.line = v.queue, !.stale = Len(v.queue), !.heard = 0, !.played = 0, !.startedAt = date]

Release(v) == [v EXCEPT !.divider = 0, !.state = "Release"]

Weights == << <<60, 0>>, <<115, -52>>, <<98, -55>>, <<122, -60>> >>
Weight(filter) == IF filter \in 1 .. 4 THEN Weights[filter] ELSE <<0, 0>>

\* One of the four samples of a word.
Extrapolated(v, bits) ==
  LET w == Weight(v.header.filter)
  IN  Bounded((bits * 4096) \div 2 ^ Min({v.header.shift, 12})
                + (v.last[1] * w[1]) \div 64 + (v.last[2] * w[2]) \div 64, Min16, Max16)
PushSample(v, s) ==
  [v EXCEPT !.last = <<s, v.last[1]>>, !.line = Append(@, s),
            !.queue = IF Len(@) = Queue THEN @ ELSE Append(@, s)]
DecodeSample(v, bits) == PushSample(v, Extrapolated(v, bits))

IncIndex(ram, i) == (i + 1) % Len(ram)

\* A header: the voice stops after its last block, or goes back to where it loops.
OpenBlock(v, ram, i) ==
  [v EXCEPT !.cur = IncIndex(ram, i), !.header = ram[i + 1],
            !.loopIndex = IF ram[i + 1].start THEN i ELSE @]
NextBlock(v, ram) ==
  IF v.header.end /\ ~v.header.loop THEN [v EXCEPT !.state = "Stopped"]
  ELSE OpenBlock(v, ram, IF v.header.end THEN v.loopIndex ELSE v.cur)

\* decode, of the word at cur
DecodeWord(v, ram) ==
  IF v.state = "Stopped" THEN v
  ELSE LET w == ram[v.cur + 1]
           decoded == DecodeSample(DecodeSample(DecodeSample(DecodeSample(v, w[1]), w[2]), w[3]), w[4])
       IN  [decoded EXCEPT !.cur = IncIndex(ram, @)]

\* One turn of the loop of run_voice_decoder.
KeepAhead(v, ram) ==
  IF v.state = "Stopped" \/ Len(v.queue) >= Ahead THEN v
  ELSE DecodeWord(IF v.cur % BlockSize = 0 THEN NextBlock(v, ram) ELSE v, ram)

\* run_voice_decoder: each turn decodes four samples.
RunDecoder(v, ram) ==
  LET turns == Ahead \div 4 + 1
      after[n \in 0 .. turns] == IF n = 0 THEN v ELSE KeepAhead(after[n - 1], ram)
  IN  after[turns]

\* step: the phase, of 12 bits, moves on and takes samples from the queue.
Consume(v, sum) ==
  [v EXCEPT !.phase = sum % 4096, !.heard = @ + Min({sum \div 4096, Len(v.queue)}),
            !.queue = SubSeq(@, sum \div 4096 + 1, Len(@))]

\* What follows the decoder: nothing if it came to the end of the sound.
PlaySample(v) ==
  IF v.state = "Stopped" THEN v ELSE Consume(RunEnvelope(v), v.phase + v.step)

\* run_voice_cycle
RunVoiceCycle(v, ram) ==
  [(IF v.state = "Stopped" THEN v ELSE PlaySample(RunDecoder(v, ram))) EXCEPT !.played = @ + 1]

-----------------------------------------------------------------------------
(* The processor.  A store is a tuple that begins with its register. *)

NewSpu(size) ==
  [ ram |-> [i \in 1 .. size |-> IF i % BlockSize = 1 THEN Blank ELSE <<0, 0, 0, 0>>],
    ptr |-> 0, voice |-> NewVoice ]

RunAudioCycle(spu) == [spu EXCEPT !.voice = RunVoiceCycle(@, spu.ram)]

RunAudioCycles(spu, cycles) ==
  LET after[n \in 0 .. cycles] == IF n = 0 THEN spu ELSE RunAudioCycle(after[n - 1])
  IN  after[cycles]

RamStore(spu, w) == [spu EXCEPT !.ram[spu.ptr + 1] = w, !.ptr = IncIndex(spu.ram, @)]

SpuRegisters == {"on", "release", "ptr", "ram", "step", "block", "adsr", "level"}

\* bound: a level that is written is not negative
IsStore(w) ==
  /\ w[1] \in SpuRegisters
  /\ w[1] = "step" => w[2] \in Nat
  /\ w[1] = "adsr" => w[2] \in Configs
  /\ w[1] = "level" => w[2] \in 0 .. Max16

\* store_word, at a date
SpuWrite(spu, w, date) ==
  CASE w[1] = "on" -> [spu EXCEPT !.voice = Start(@, date)]
    [] w[1] = "release" -> [spu EXCEPT !.voice = Release(@)]
    [] w[1] = "ptr" -> [spu EXCEPT !.ptr = w[2]]
    [] w[1] = "ram" -> RamStore(RamStore(spu, w[2]), w[3])
    [] w[1] = "step" -> [spu EXCEPT !.voice.step = w[2]]
    [] w[1] = "block" -> [spu EXCEPT !.voice.start = (w[2] * BlockSize) % Len(spu.ram)]
    [] w[1] = "adsr" -> [spu EXCEPT !.voice.params = Params(w[2])]
    [] w[1] = "level" -> [spu EXCEPT !.voice.level = w[2]]
=============================================================================
