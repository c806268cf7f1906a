-------------------------------- MODULE Nrad --------------------------------
(* The sounds the build tool makes (audio.rs): blocks of ADPCM, each with the  *)
(* filter that gives the smallest error, for the sound processor to decode.    *)
EXTENDS Integers, SequencesExt, FiniteSetsExt

CONSTANT BlockLen   \* samples of a block, a multiple of 4

Clamp(x, low, high) == Max({low, Min({x, high})})
Clamp16(x) == Clamp(x, -32768, 32767)

FilterWeights == << <<0, 0>>, <<60, 0>>, <<115, -52>>, <<98, -55>>, <<122, -60>> >>
Predicted(last, filter) ==
  LET w == FilterWeights[filter + 1]
  IN  (last[1] * w[1]) \div 64 + (last[2] * w[2]) \div 64

\* adpcm_decode_block: from what came before, the samples of the bits.
DecodeBlock(bits, prev, filter, shift) ==
  LET next(ps, b) == Clamp16((b * 4096) \div 2 ^ shift + Predicted(ps, filter))
      more(acc, b) == <<next(<<acc[1], acc[2]>>, b)>> \o acc
      all == FoldLeft(more, prev, bits)
  IN  [i \in 1 .. Len(bits) |-> all[Len(bits) + 1 - i]]

\* The bits that a difference takes, its sign included.
Significant(diff) ==
  1 + Min({k \in 0 .. 20 : (IF diff < 0 THEN -1 - diff ELSE diff) < 2 ^ k})

\* adpcm_encode_block, the shift: what the largest difference leaves of 16 bits.
EncodingShift(samples, prev, filter) ==
  LET before(i) == IF i < 1 THEN prev[1 - i] ELSE samples[i]
      diff(i) == samples[i] - Predicted(<<before(i - 1), before(i - 2)>>, filter)
  IN  Clamp(Max({Significant(diff(i)) : i \in DOMAIN samples} \cup {1}) - 4, 0, 12)

\* ... and the bits, of differences to what will be decoded.
EncodingBits(samples, prev, filter, shift) ==
  LET p(acc) == Predicted(acc.last, filter)
      b(acc, s) == Clamp((s - p(acc)) \div 2 ^ shift, -8, 7)
      more(acc, s) == [ bits |-> Append(acc.bits, b(acc, s)),
                        last |-> <<Clamp16(p(acc) + b(acc, s) * 2 ^ shift), acc.last[1]>> ]
  IN  FoldLeft(more, [bits |-> <<>>, last |-> prev], samples).bits

WithShift(samples, prev, filter, shift) ==
  LET bits == EncodingBits(samples, prev, filter, shift)
  IN  [ filter |-> filter, shift |-> 12 - shift, bits |-> bits,
        decoded |-> DecodeBlock(bits, prev, filter, 12 - shift) ]
EncodeBlock(samples, prev, filter) ==
  WithShift(samples, prev, filter, EncodingShift(samples, prev, filter))

\* adpcm_error
AdpcmError(samples, block) ==
  FoldLeft(LAMBDA e, i : e + Max({samples[i] - block.decoded[i], block.decoded[i] - samples[i]}),
           0, [i \in DOMAIN samples |-> i])

\* The filter with the least error, the first of them; the first block only has filter 0.
BestBlock(samples, prev, isFirst) ==
  LET better(a, b) == IF AdpcmError(samples, b) < AdpcmError(samples, a) THEN b ELSE a
  IN  FoldLeft(LAMBDA a, f : better(a, EncodeBlock(samples, prev, f)), EncodeBlock(samples, prev, 0),
               IF isFirst THEN <<>> ELSE <<1, 2, 3, 4>>)

\* The samples of a block; the last one is filled with its last sample.
BlockSamples(samples, i) ==
  [j \in 1 .. BlockLen |-> samples[Min({(i - 1) * BlockLen + j, Len(samples)})]]

\* dump_nrad: the blocks, the last one marked, and the place of the loop, if any.
LoopBlock(loop) == IF loop = -1 THEN -1 ELSE loop \div BlockLen + 1
DumpNrad(samples, loop) ==
  LET n == (Len(samples) + BlockLen - 1) \div BlockLen
      tail(block) == SubSeq(block.decoded, BlockLen - 1, BlockLen)
      prev(blocks) == IF blocks = <<>> THEN <<0, 0>> ELSE Reverse(tail(Last(blocks)))
      more(blocks, i) == Append(blocks, BestBlock(BlockSamples(samples, i), prev(blocks), i = 1))
      blocks == FoldLeft(more, <<>>, [i \in 1 .. n |-> i])
  IN  [i \in 1 .. n |->
         [ header |-> [ end |-> i = n, loop |-> loop # -1, start |-> i = LoopBlock(loop),
                        filter |-> blocks[i].filter, shift |-> blocks[i].shift ],
           bits |-> blocks[i].bits, decoded |-> blocks[i].decoded ]]

\* The words of a file.
BlockWords(block) ==
  <<block.header>> \o [k \in 1 .. BlockLen \div 4 |-> SubSeq(block.bits, 4 * k - 3, 4 * k)]
NradWords(blocks) == FlattenSeq([i \in DOMAIN blocks |-> BlockWords(blocks[i])])
=============================================================================
