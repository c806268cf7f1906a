------------------------------- MODULE MCCpu -------------------------------
(* Pages of 16 bytes: two of RAM at address 0 and five of ROM at 128; two of them are *)
(* decoded at a time.  Instructions are assembled with the reference's formats.       *)
EXTENDS Cpu

MCHalfword == 0 .. 65535

Halves(word) == <<word % 65536, (word \div 65536) % 65536>>
CMv(rd, rs) == <<32768 + 128 * rd + 4 * rs + 2>>
CAdd(rd, rs) == <<36864 + 128 * rd + 4 * rs + 2>>
CAddi(rd, imm) == <<128 * rd + 4 * imm + 1>>
CLi(rd, imm) == <<16384 + 128 * rd + 4 * imm + 1>>
CJr(rs) == CMv(rs, 0)
Beq(rs1, rs2, off) == Halves(FormatB(off, rs2, rs1, 0))
Bne(rs1, rs2, off) == Halves(FormatB(off, rs2, rs1, 1))
Blt(rs1, rs2, off) == Halves(FormatB(off, rs2, rs1, 4))
Bge(rs1, rs2, off) == Halves(FormatB(off, rs2, rs1, 5))
Bltu(rs1, rs2, off) == Halves(FormatB(off, rs2, rs1, 6))
Jal(rd, off) == Halves(FormatJ(off, rd))
Op(funct7, funct3, rd, rs1, rs2) == Halves(OP(funct7, funct3, rd, rs1, rs2))
Addi(rd, rs1, imm) == Halves(ADDI(rd, rs1, imm))
Load(funct3, rd, imm, rs1) == Halves(FormatI(imm, rs1, funct3, rd, 3))
StoreOf(funct3, rs2, imm, rs1) == Halves(FormatS(imm, rs2, rs1, funct3))
Amo(funct5, rd, rs2, rs1) == Halves(FormatR(4 * funct5, rs2, rs1, 2, rd, 47))
FenceI == Halves(FormatI(0, 0, 1, 0, 15))
Return == Halves(Ecall)

\* Halfwords from an address on.
At(addr, halfwords) ==
  [a \in {PlaceOf(addr + 2 * k) : k \in 0 .. Len(halfwords) - 1} |-> halfwords[(Address(a) - addr) \div 2 + 1]]

Rom == 2 * PageLen * RomBase
ProgramAt(addr, code, regs, result) ==
  [ free |-> FALSE, image |-> At(addr, FlattenSeq(code)), x |-> regs, pc |-> addr, result |-> result ]

\* Euclid's algorithm, from several places of a page.
Gcd(a, b, offset) ==
  ProgramAt(Rom + offset,
    << Beq(11, 0, 16), Op(1, 7, 12, 10, 11), CMv(10, 11), CMv(11, 12), Jal(0, -12), Return >>,
    10 :> a @@ 11 :> b,
    IF a = 0 THEN b ELSE Max({d \in 1 .. a : a % d = 0 /\ b % d = 0}))

\* Four bytes of ROM are reversed into RAM.
Reverse4 ==
  LET p == ProgramAt(Rom,
             << Addi(5, 0, Rom + 64), Addi(6, 0, 4),
                Load(0, 7, 0, 5), Addi(6, 6, -1), StoreOf(0, 7, 0, 6), Addi(5, 5, 1), Bne(6, 0, -16),
                Load(1, 10, 0, 0), Load(5, 11, 2, 0), Op(32, 0, 10, 10, 11), Return >>,
             <<>>, (1 - 256 - (127 + 256 * 128)) % 65536)
  IN  [p EXCEPT !.image = @ @@ At(Rom + 64, <<128 + 256 * 127, 1 * 256 + 255>>)]

\* The sum of 1 to n by recursion, with the stack in RAM.
SumTo(n) ==
  ProgramAt(Rom,
    << Addi(2, 0, 32), Jal(1, 8), Return,
       Bne(10, 0, 6), CJr(1), Addi(2, 2, -8), StoreOf(2, 1, 4, 2), StoreOf(2, 10, 0, 2), Addi(10, 10, -1),
       Jal(1, -22), Load(2, 11, 0, 2), Load(2, 1, 4, 2), CAddi(2, 8), CAdd(10, 11), CJr(1) >>,
    10 :> n, (n * (n + 1)) \div 2)

\* A subroutine in RAM is called, changed, and called again after a FENCE.I.
SelfModify ==
  LET p == ProgramAt(Rom + 6,
             << Halves(JALR(1, 0)), CMv(12, 10), Load(5, 5, Rom + 64, 0), StoreOf(1, 5, 0, 0), FenceI,
                Halves(JALR(1, 0)), CAdd(10, 12), Return >>,
             <<>>, 6)
  IN  [p EXCEPT !.image = @ @@ At(0, CLi(10, 1) \o CJr(1)) @@ At(Rom + 64, CLi(10, 5))]

\* A word is incremented by LR and SC, which fails after a store to its cell; AMOs.
Atomic ==
  LET p == ProgramAt(Rom,
             << Amo(2, 5, 0, 0), Addi(5, 5, 1), Amo(3, 6, 5, 0), Bne(6, 0, -12),
                Amo(2, 5, 0, 0), StoreOf(2, 0, 8, 0), Amo(3, 6, 5, 0),
                Amo(0, 8, 9, 0), Amo(8, 8, 9, 0), Load(2, 10, 0, 0), CAdd(10, 6), Return >>,
             9 :> 3, 12)
  IN  [p EXCEPT !.image = @ @@ At(0, <<4, 0>>)]

\* Laws of the operations on a in x11 and b in x12.
Law(code, a, b, result) == ProgramAt(Rom + 12, code \o <<Return>>, 11 :> a @@ 12 :> b @@ 15 :> 32768, result)
Edge == {0, 1, 2, 3, 7, 255, 32767, 32768, 32769, 65534, 65535}
Negative(a) == a >= 32768
Abs(a) == IF Negative(a) THEN 65536 - a ELSE a

\* Quotient times divisor plus remainder; the remainder is less than the divisor if there is one.
DivRem(a, b) ==
  Law(<<Op(1, 5, 13, 11, 12), Op(1, 7, 14, 11, 12), Op(1, 0, 13, 13, 12), Op(0, 0, 10, 13, 14),
        Op(0, 3, 14, 14, 12), Op(32, 0, 10, 10, 14)>>, a, b, (a - Truth(b # 0)) % 65536)
\* The signed quotient is the one of the magnitudes, with the sign of the product.
DivSigned(a, b) ==
  LET differ == Negative(a) # Negative(b)
      p == Law(<<Op(1, 4, 13, 11, 12), Op(1, 5, 14, 16, 17), Op(IF differ THEN 0 ELSE 32, 0, 10, 13, 14)>>,
               a, b, IF b = 0 /\ differ THEN 65534 ELSE 0)
  IN  [p EXCEPT !.x = @ @@ 16 :> Abs(a) @@ 17 :> Abs(b)]
\* a * b is (a - 1) * b plus b, in both halves.
MulStep(a, b) ==
  Law(<<Op(1, 0, 13, 11, 12), Op(1, 3, 14, 11, 12), Addi(11, 11, -1), Op(1, 0, 15, 11, 12), Op(1, 3, 16, 11, 12),
        CAdd(15, 12), Op(0, 3, 17, 15, 12), CAdd(16, 17), Op(0, 4, 15, 15, 13), Op(0, 4, 16, 16, 14),
        Op(0, 6, 10, 15, 16)>>, a, b, 0)
\* The upper halves of the signed and of the unsigned product.
MulSigned(a, b) ==
  Law(<<Op(1, 3, 13, 11, 12), Op(1, 1, 14, 11, 12), Op(32, 0, 10, 13, 14)>>, a, b,
      ((IF Negative(a) THEN b ELSE 0) + (IF Negative(b) THEN a ELSE 0)) % 65536)
\* Comparisons and branches agree; the signed ones are the unsigned ones of a and b moved by MIN.
Compares(a, b) ==
  Law(<<Op(0, 2, 10, 11, 12), Blt(11, 12, 6), CAddi(10, 1), Bge(11, 12, 6), CAddi(10, 2),
        Op(0, 4, 11, 11, 15), Op(0, 4, 12, 12, 15), Op(0, 3, 13, 11, 12), Bltu(11, 12, 6), CAddi(13, 1), CAdd(10, 13)>>,
      a, b, 2 + (IF (a + 32768) % 65536 < (b + 32768) % 65536 THEN 2 ELSE 0))
\* What a shift right drops is the remainder of the power of two; SRA of a negative number.
Shifted(a, n) ==
  Law(<<Op(0, 5, 13, 11, 12), Op(0, 1, 13, 13, 12), CLi(14, 1), Op(0, 1, 14, 14, 12), Addi(14, 14, -1),
        Op(0, 7, 14, 14, 11), Op(0, 6, 10, 13, 14),
        Op(32, 5, 13, 11, 12), Halves(OPIMM(4, 11, 11, -1)), Op(32, 5, 14, 11, 12), CAdd(13, 14), CAdd(10, 13)>>,
      a, n, (a - 1) % 65536)

\* A halfword on its own; the compressed ones, by funct3 and quadrant, in which few of the other
\* bits are set or few are clear.
OneWord(op) == ProgramAt(0, << <<op>>, Return >>, <<>>, NoResult)
Few == {S \in SUBSET (2 .. 12) : Cardinality(S) \in 0 .. 3 \cup 8 .. 11}
Compressed ==
  {8192 * f + quadrant + MapThenSumSet(LAMBDA bit : 2 ^ bit, S) : f \in 0 .. 7, quadrant \in 0 .. 2, S \in Few}

\* Any fetch and any store, around the ends of pages.
Anything ==
  [ free |-> TRUE, image |-> At(14, <<1, 5>>), x |-> <<>>, pc |-> 0, result |-> NoResult,
    pages |-> {0, 1, RomBase}, slots |-> {PageLen - 1}, cells |-> {<<1, 0>>}, values |-> {5, 9} ]

MCPrograms ==
  {Gcd(a, b, offset) : a \in {0, 18, 35}, b \in {0, 12, 35}, offset \in {0, 6, 12}}
  \cup {Reverse4, SelfModify, Atomic, Anything} \cup {SumTo(n) : n \in 0 .. 3}
  \cup {DivRem(a, b) : a, b \in Edge} \cup {DivSigned(a, b) : a, b \in Edge}
  \cup {MulStep(a, b) : a \in Edge \ {0}, b \in Edge} \cup {MulSigned(a, b) : a, b \in Edge}
  \cup {Compares(a, b) : a, b \in Edge} \cup {Shifted(a, n) : a \in Edge, n \in {0, 1, 8, 15, 16, 31}}
  \cup {OneWord(op) : op \in Compressed}
=============================================================================
