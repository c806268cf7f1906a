-------------------------------- MODULE Rv32 --------------------------------
(***************************************************************************)
(* The instructions of the emulated processor: what decode_page makes of   *)
(* the bits (decoder.rs) and what step computes with them (cpu.rs).  A     *)
(* word of 32 bits is the number an i32 holds, a halfword one from 0 to    *)
(* 65535; an instruction is its name, its registers and its immediate,     *)
(* which for a jump or a branch is the address it leads to.                *)
(***************************************************************************)
EXTENDS Integers, TLC, Bitwise

CONSTANT XLen   \* bound: bits of a register (32), so that TLC's integers hold a product

ASSUME Rv32Assumption == XLen \in {2 * k : k \in 4 .. 8}

Size == 2 ^ XLen
Word == 0 .. Size - 1
Wrap(x) == x % Size
Signed(x, bits) == LET y == x % 2 ^ bits IN IF y < 2 ^ (bits - 1) THEN y ELSE y - 2 ^ bits
AsSigned(x) == Signed(x, XLen)

-----------------------------------------------------------------------------
(* Fields.  Piece is n bits of op, from bit from on, moved to bit to: the *)
(* code's (op >> a) & (mask << b).                                        *)

Piece(op, from, n, to) == ((op \div 2 ^ from) % 2 ^ n) * 2 ^ to
Field(op, from, n) == Piece(op, from, n, 0)

SP == 2
RA == 1
DUMMY == 32            \* the register that writes to x0 go to

Out(r) == IF r = 0 THEN DUMMY ELSE r

R7(op) == Field(op, 7, 5)
R15(op) == Field(op, 15, 5)
R20(op) == Field(op, 20, 5)
Imm20Se(op) == op \div 2 ^ 20
StoreOff(op) == 32 * (op \div 2 ^ 25) + Field(op, 7, 5)
BOff(op) ==
  (IF op < 0 THEN -(2 ^ 12) ELSE 0) + Piece(op, 7, 1, 11) + Piece(op, 25, 6, 5) + Piece(op, 8, 4, 1)
JalOff(op) ==
  (IF op < 0 THEN -(2 ^ 20) ELSE 0) + Piece(op, 12, 8, 12) + Piece(op, 20, 1, 11) + Piece(op, 21, 10, 1)
Upper(op) == (op \div 2 ^ 12) * 2 ^ 12

\* Of a compressed instruction, whose immediates have their sign in bit 12.
Sign12(op, at) == IF Field(op, 12, 1) = 1 THEN -(2 ^ at) ELSE 0
Cr2(op) == Field(op, 2, 5)
Cr7x(op) == Field(op, 7, 3) + 8
Cr2x(op) == Field(op, 2, 3) + 8
CAddiSpOff(op) ==
  Sign12(op, 9) + Piece(op, 6, 1, 4) + Piece(op, 5, 1, 6) + Piece(op, 3, 2, 7) + Piece(op, 2, 1, 5)
CSwspOff(op) == Piece(op, 9, 4, 2) + Piece(op, 7, 2, 6)
CLiImm(op) == Sign12(op, 5) + Field(op, 2, 5)
CBOff(op) ==
  Sign12(op, 8) + Piece(op, 10, 2, 3) + Piece(op, 5, 2, 6) + Piece(op, 3, 2, 1) + Piece(op, 2, 1, 5)
CAddi4SpnOff(op) ==
  Piece(op, 11, 2, 4) + Piece(op, 7, 4, 6) + Piece(op, 6, 1, 2) + Piece(op, 5, 1, 3)
CSwLwOff(op) == Piece(op, 10, 3, 3) + Piece(op, 6, 1, 2) + Piece(op, 5, 1, 6)
CShamt(op) == Field(op, 2, 5) + Piece(op, 12, 1, 5)
CLwspOff(op) == Piece(op, 12, 1, 5) + Piece(op, 4, 3, 2) + Piece(op, 2, 2, 6)

\* Mutant: bits 10 and 6 of the offset are exchanged.
CJOffSwapped(op) ==
  Sign12(op, 11) + Piece(op, 11, 1, 4) + Piece(op, 9, 2, 8) + Piece(op, 8, 1, 6) + Piece(op, 7, 1, 10)
  + Piece(op, 6, 1, 7) + Piece(op, 3, 3, 1) + Piece(op, 2, 1, 5)
CJOff(op) ==
  Sign12(op, 11) + Piece(op, 11, 1, 4) + Piece(op, 9, 2, 8) + Piece(op, 8, 1, 10) + Piece(op, 7, 1, 6)
  + Piece(op, 6, 1, 7) + Piece(op, 3, 3, 1) + Piece(op, 2, 1, 5)

-----------------------------------------------------------------------------
(* decode_page, for one place *)

Inst(name, rd, rs1, rs2, imm) == [name |-> name, rd |-> rd, rs1 |-> rs1, rs2 |-> rs2, imm |-> imm]
Unknown == Inst("Unknown", DUMMY, 0, 0, 0)
Named(names, code, inst) ==
  IF code \in DOMAIN names THEN [inst EXCEPT !.name = names[code]] ELSE Unknown

Loads == 0 :> "Lb" @@ 1 :> "Lh" @@ 2 :> "Lw" @@ 4 :> "Lbu" @@ 5 :> "Lhu"
Stores == 0 :> "Sb" @@ 1 :> "Sh" @@ 2 :> "Sw"
Branches == 0 :> "Beq" @@ 1 :> "Bne" @@ 4 :> "Blt" @@ 5 :> "Bge" @@ 6 :> "Bltu" @@ 7 :> "Bgeu"

\* ADDI, by which LI and MV are written.
AddI(rd, rs1, imm) ==
  IF rs1 = 0 THEN Inst("Li", rd, 0, 0, imm)
  ELSE IF imm = 0 THEN Inst("Move", rd, rs1, 0, 0) ELSE Inst("AddImm", rd, rs1, 0, imm)

OpImm(op) ==
  LET funct3 == Field(op, 12, 3)
      funct7 == Field(op, 25, 6) + (IF op < 0 THEN 64 ELSE 0)
      rd == Out(R7(op))
      shift == Inst("", rd, R15(op), 0, R20(op))
  IN  CASE funct3 = 0 -> AddI(rd, R15(op), Imm20Se(op))
        [] funct3 = 1 -> Named(0 :> "SllImm", funct7, shift)
        [] funct3 = 5 -> Named(0 :> "SrlImm" @@ 32 :> "SraImm", funct7, shift)
        [] OTHER -> Inst((2 :> "Slti" @@ 3 :> "Sltiu" @@ 4 :> "XorImm" @@ 6 :> "OrImm" @@ 7 :> "AndImm")[funct3],
                         rd, R15(op), 0, Imm20Se(op))

\* By funct7 and funct3.
RegisterOps ==
  <<0, 0>> :> "Add" @@ <<0, 1>> :> "Sll" @@ <<0, 2>> :> "Slt" @@ <<0, 3>> :> "Sltu" @@ <<0, 4>> :> "Xor"
  @@ <<0, 5>> :> "Srl" @@ <<0, 6>> :> "Or" @@ <<0, 7>> :> "And"
  @@ <<1, 0>> :> "Mul" @@ <<1, 1>> :> "Mulh" @@ <<1, 3>> :> "Mulhu" @@ <<1, 4>> :> "Div" @@ <<1, 5>> :> "Divu"
  @@ <<1, 7>> :> "Remu" @@ <<32, 0>> :> "Sub" @@ <<32, 5>> :> "Sra"

\* By funct5, if the instruction is on words.
Atomics(op) ==
  LET names == (IF R20(op) = 0 THEN 2 :> "Lrw" ELSE <<>>) @@ 3 :> "Scw" @@ 8 :> "AmoorW" @@ 0 :> "AmoaddW"
  IN  IF Field(op, 12, 3) # 2 \/ op < 0 THEN Unknown
      ELSE Named(names, Field(op, 27, 4), Inst("", Out(R7(op)), R15(op), R20(op), 0))

Ecall == 115
Wfi == 273678451
MRet == 807403635
System(op) ==
  LET csrs == 1 :> "CsrSet" @@ 2 :> "CsrSetBits" @@ 3 :> "CsrClearBits" @@ 5 :> "CsrManipImm" @@ 7 :> "CsrManipImm"
  IN  IF Field(op, 12, 3) = 0
      THEN Named(Ecall :> "Ecall" @@ Wfi :> "Wfi" @@ MRet :> "MRet", op, Inst("", DUMMY, 0, 0, 0))
      ELSE Named(csrs, Field(op, 12, 3), Inst("", Out(R7(op)), R15(op), 0, Imm20Se(op)))

Nop == Inst("Li", DUMMY, 0, 0, 0)

Decode32(op, pc) ==
  LET opcode == Field(op, 2, 5)
      funct3 == Field(op, 12, 3)
      funct7 == Field(op, 25, 6) + (IF op < 0 THEN 64 ELSE 0)
      rd == Out(R7(op))
  IN  CASE opcode = 0 -> Named(Loads, funct3, Inst("", rd, R15(op), 0, Imm20Se(op)))
        [] opcode = 3 -> IF funct3 = 0 THEN Nop ELSE Named(1 :> "FenceI", funct3, Nop)
        [] opcode = 4 -> OpImm(op)
        [] opcode = 5 -> Inst("Li", rd, 0, 0, pc + Upper(op))
        [] opcode = 8 -> Named(Stores, funct3, Inst("", DUMMY, R15(op), R20(op), StoreOff(op)))
        [] opcode = 11 -> Atomics(op)
        [] opcode = 12 -> Named(RegisterOps, <<funct7, funct3>>, Inst("", rd, R15(op), R20(op), 0))
        [] opcode = 13 -> Inst("Li", rd, 0, 0, Upper(op))
        [] opcode = 24 -> Named(Branches, funct3, Inst("", DUMMY, R15(op), R20(op), pc + BOff(op)))
        [] opcode = 25 -> Named(0 :> "Jalr", funct3, Inst("", rd, R15(op), 0, Imm20Se(op)))
        [] opcode = 27 -> Inst("Jal", rd, 0, 0, pc + JalOff(op))
        [] opcode = 28 -> System(op)
        [] OTHER -> Unknown

-----------------------------------------------------------------------------
(* The compressed instructions, by the two low bits *)

Quadrant0(op) ==
  LET f == Field(op, 13, 3)
  IN  CASE f = 0 /\ CAddi4SpnOff(op) # 0 -> Inst("AddImm", Cr2x(op), SP, 0, CAddi4SpnOff(op))
        [] f = 2 -> Inst("Lw", Cr2x(op), Cr7x(op), 0, CSwLwOff(op))
        [] f = 6 -> Inst("Sw", DUMMY, Cr7x(op), Cr2x(op), CSwLwOff(op))
        [] OTHER -> Unknown

\* C.SRLI, C.SRAI, C.ANDI and the operations on two of the registers 8 to 15.
CArithmetic(op) ==
  LET r == Cr7x(op)
      kind == Field(op, 10, 2)
  IN  CASE kind = 0 -> Inst("SrlImm", r, r, 0, CShamt(op))
        [] kind = 1 -> Inst("SraImm", r, r, 0, CShamt(op))
        [] kind = 2 -> Inst("AndImm", r, r, 0, CLiImm(op))
        [] kind = 3 /\ Field(op, 12, 1) = 0 ->
             Inst(<<"Sub", "Xor", "Or", "And">>[Field(op, 5, 2) + 1], r, r, Cr2x(op), 0)
        [] OTHER -> Unknown

Quadrant1(op, pc) ==
  LET r7 == R7(op)
      f == Field(op, 13, 3)
  IN  CASE f = 0 -> Inst("AddImm", Out(r7), r7, 0, CLiImm(op))
        [] f = 1 -> Inst("Jal", RA, 0, 0, pc + CJOff(op))
        [] f = 2 -> Inst("Li", Out(r7), 0, 0, CLiImm(op))
        [] f = 3 -> IF r7 = SP THEN Inst("AddImm", SP, SP, 0, CAddiSpOff(op))
                    ELSE Inst("Li", Out(r7), 0, 0, CLiImm(op) * 2 ^ 12)
        [] f = 4 -> CArithmetic(op)
        [] f = 5 -> Inst("Jal", DUMMY, 0, 0, pc + CJOff(op))
        [] f = 6 -> Inst("Beq", DUMMY, Cr7x(op), 0, pc + CBOff(op))
        [] f = 7 -> Inst("Bne", DUMMY, Cr7x(op), 0, pc + CBOff(op))

\* C.MV, C.ADD, C.JR and C.JALR
CRegisters(op) ==
  LET r7 == R7(op)
      r2 == Cr2(op)
      more == Field(op, 12, 1) = 1
  IN  CASE r7 = 0 -> Unknown
        [] r7 # 0 /\ r2 # 0 -> IF more THEN Inst("Add", r7, r7, r2, 0) ELSE Inst("Move", r7, r2, 0, 0)
        [] OTHER -> Inst("Jalr", IF more THEN RA ELSE DUMMY, r7, 0, 0)

Quadrant2(op) ==
  LET r7 == R7(op)
      f == Field(op, 13, 3)
  IN  CASE f = 0 -> Inst("SllImm", Out(r7), r7, 0, CShamt(op))
        [] f = 2 /\ r7 # 0 -> Inst("Lw", r7, SP, 0, CLwspOff(op))
        [] f = 4 -> CRegisters(op)
        [] f = 6 -> Inst("Sw", DUMMY, SP, Cr2(op), CSwspOff(op))
        [] OTHER -> Unknown

Decode16(op, pc) ==
  CASE op % 4 = 0 -> Quadrant0(op)
    [] op % 4 = 1 -> Quadrant1(op, pc)
    [] op % 4 = 2 -> Quadrant2(op)

\* The instruction at pc and the address behind it, from the 32 bits found there.
Decode(code, pc) ==
  IF code[1] % 4 = 3
  THEN [inst |-> Decode32(Signed(code[2], 16) * 2 ^ 16 + code[1], pc), npc |-> pc + 4]
  ELSE [inst |-> Decode16(code[1], pc), npc |-> pc + 2]

-----------------------------------------------------------------------------
(* What step computes *)

\* The upper half of a product, by halves of a: the whole of it may not fit.
MulHigh(a, b) ==
  LET half == 2 ^ (XLen \div 2)
  IN  ((a \div half) * b + ((a % half) * b) \div half) \div half
MulLow(a, b) ==
  LET half == 2 ^ (XLen \div 2)
  IN  Wrap((((a \div half) * b) % half) * half + (a % half) * b)

Magnitude(x) == IF x < 0 THEN -x ELSE x
Quotient(a, b) ==
  LET q == Magnitude(a) \div Magnitude(b) IN IF (a < 0) = (b < 0) THEN q ELSE -q

\* Mutant: the division by zero is left out.
DivideNoZero(a, b) == IF b = 0 THEN 0 ELSE Quotient(a, b)

\* The quotient of MIN by -1 does not fit, and is MIN.
Divide(a, b) == IF b = 0 THEN -1 ELSE Quotient(a, b)

ShiftLeft(a, n) == IF n >= XLen THEN 0 ELSE Wrap((a % 2 ^ (XLen - n)) * 2 ^ n)
ShiftRight(a, n) == IF n >= XLen THEN IF a < 0 THEN -1 ELSE 0 ELSE a \div 2 ^ n

Truth(b) == IF b THEN 1 ELSE 0

\* The operations on two values a and b.  A shift is by five bits of a register.
Compute(name, a, b) ==
  CASE name = "Add" -> Wrap(a + b)
    [] name = "Sub" -> Wrap(a - b)
    [] name = "Slt" -> Truth(AsSigned(a) < AsSigned(b))
    [] name = "Sltu" -> Truth(a < b)
    [] name = "Xor" -> a ^^ b
    [] name = "Or" -> a | b
    [] name = "And" -> a & b
    [] name = "Sll" -> ShiftLeft(a, b % 32)
    [] name = "Srl" -> ShiftRight(a, b % 32)
    [] name = "Sra" -> Wrap(ShiftRight(AsSigned(a), b % 32))
    [] name = "SllImm" -> ShiftLeft(a, b)
    [] name = "SrlImm" -> ShiftRight(a, b)
    [] name = "SraImm" -> Wrap(ShiftRight(AsSigned(a), b))
    [] name = "Mul" -> MulLow(a, b)
    [] name = "Mulhu" -> MulHigh(a, b)
    [] name = "Mulh" -> Wrap((AsSigned(a) * AsSigned(b)) \div Size)
    [] name = "Div" -> Wrap(Divide(AsSigned(a), AsSigned(b)))
    [] name = "Divu" -> IF b = 0 THEN Size - 1 ELSE a \div b
    [] name = "Remu" -> IF b = 0 THEN a ELSE a % b

\* The operations on a register and an immediate.
Immediates ==
  "AddImm" :> "Add" @@ "Slti" :> "Slt" @@ "Sltiu" :> "Sltu" @@ "XorImm" :> "Xor" @@ "OrImm" :> "Or"
  @@ "AndImm" :> "And"
Shifts == {"SllImm", "SrlImm", "SraImm"}
Computations == {RegisterOps[k] : k \in DOMAIN RegisterOps}

Taken(name, a, b) ==
  CASE name = "Beq" -> a = b
    [] name = "Bne" -> a # b
    [] name = "Blt" -> AsSigned(a) < AsSigned(b)
    [] name = "Bge" -> AsSigned(a) >= AsSigned(b)
    [] name = "Bltu" -> a < b
    [] name = "Bgeu" -> a >= b
=============================================================================
