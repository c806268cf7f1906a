--------------------------------- MODULE Rvc ---------------------------------
(***************************************************************************)
(* The reference for the decoder: the formats of the RISC-V base           *)
(* instructions, and for each compressed instruction the base instruction  *)
(* it stands for, from the tables of the unprivileged specification.       *)
(***************************************************************************)
EXTENDS Integers, SequencesExt

LOCAL Bits(n, high, low) == (n \div 2 ^ low) % 2 ^ (high - low + 1)
LOCAL Sext(n, bits) == IF n >= 2 ^ (bits - 1) THEN n - 2 ^ bits ELSE n

\* The formats.  An immediate may be negative.
FormatR(funct7, rs2, rs1, funct3, rd, opcode) ==
  Sext(funct7, 7) * 2 ^ 25 + rs2 * 2 ^ 20 + rs1 * 2 ^ 15 + funct3 * 2 ^ 12 + rd * 2 ^ 7 + opcode
FormatI(imm, rs1, funct3, rd, opcode) ==
  imm * 2 ^ 20 + rs1 * 2 ^ 15 + funct3 * 2 ^ 12 + rd * 2 ^ 7 + opcode
FormatS(imm, rs2, rs1, funct3) == FormatR(Bits(imm, 11, 5), rs2, rs1, funct3, Bits(imm, 4, 0), 35)
FormatB(imm, rs2, rs1, funct3) ==
  FormatR(64 * Bits(imm, 12, 12) + Bits(imm, 10, 5), rs2, rs1, funct3, 2 * Bits(imm, 4, 1) + Bits(imm, 11, 11), 99)
FormatU(imm, rd, opcode) == imm * 2 ^ 12 + rd * 2 ^ 7 + opcode
FormatJ(imm, rd) ==
  LET top == Bits(imm, 20, 20) * 2 ^ 11 + Bits(imm, 10, 1) * 2 + Bits(imm, 11, 11)
  IN  FormatU(Sext(top, 12) * 2 ^ 8 + Bits(imm, 19, 12), rd, 111)

OP(funct7, funct3, rd, rs1, rs2) == FormatR(funct7, rs2, rs1, funct3, rd, 51)
OPIMM(funct3, rd, rs1, imm) == FormatI(imm, rs1, funct3, rd, 19)
ADDI(rd, rs1, imm) == OPIMM(0, rd, rs1, imm)
LW(rd, imm, rs1) == FormatI(imm, rs1, 2, rd, 3)
SW(rs2, imm, rs1) == FormatS(imm, rs2, rs1, 2)
LUI(rd, imm) == FormatU(imm, rd, 55)
JALR(rd, rs1) == FormatI(0, rs1, 0, rd, 103)

-----------------------------------------------------------------------------
(* The compressed instructions *)

\* The value whose bits, as they are listed, are those of op from bit top down.
LOCAL Spread(op, top, to) ==
  FoldLeft(LAMBDA sum, i : sum + Bits(op, top - i + 1, top - i + 1) * 2 ^ to[i], 0, [i \in DOMAIN to |-> i])
LOCAL Imm6(op) == Sext(32 * Bits(op, 12, 12) + Bits(op, 6, 2), 6)
LOCAL UImm7(op) == Spread(op, 12, <<5, 4, 3>>) + Spread(op, 6, <<2, 6>>)
LOCAL JumpOff(op) == Sext(Spread(op, 12, <<11, 4, 9, 8, 10, 6, 7, 3, 2, 1, 5>>), 12)
LOCAL BranchOff(op) == Sext(Spread(op, 12, <<8, 4, 3>>) + Spread(op, 6, <<7, 6, 2, 1, 5>>), 9)
LOCAL SpOff4(op) == Spread(op, 12, <<5, 4, 9, 8, 7, 6, 2, 3>>)
LOCAL SpOff16(op) == Sext(Spread(op, 12, <<9>>) + Spread(op, 6, <<4, 6, 8, 7, 5>>), 10)

\* Also hints, and the instructions of extensions that the processor does not have.
Reserved == 0
LOCAL When(condition, word) == IF condition THEN word ELSE Reserved

LOCAL Funct3(op) == Bits(op, 15, 13)
LOCAL Short(op) == Bits(op, 12, 12) = 0
LOCAL Low(op) == Bits(op, 4, 2) + 8     \* rd' or rs2'
LOCAL High(op) == Bits(op, 9, 7) + 8    \* rd' or rs1'
LOCAL Rd(op) == Bits(op, 11, 7)
LOCAL Rs2Of(op) == Bits(op, 6, 2)

LOCAL Expand0(op) ==
  CASE Funct3(op) = 0 -> When(SpOff4(op) # 0, ADDI(Low(op), 2, SpOff4(op)))
    [] Funct3(op) = 2 -> LW(Low(op), UImm7(op), High(op))
    [] Funct3(op) = 6 -> SW(Low(op), UImm7(op), High(op))
    [] OTHER -> Reserved

LOCAL ExpandArithmetic(op) ==
  CASE Bits(op, 11, 10) = 0 -> When(Short(op), OPIMM(5, High(op), High(op), Rs2Of(op)))
    [] Bits(op, 11, 10) = 1 -> When(Short(op), OPIMM(5, High(op), High(op), 1024 + Rs2Of(op)))
    [] Bits(op, 11, 10) = 2 -> OPIMM(7, High(op), High(op), Imm6(op))
    [] Bits(op, 12, 10) = 3 /\ Bits(op, 6, 5) = 0 -> OP(32, 0, High(op), High(op), Low(op))
    [] Bits(op, 12, 10) = 3 /\ Bits(op, 6, 5) = 1 -> OP(0, 4, High(op), High(op), Low(op))
    [] Bits(op, 12, 10) = 3 /\ Bits(op, 6, 5) = 2 -> OP(0, 6, High(op), High(op), Low(op))
    [] Bits(op, 12, 10) = 3 /\ Bits(op, 6, 5) = 3 -> OP(0, 7, High(op), High(op), Low(op))
    [] OTHER -> Reserved

LOCAL Expand1(op) ==
  CASE Funct3(op) = 0 -> ADDI(Rd(op), Rd(op), Imm6(op))
    [] Funct3(op) = 1 -> FormatJ(JumpOff(op), 1)
    [] Funct3(op) = 2 -> ADDI(Rd(op), 0, Imm6(op))
    [] Funct3(op) = 3 -> When(Imm6(op) # 0, IF Rd(op) = 2 THEN ADDI(2, 2, SpOff16(op)) ELSE LUI(Rd(op), Imm6(op)))
    [] Funct3(op) = 4 -> ExpandArithmetic(op)
    [] Funct3(op) = 5 -> FormatJ(JumpOff(op), 0)
    [] Funct3(op) = 6 -> FormatB(BranchOff(op), 0, High(op), 0)
    [] Funct3(op) = 7 -> FormatB(BranchOff(op), 0, High(op), 1)

LOCAL Expand2(op) ==
  CASE Funct3(op) = 0 -> When(Short(op), OPIMM(1, Rd(op), Rd(op), Rs2Of(op)))
    [] Funct3(op) = 2 ->
         When(Rd(op) # 0, LW(Rd(op), Spread(op, 12, <<5>>) + Spread(op, 6, <<4, 3, 2, 7, 6>>), 2))
    [] Funct3(op) = 4 /\ Rs2Of(op) # 0 ->
         When(Rd(op) # 0, OP(0, 0, Rd(op), IF Short(op) THEN 0 ELSE Rd(op), Rs2Of(op)))
    [] Funct3(op) = 4 /\ Rs2Of(op) = 0 -> When(Rd(op) # 0, JALR(IF Short(op) THEN 0 ELSE 1, Rd(op)))
    [] Funct3(op) = 6 -> SW(Rs2Of(op), Spread(op, 12, <<5, 4, 3, 2, 7, 6>>), 2)
    [] OTHER -> Reserved

Expand(op) ==
  CASE op % 4 = 0 -> Expand0(op)
    [] op % 4 = 1 -> Expand1(op)
    [] op % 4 = 2 -> Expand2(op)
    [] OTHER -> Reserved
=============================================================================
