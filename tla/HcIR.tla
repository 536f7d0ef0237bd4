-------------------------------- MODULE HcIR --------------------------------
(***************************************************************************)
(* The stack IR of the built-in HolyC compiler and the one-pass emitter    *)
(* that turns it into AArch64 code (hc_ir.h).                              *)
(*                                                                         *)
(* Operand i of the IR stack lives in register x(9+i); the emitter follows *)
(* the depth of the stack linearly through the code, so a branch is sound  *)
(* only if the depth at the branch is the depth the label was emitted at.  *)
(* x16, x17 and x18 are also the emitter's scratch registers.              *)
(*                                                                         *)
(* Widths are scaled: an I64 has WordBits bits, a U32 24 bits, a U8 8, and *)
(* a word of g_hc_mem is still eight bytes.  An F64 is a number of eighths *)
(* packed into bits that no small integer has, so that converting a value  *)
(* and reinterpreting its bits are told apart.                             *)
(***************************************************************************)
EXTENDS Integers, Sequences, FiniteSets, SequencesExt, Bitwise, TLC

CONSTANTS MaxDepth,     \* HC_IR_MAX_DEPTH
          MaxLabels,    \* HC_IR_MAX_LABELS
          MaxLocals,    \* HC_IR_MAX_LOCALS
          MaxPatches,   \* the patches[] array of hc_ir_compile
          MemWords,     \* HC_IR_MEM_WORDS
          JitCap        \* capacity of a code buffer, in IR instructions

-----------------------------------------------------------------------------
(* Words, bytes and F64 bits. *)

WordBits == 25
TwoW == 2^WordBits
Wrap(x) == ((x + 2^(WordBits - 1)) % TwoW) - 2^(WordBits - 1)
Unsigned(x) == x % TwoW
U32Mask == 2^24 - 1
Refused == -7777777     \* the outcome of a source that is refused: no value

\* The eight bytes of a word, least significant first, and back.
Bytes(v) ==
    <<v % 256, (v \div 256) % 256, (v \div 65536) % 256>>
        \o [i \in 1..5 |-> IF v < 0 THEN 255 ELSE 0]
WordOf(b) ==
    b[1] + 256 * b[2] + 65536 * b[3] - (IF b[8] >= 128 THEN 2^24 ELSE 0)
HalfOf(b, at) ==
    IF at = 0 THEN b[1] + 256 * b[2] + 65536 * b[3]
              ELSE b[5] + 256 * b[6] + 65536 * b[7]

FOne == 8
FBits(e) == CASE e = 0 -> 0
              [] e > 0 -> 2^23 + e
              [] OTHER -> (2^23 - 2^24) - e
\* Bits that no conversion made are a denormal: zero for every operation.
FVal(v) == CASE v >= 2^23 -> v - 2^23
             [] v < -2^22 -> -(v - (2^23 - 2^24))
             [] OTHER -> 0
\* Truncation towards zero, of SDIV and FCVTZS.
Quot(a, b) == IF b = 0 THEN 0
              ELSE LET q == (IF a < 0 THEN -a ELSE a) \div (IF b < 0 THEN -b ELSE b)
                   IN IF (a < 0) # (b < 0) THEN -q ELSE q

-----------------------------------------------------------------------------
(* Instructions and their effect on the depth of the IR stack. *)

Ins(op) == [op |-> op, a |-> 0, b |-> 0]
Ins1(op, a) == [op |-> op, a |-> a, b |-> 0]
Ins2(op, a, b) == [op |-> op, a |-> a, b |-> b]
Imm(v) == Ins1("IMM", v)

AluOps == {"ADD", "SUB", "MUL", "DIV", "MOD", "AND", "OR", "XOR", "SHL", "SHR", "ASR"}
CmpOps == {"EQ", "NE", "LT", "LE", "GT", "GE"}
FAluOps == {"FADD", "FSUB", "FMUL", "FDIV"}
FCmpOps == {"FEQ", "FNE", "FLT", "FLE", "FGT", "FGE"}
BinOps == AluOps \cup CmpOps \cup FAluOps \cup FCmpOps
UnOps == {"NEG", "FNEG", "I2F", "F2I", "LOAD", "LOAD8", "LOAD32"}
StoreOps == {"STORE", "STORE8", "STORE32"}
PushOps == {"IMM", "LD_SLOT", "LD_ABS", "SLOT_ADDR", "ABS_ADDR", "LD_LOCAL"}
PopOps == {"DROP", "JZ", "JNZ", "ST_SLOT", "ST_ABS", "ST_LOCAL"}
BranchOps == {"JMP", "JZ", "JNZ"}
CallOps == {"CALL", "HOST"}     \* of a compiled function, of a kernel built-in

\* Operands an instruction takes from the stack.
Need(i) == CASE i.op \in BinOps \cup StoreOps \cup {"SWAP"} -> 2
             [] i.op \in UnOps \cup PopOps \cup {"DUP"} -> 1
             [] i.op \in CallOps -> i.b
             [] OTHER -> 0
\* What it leaves of them, with what it pushes.
Delta(i) == CASE i.op \in PushOps \cup {"DUP"} -> 1
              [] i.op \in BinOps \cup PopOps -> -1
              [] i.op \in StoreOps -> -2
              [] i.op \in CallOps -> 1 - i.b
              [] OTHER -> 0

-----------------------------------------------------------------------------
(* hc_ir_compile. *)

\* The address of a frame slot is built in x17, so its target cannot be x17.
SlotClash(u, i) == i.op \in {"SLOT_ADDR", "LD_SLOT"} /\ 9 + u.sp = 17

EmitError(u, i) ==
    CASE Len(u.code) >= JitCap -> "SPACE"
      [] i.op \in {"LD_LOCAL", "ST_LOCAL"} /\ i.a >= MaxLocals -> "LOCAL"
      [] i.op \in {"SLOT_ADDR", "LD_SLOT", "ST_SLOT", "ABS_ADDR", "LD_ABS", "ST_ABS"}
           /\ i.a >= MemWords -> "LOCAL"
      [] i.op = "INARG" /\ (i.a >= MemWords \/ i.b > 6) -> "LOCAL"
      [] u.sp < Need(i) -> "DEPTH"
      [] i.op \in PushOps \cup {"DUP"} /\ u.sp >= MaxDepth -> "DEPTH"
      [] i.op \in CallOps /\ u.sp - i.b >= MaxDepth -> "DEPTH"
      [] SlotClash(u, i) -> "SPACE"
      [] i.op = "LABEL" /\ (i.a >= MaxLabels \/ i.a \in DOMAIN u.label_at) -> "LABEL"
      [] i.op \in BranchOps /\ i.a >= MaxLabels -> "LABEL"
      [] i.op \in BranchOps /\ u.npatch >= MaxPatches -> "SPACE"
      [] OTHER -> "NONE"

\* One instruction: it is emitted for the depth the scan has reached.
EmitStep(u, i) ==
    IF u.err # "NONE" \/ u.ended THEN u
    ELSE IF i.op = "END" THEN [u EXCEPT !.ended = TRUE]
    ELSE IF EmitError(u, i) # "NONE" THEN [u EXCEPT !.err = EmitError(u, i)]
    ELSE [u EXCEPT
           !.code = Append(@, [op |-> i.op, a |-> i.a, b |-> i.b,
                               sp |-> u.sp, framed |-> u.framed]),
           !.sp = IF i.op = "RET" THEN 0 ELSE @ + Delta(i),
           !.framed = CASE i.op = "ENTER" -> TRUE [] i.op = "LEAVE" -> FALSE [] OTHER -> @,
           !.npatch = IF i.op \in BranchOps THEN @ + 1 ELSE @,
           !.label_at = IF i.op = "LABEL" THEN (i.a :> Len(u.code) + 1) @@ @ ELSE @]

\* The epilogue after the last instruction returns zero.
EmitEnd(u) ==
    IF u.err # "NONE" THEN u
    ELSE IF Len(u.code) >= JitCap THEN [u EXCEPT !.err = "SPACE"]
    ELSE [u EXCEPT !.code = Append(@, [op |-> "RET", a |-> 0, b |-> 0,
                                       sp |-> 0, framed |-> u.framed])]

\* Every patched branch must have found its label.
Patch(u) ==
    IF u.err = "NONE" /\ \E k \in DOMAIN u.code :
           u.code[k].op \in BranchOps /\ u.code[k].a \notin DOMAIN u.label_at
    THEN [u EXCEPT !.err = "LABEL"] ELSE u

\* The scan of bc[lo..hi], by halves: TLC's stack stays shallow.
RECURSIVE Emit(_, _, _, _)
Emit(u, bc, lo, hi) ==
    IF lo > hi THEN u
    ELSE IF lo = hi THEN EmitStep(u, bc[lo])
    ELSE LET mid == (lo + hi) \div 2
             v == Emit(u, bc, lo, mid)
         IN IF v.err # "NONE" THEN v ELSE Emit(v, bc, mid + 1, hi)

hc_ir_compile(bc) ==
    Patch(EmitEnd(Emit([code |-> <<>>, sp |-> 0, framed |-> FALSE, npatch |-> 0, ended |-> FALSE,
                        label_at |-> <<>>, err |-> "NONE"], bc, 1, Len(bc))))

-----------------------------------------------------------------------------
(* What one emitted instruction computes from its operands. *)

Bool(p) == IF p THEN 1 ELSE 0

Alu(op, x, y) ==
    CASE op = "ADD" -> Wrap(x + y)
      [] op = "SUB" -> Wrap(x - y)
      [] op = "MUL" -> Wrap(x * y)
      [] op = "DIV" -> Wrap(Quot(x, y))
      [] op = "MOD" -> Wrap(x - Quot(x, y) * y)
      [] op = "AND" -> Wrap(Unsigned(x) & Unsigned(y))
      [] op = "OR" -> Wrap(Unsigned(x) | Unsigned(y))
      [] op = "XOR" -> Wrap(Unsigned(x) ^^ Unsigned(y))
      [] op = "SHL" -> Wrap((Unsigned(x) % 2^(WordBits - (y % WordBits))) * 2^(y % WordBits))
      [] op = "SHR" -> Wrap(Unsigned(x) \div 2^(y % WordBits))
      [] op = "ASR" -> x \div 2^(y % WordBits)
Cmp(op, x, y) ==
    Bool(CASE op \in {"EQ", "FEQ"} -> x = y
           [] op \in {"NE", "FNE"} -> x # y
           [] op \in {"LT", "FLT"} -> x < y
           [] op \in {"LE", "FLE"} -> x <= y
           [] op \in {"GT", "FGT"} -> x > y
           [] op \in {"GE", "FGE"} -> x >= y)
FAlu(op, e, g) ==
    FBits(CASE op = "FADD" -> e + g
            [] op = "FSUB" -> e - g
            [] op = "FMUL" -> Quot(e * g, FOne)
            [] op = "FDIV" -> Quot(e * FOne, g))

Binary(op, x, y) ==
    CASE op \in AluOps -> Alu(op, x, y)
      [] op \in CmpOps -> Cmp(op, x, y)
      [] op \in FAluOps -> FAlu(op, FVal(x), FVal(y))
      [] op \in FCmpOps -> Cmp(op, FVal(x), FVal(y))
Unary(op, x) ==
    CASE op = "NEG" -> Wrap(-x)
      [] op = "FNEG" -> FBits(-FVal(x))
      [] op = "I2F" -> FBits(x * FOne)
      [] op = "F2I" -> Quot(FVal(x), FOne)
=============================================================================
