------------------------------- MODULE HolyC --------------------------------
(***************************************************************************)
(* Running HolyC source on the bare kernel: hc_run_src_ex expands it with  *)
(* HcExpand, compiles it with HcFront and HcIR and jumps to the code; the  *)
(* code runs on the registers, the stack and the memory below, one IR      *)
(* instruction a step, and calls the built-ins of HcHost.  Programs run    *)
(* one after another on what the one before left behind.                   *)
(***************************************************************************)
EXTENDS HcHost, HcExpand

CONSTANTS Programs,     \* sequence of [src, bc, want]: source or bytecode, expected value
          Units,        \* what the front end makes of each program, computed once
          Dirtying      \* index of the program whose remains the others must survive

\* hc_run_src_ex up to the bytecode: the expanded source, compiled.
hc_unit(src) ==
    LET e == hc_expand_includes(src)
    IN IF e.failed THEN [err |-> TRUE, bc |-> <<>>, fns |-> <<>>, glob |-> 0, stores |-> <<>>]
       ELSE hc_front_compile_ex(e.text)

ASSUME UnitsAssumption == \A i \in DOMAIN Programs : Units[i] = hc_unit(Programs[i].src)

VARIABLES phase,        \* "idle", "run" or "fault"
          prog,         \* index of the program running or run last, 0 at first
          ran,          \* programs run so far
          jit,          \* the code: [main, fns]
          pc,           \* [fn, at]; function 0 is main
          reg,          \* x0 .. x24
          mem,          \* the words of the address space, g_hc_mem first
          fp, alloc,    \* g_hc_fp, g_hc_alloc
          stk,          \* saved frame pointers and suspended calls
          sys,          \* what the built-ins keep
          got,          \* the value of the last program
          depth         \* ghost: operands really on the IR stack

vars == <<phase, prog, ran, jit, pc, reg, mem, fp, alloc, stk, sys, got, depth>>

-----------------------------------------------------------------------------
Regs == 0..24
Junk == -1
\* What the kernel keeps in its callee-saved registers.
KernelReg(r) == 1000 + r
Saved == 20..23

NoCode == [main |-> hc_ir_compile(<<>>), fns |-> <<>>]
FreshSys == [heap_top |-> 0, heap_last |-> 0, msg |-> <<>>, btn |-> 0, rbtn |-> 0, xy |-> <<>>,
             menu |-> <<>>, depth_on |-> FALSE, depth |-> <<>>, popup_i |-> 0,
             bg |-> 0, px |-> <<>>, con |-> <<>>, time |-> 0, rand |-> 0,
             glob |-> 0, disk |-> [k \in 1..(BlkBytes * BlkCount) |-> 0]]

Init ==
    /\ phase = "idle"
    /\ prog = 0
    /\ ran = 0
    /\ jit = NoCode
    /\ pc = [fn |-> 0, at |-> 1]
    /\ reg = [r \in Regs |-> KernelReg(r)]
    /\ mem = [w \in 0..(Words - 1) |-> Zero8]
    /\ fp = 0
    /\ alloc = 0
    /\ stk = <<>>
    /\ sys = FreshSys
    /\ got = 0
    /\ depth = 0

-----------------------------------------------------------------------------
(* Starting a program. *)

PopupReset(s) == [s EXCEPT !.popup_i = 0]
\* Fs->draw_it must not point into the code of the program before.
\* Mutant: the hook stays.
KeepDrawIt(m) == m
ForgetDrawIt(m) == PokeWord(m, FsBase + FsWord["draw_it"], 0)
\* Mutant: globals are taken to be zero already.
KeepGlobals(m, n) == m
ZeroGlobals(m, n) == [w \in DOMAIN m |-> IF w < n THEN Zero8 ELSE m[w]]

\* The prologue saves the locals' registers before they are used.
Prologue(how) == [ret |-> pc, ops |-> <<>>, loc |-> [r \in Saved |-> reg[r]], how |-> how, depth |-> 0]

MayRun == phase = "idle" /\ (ran = 0 \/ (ran = 1 /\ prog = Dirtying))
\* hc_run_bc: the globals are cleared, the code main is made and entered.
hc_run_bc(i, main, fns, m, s, how) ==
    /\ fp' = 0
    /\ alloc' = s.glob
    /\ mem' = ZeroGlobals(m, s.glob)
    /\ jit' = [main |-> main, fns |-> fns]
    /\ sys' = s
    /\ prog' = i
    /\ ran' = ran + 1
    /\ pc' = [fn |-> 0, at |-> 1]
    /\ depth' = 0
    /\ IF main.err = "NONE"
       THEN /\ phase' = "run"
            /\ stk' = <<Prologue(how)>>
            /\ got' = 0
       ELSE /\ phase' = "idle"
            /\ stk' = <<>>
            /\ got' = Refused
    /\ UNCHANGED reg

\* hc_run_src_ex gives up before there is code.
Refuse(i, m, s) ==
    /\ mem' = m
    /\ sys' = s
    /\ got' = Refused
    /\ prog' = i
    /\ ran' = ran + 1
    /\ UNCHANGED <<phase, jit, pc, reg, fp, alloc, stk, depth>>
\* Strings are written while compiling, also if that fails later.
StoreStrings(m, stores) == FoldLeft(LAMBDA w, t : Poke(w, t.at, t.bytes), m, stores)
\* hc_run_src_ex: popups, heap and hook are reset, the unit is made and run.
hc_run_src(i) ==
    LET u == Units[i]
        s == PopupReset(hc_heap_reset(sys))
    IN /\ MayRun
       /\ Programs[i].bc = <<>>
       /\ \E m \in {StoreStrings(ClearCdc(ForgetDrawIt(mem)), u.stores)} :
            IF u.err THEN Refuse(i, m, s)
            ELSE \E main \in {hc_ir_compile(u.bc)} :
                   hc_run_bc(i, main, u.fns, m, [s EXCEPT !.glob = u.glob], "source")
\* Bytecode is run as it is, beside the functions of the last source.
run_bytecode(i) ==
    /\ MayRun
    /\ Programs[i].bc # <<>>
    /\ \E main \in {hc_ir_compile(Programs[i].bc)} :
         hc_run_bc(i, main, jit.fns, mem, sys, "bytecode")

-----------------------------------------------------------------------------
(* The instruction at hand. *)

Code(fn) == IF fn = 0 THEN jit.main ELSE jit.fns[fn].jit
I == Code(pc.fn).code[pc.at]
Running(ops) == phase = "run" /\ I.op \in ops
\* The register of the k-th operand from the top, and of the next one.
Opd(k) == 9 + I.sp - k
Next1 == 9 + I.sp
Target == Code(pc.fn).label_at[I.a]

Step(at) == pc' = [pc EXCEPT !.at = at]
Quiet == UNCHANGED <<phase, prog, ran, jit, stk, sys, got>>
Frames == UNCHANGED <<fp, alloc>>
\* An access outside every region would be the kernel's own memory.
Access(p, n) == phase' = IF Mapped(mem, p, n) THEN "run" ELSE "fault"

-----------------------------------------------------------------------------
SlotAddr(slot) == MemBase + 8 * (fp + slot)
AbsAddr(slot) == MemBase + 8 * slot
\* The word number is built in x17, the address in rd.
hc_emit_slot_addr(r, rd, slot) == [r EXCEPT ![17] = fp + slot, ![rd] = SlotAddr(slot)]

\* IMM, LD_SLOT, SLOT_ADDR, LD_ABS, ABS_ADDR, LD_LOCAL, DUP.
Push ==
    /\ Running(PushOps \cup {"DUP"})
    /\ reg' = CASE I.op = "IMM" -> [reg EXCEPT ![Next1] = I.a]
                [] I.op = "DUP" -> [reg EXCEPT ![Next1] = reg[Opd(1)]]
                [] I.op = "LD_LOCAL" -> [reg EXCEPT ![Next1] = reg[20 + I.a]]
                [] I.op = "ABS_ADDR" -> [reg EXCEPT ![Next1] = AbsAddr(I.a)]
                [] I.op = "LD_ABS" -> [reg EXCEPT ![Next1] = WordAt(mem, AbsAddr(I.a))]
                [] I.op = "SLOT_ADDR" -> hc_emit_slot_addr(reg, Next1, I.a)
                [] I.op = "LD_SLOT" -> [hc_emit_slot_addr(reg, Next1, I.a)
                                          EXCEPT ![Next1] = WordAt(mem, SlotAddr(I.a))]
    /\ depth' = depth + 1
    /\ Step(pc.at + 1)
    /\ Quiet /\ Frames
    /\ UNCHANGED mem

\* Two operands become one, or one is changed in place.
Compute ==
    /\ Running(BinOps \cup {"NEG", "FNEG", "I2F", "F2I"})
    /\ reg' = IF I.op \in BinOps
              THEN [reg EXCEPT ![Opd(2)] = Binary(I.op, reg[Opd(2)], reg[Opd(1)]),
                               ![8] = IF I.op = "MOD" THEN Quot(reg[Opd(2)], reg[Opd(1)]) ELSE @]
              ELSE [reg EXCEPT ![Opd(1)] = Unary(I.op, @)]
    /\ depth' = IF I.op \in BinOps THEN depth - 1 ELSE depth
    /\ Step(pc.at + 1)
    /\ Quiet /\ Frames
    /\ UNCHANGED mem

\* SWAP goes through x16; DROP and LABEL emit nothing.
Shuffle ==
    /\ Running({"SWAP", "DROP", "LABEL", "ST_LOCAL"})
    /\ reg' = CASE I.op = "SWAP" ->
                     LET t == [reg EXCEPT ![16] = reg[Opd(2)]]
                         v == [t EXCEPT ![Opd(2)] = t[Opd(1)]]
                     IN [v EXCEPT ![Opd(1)] = v[16]]
                [] I.op = "ST_LOCAL" -> [reg EXCEPT ![20 + I.a] = reg[Opd(1)]]
                [] OTHER -> reg
    /\ depth' = IF I.op \in {"DROP", "ST_LOCAL"} THEN depth - 1 ELSE depth
    /\ Step(pc.at + 1)
    /\ Quiet /\ Frames
    /\ UNCHANGED mem

\* The condition is moved to x16 first.
Branch ==
    /\ Running(BranchOps)
    /\ LET taken == CASE I.op = "JMP" -> TRUE
                      [] I.op = "JZ" -> reg[Opd(1)] = 0
                      [] OTHER -> reg[Opd(1)] # 0
       IN Step(IF taken THEN Target ELSE pc.at + 1)
    /\ reg' = IF I.op = "JMP" THEN reg ELSE [reg EXCEPT ![16] = reg[Opd(1)]]
    /\ depth' = IF I.op = "JMP" THEN depth ELSE depth - 1
    /\ Quiet /\ Frames
    /\ UNCHANGED mem

\* The address is built in x16, then the register of the value is stored.
StoreWord ==
    /\ Running({"ST_SLOT", "ST_ABS", "INARG"})
    /\ LET r == IF I.op = "ST_ABS" THEN [reg EXCEPT ![16] = AbsAddr(I.a)]
                ELSE hc_emit_slot_addr(reg, 16, I.a)
           v == IF I.op = "INARG" THEN I.b ELSE Opd(1)
       IN /\ reg' = r
          /\ Access(r[16], 8)
          /\ mem' = IF Mapped(mem, r[16], 8) THEN Poke(mem, r[16], Bytes(r[v])) ELSE mem
    /\ depth' = IF I.op = "INARG" THEN depth ELSE depth - 1
    /\ Step(pc.at + 1)
    /\ Frames
    /\ UNCHANGED <<prog, ran, jit, stk, sys, got>>

Width == CASE I.op \in {"LOAD8", "STORE8"} -> 1 [] I.op \in {"LOAD32", "STORE32"} -> 4 [] OTHER -> 8
Loaded(b) == CASE Len(b) = 8 -> WordOf(b) [] Len(b) = 4 -> HalfOf(b, 0) [] OTHER -> b[1]
LowBytes(v, n) == IF n = 4 THEN SubSeq(Bytes(v), 1, 3) \o <<0>> ELSE SubSeq(Bytes(v), 1, n)

\* Through an address on the stack.
Load ==
    /\ Running({"LOAD", "LOAD8", "LOAD32"})
    /\ Access(reg[Opd(1)], Width)
    /\ reg' = [reg EXCEPT ![Opd(1)] = IF Mapped(mem, @, Width) THEN Loaded(PeekN(mem, @, Width))
                                      ELSE Junk]
    /\ Step(pc.at + 1)
    /\ Frames
    /\ UNCHANGED <<prog, ran, jit, stk, sys, got, mem, depth>>
Store ==
    /\ Running(StoreOps)
    /\ Access(reg[Opd(2)], Width)
    /\ mem' = IF Mapped(mem, reg[Opd(2)], Width)
              THEN Poke(mem, reg[Opd(2)], LowBytes(reg[Opd(1)], Width)) ELSE mem
    /\ depth' = depth - 2
    /\ Step(pc.at + 1)
    /\ Frames
    /\ UNCHANGED <<prog, ran, jit, stk, sys, got, reg>>

-----------------------------------------------------------------------------
(* Frames and calls. *)

\* A frame is taken above g_hc_alloc; x16, x17 and x18 are used for it.
Enter ==
    /\ Running({"ENTER"})
    /\ stk' = Append(stk, [fp |-> fp])
    /\ fp' = alloc
    /\ alloc' = alloc + I.a
    /\ reg' = [reg EXCEPT ![16] = Junk, ![17] = alloc + I.a, ![18] = Junk]
    /\ Step(pc.at + 1)
    /\ UNCHANGED <<phase, prog, ran, jit, mem, sys, got, depth>>

Args == [k \in 1..I.b |-> reg[Opd(I.b - k + 1)]]
Under == I.sp - I.b
\* What a call keeps on the stack: the operands under the arguments and the
\* locals; how is what the caller gets, "value" or a constant of the built-in.
Suspend(how) ==
    [ret |-> [pc EXCEPT !.at = @ + 1], ops |-> [k \in 1..Under |-> reg[8 + k]],
     loc |-> [r \in Saved |-> reg[r]], how |-> how, depth |-> depth - I.b]
Enters(fn, vals, how) ==
    /\ stk' = Append(stk, Suspend(how))
    /\ reg' = [r \in Regs |-> IF r < Len(vals) THEN vals[r + 1] ELSE IF r = 16 THEN Junk ELSE reg[r]]
    /\ pc' = [fn |-> fn, at |-> 1]
    /\ depth' = 0
    /\ Frames
    /\ UNCHANGED <<phase, prog, ran, jit, mem, sys, got>>

Call ==
    /\ Running({"CALL"})
    /\ Enters(I.a - CodeBase, Args, "value")

\* Call0, Call1 and Refresh call back into compiled code.
CalledBack == CASE I.a \in {"Call0", "Call1"} -> Args[1]
                [] I.a = "Refresh" -> WordAt(mem, FsBase + FsWord["draw_it"])
                [] OTHER -> 0
BackArgs == CASE I.a = "Call0" -> <<>> [] I.a = "Call1" -> <<Args[2]>> [] OTHER -> <<0, CdcBase>>
CallBack ==
    /\ Running({"HOST"})
    /\ CalledBack # 0
    /\ Enters(CalledBack - CodeBase, BackArgs, IF I.a = "Refresh" THEN "one" ELSE "value")

\* A built-in may change x0 to x18; what the caller saved is restored.
AfterCall(r, ops, loc, v) ==
    [k \in Regs |-> CASE k = 9 + Len(ops) -> v
                      [] k \in 9..(8 + Len(ops)) -> ops[k - 8]
                      [] k \in Saved -> loc[k]
                      [] k <= 18 -> Junk
                      [] OTHER -> r[k]]
NullCallBack(name) == name \in {"Call0", "Call1", "Refresh"}
Host ==
    /\ Running({"HOST"})
    /\ CalledBack = 0
    /\ \E o \in IF NullCallBack(I.a) THEN Outcome(0, mem, sys) ELSE Built(I.a, Args, mem, sys) :
         /\ mem' = o.m
         /\ sys' = o.s
         /\ reg' = AfterCall(reg, [k \in 1..Under |-> reg[8 + k]], [r \in Saved |-> reg[r]], o.r)
    /\ depth' = depth - I.b + 1
    /\ Step(pc.at + 1)
    /\ Frames
    /\ UNCHANGED <<phase, prog, ran, jit, stk, got>>

\* The end of hc_run_src_ex: nothing of the program stays reachable.
Left(s) == [s EXCEPT !.depth_on = FALSE, !.depth = IF s.depth_on THEN <<>> ELSE @]

\* The frame is given back: g_hc_alloc returns to its start, g_hc_fp to the
\* caller's.
hc_emit_leave == [fp |-> Last(stk).fp, alloc |-> fp]

\* RET: the frame is left, the saved registers are restored.
Return ==
    /\ Running({"RET"})
    /\ LET v == IF I.sp < 1 THEN 0 ELSE reg[Opd(1)]
           s == IF I.framed THEN Front(stk) ELSE stk
           c == Last(s)
       IN /\ fp' = IF I.framed THEN hc_emit_leave.fp ELSE fp
          /\ alloc' = IF I.framed THEN hc_emit_leave.alloc ELSE alloc
          /\ stk' = Front(s)
          /\ reg' = AfterCall(reg, c.ops, c.loc, IF c.how = "one" THEN 1 ELSE v)
          /\ IF Len(s) = 1
             THEN /\ phase' = "idle"
                  /\ got' = v
                  /\ mem' = IF c.how = "source"
                            THEN PokeWord(ForgetDrawIt(mem), CdcBase + 8, 0) ELSE mem
                  /\ sys' = IF c.how = "source" THEN Left(sys) ELSE sys
                  /\ depth' = 0
                  /\ UNCHANGED pc
             ELSE /\ pc' = c.ret
                  /\ depth' = c.depth + 1
                  /\ UNCHANGED <<phase, got, mem, sys>>
    /\ UNCHANGED <<prog, ran, jit>>

\* One instruction.
Execute == \/ Push \/ Compute \/ Shuffle \/ Branch \/ StoreWord \/ Load \/ Store
           \/ Enter \/ Call \/ CallBack \/ Host \/ Return

\* Nothing is left to run.
Rest == phase = "idle" /\ ran > 0 /\ UNCHANGED vars

Next ==
    \/ \E i \in DOMAIN Programs : hc_run_src(i) \/ run_bytecode(i)
    \/ Execute
    \/ Rest

\* The processor goes on executing the code it has entered.
Spec == Init /\ [][Next]_vars /\ WF_vars(Execute)

-----------------------------------------------------------------------------
(* Properties. *)

Word == -(2^(WordBits - 1))..(2^(WordBits - 1) - 1)

\* Registers and addresses are words, frames lie inside g_hc_mem and the code
\* never runs off its end or touches memory that is not its own.
TypeOK ==
    /\ phase \in {"idle", "run"}
    /\ prog \in 0..Len(Programs)
    /\ reg \in [Regs -> Word]
    /\ fp \in 0..MemWords /\ alloc \in fp..MemWords
    /\ phase = "run" => pc.at \in DOMAIN Code(pc.fn).code

\* A program that has ended returned the value that its source means: for the
\* programs of jit_smoke the value the kernel expects, for the others that of
\* the reference interpreter.  What an earlier program left does not matter.
ComputesSource == phase = "idle" /\ prog # 0 => got = Programs[prog].want

\* The emitter's depth is the real one at every instruction, whichever way
\* control came: both arms of a branch leave as many operands, and the frames
\* on the way there fit in g_hc_mem.
StackBalanced == TypeOK /\ (phase = "run" => depth = I.sp)

\* When a program has ended its frames are gone and nothing of it can still be
\* called: the next one finds g_hc_fp, the stack and Fs->draw_it as at boot, no
\* frame is still taken from g_hc_mem, and the kernel finds its callee-saved
\* registers ("locals live in x20-x23; must preserve across JIT return").
NothingLeft ==
    phase = "idle" => /\ stk = <<>>
                      /\ \A r \in 20..23 : reg[r] = KernelReg(r)
                      /\ fp = 0 /\ alloc = sys.glob
                      /\ WordAt(mem, FsBase + FsWord["draw_it"]) = 0
                      /\ ~sys.depth_on

\* Every program ends.
Terminates == phase = "run" ~> phase = "idle"
=============================================================================
