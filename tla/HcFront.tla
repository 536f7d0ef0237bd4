------------------------------- MODULE HcFront -------------------------------
(***************************************************************************)
(* The HolyC-subset front end (hc_front.h): a one-pass recursive-descent   *)
(* parser that emits stack IR as it reads.                                 *)
(*                                                                         *)
(* The source is a sequence of tokens; white space, comments and the       *)
(* spelling of literals are gone.  The parser's state is the record f (the *)
(* C struct hc_front): every operator below takes it and returns it, and   *)
(* an error sticks.  Strings are stored into g_hc_mem while compiling:     *)
(* f.stores says which.                                                    *)
(***************************************************************************)
EXTENDS HcIR

CONSTANTS MaxNames, MaxGlobs, MaxFns, MaxLoops, MaxClasses, MaxMembers,
          MaxEnums, MaxCases,   \* the HC_MAX_* bounds of hc_front.h
          BcCap,                \* bytecode buffer, in IR instructions
          MemBase, CodeBase,    \* addresses of g_hc_mem and of fn_code
          FsBase,               \* address of the task fields Fs->...
          IntLit,               \* integer and character tokens: their value
          RealLit,              \* F64 tokens: <<integer part, fraction, digits>>
          StrLit                \* string tokens: their characters

Punct == {"(", ")", "{", "}", "[", "]", ";", ",", ":", "?", ".", "...", "->",
          "+", "-", "*", "/", "%", "<<", ">>", "&", "^", "|", "&&", "||", "!",
          "==", "!=", "<", "<=", ">", ">=", "=", "+=", "-=", "*=", "++", "--"}
PiTok == "pi"
PiBits == FBits(25)

Max2(a, b) == IF a > b THEN a ELSE b
AlignUp(v, a) == ((v + a - 1) \div a) * a

-----------------------------------------------------------------------------
(* Bytes of memory. *)

Mapped(m, p, n) == p >= MemBase /\ (p + n - 1 - MemBase) \div 8 \in DOMAIN m
Peek(m, p) == m[(p - MemBase) \div 8][((p - MemBase) % 8) + 1]
PeekN(m, p, n) == [k \in 1..n |-> Peek(m, p + k - 1)]
\* b is written from p on.
Poke(m, p, b) ==
    LET at == p - MemBase
        Byte(w, k) == LET j == 8 * w + k - at IN IF j \in DOMAIN b THEN b[j] ELSE m[w][k]
    IN [w \in (at \div 8)..((at + Len(b) - 1) \div 8) |->
          <<Byte(w, 1), Byte(w, 2), Byte(w, 3), Byte(w, 4),
            Byte(w, 5), Byte(w, 6), Byte(w, 7), Byte(w, 8)>>] @@ m
PokeWord(m, p, v) == IF p = 0 THEN m ELSE Poke(m, p, Bytes(v))
WordAt(m, p) == WordOf(PeekN(m, p, 8))

-----------------------------------------------------------------------------
(* Reading tokens and emitting instructions. *)

Tok(f) == IF f.p <= Len(f.src) THEN f.src[f.p] ELSE "EOF"
Adv(f) == [f EXCEPT !.p = @ + 1]
Fail(f) == [f EXCEPT !.err = TRUE]
NotNames == Punct \cup DOMAIN IntLit \cup DOMAIN RealLit \cup DOMAIN StrLit \cup {"EOF"}
IsIdent(t) == t \notin NotNames
Expect(f, t) == IF f.err \/ Tok(f) # t THEN Fail(f) ELSE Adv(f)
IfTok(f, t) == IF Tok(f) = t THEN Adv(f) ELSE f
SetF64(f, b) == [f EXCEPT !.f64 = b]

\* An immediate is an I64, whatever came before it.
Put(f, s) ==
    IF f.err \/ Len(f.code) + Len(s) > BcCap THEN Fail(f)
    ELSE [f EXCEPT !.code = @ \o s,
                   !.f64 = @ /\ \A i \in DOMAIN s : s[i].op # "IMM"]
PutImm(f, v) == Put(f, <<Imm(v)>>)
PutOp(f, op) == Put(f, <<Ins(op)>>)

\* n fresh labels, f.lab onwards, and one fresh frame word, f.used.
Labels(f, n) == IF f.lab + n > MaxLabels THEN Fail(f) ELSE [f EXCEPT !.lab = @ + n]
Temp(f) == IF f.used >= MemWords THEN Fail(f) ELSE [f EXCEPT !.used = @ + 1]

-----------------------------------------------------------------------------
(* The tables: names, classes, enumeration constants, functions. *)

Find(seq, name) == SelectInSeq(seq, LAMBDA e : e.name = name)
lookup(f, name) == Find(f.names, name)
find_class(f, name) == Find(f.classes, name)
find_enum(f, name) == Find(f.enums, name)
find_fn(f, name) == Find(f.fns, name)

WordsFor(nelem, stride) ==
    CASE stride = 1 -> (nelem + 7) \div 8
      [] stride = 4 -> (nelem * 4 + 7) \div 8
      [] stride > 8 -> ((stride + 7) \div 8) * nelem
      [] OTHER -> nelem

Name(name, base, nelem, stride, glob) ==
    [name |-> name, base |-> base, count |-> nelem, stride |-> stride,
     type |-> 0, ptr |-> FALSE, glob |-> glob, f64 |-> FALSE]

\* A second declaration of a name is the first one again.
decl_n(f, name, nelem, stride) ==
    IF f.err \/ lookup(f, name) # 0 THEN f
    ELSE IF nelem < 1 \/ stride < 1 \/ Len(f.names) >= MaxNames
              \/ f.used + WordsFor(nelem, stride) > MemWords THEN Fail(f)
    ELSE [f EXCEPT !.names = Append(@, Name(name, f.used, nelem, stride, FALSE)),
                   !.used = @ + WordsFor(nelem, stride)]
decl_global_n(f, name, nelem, stride) ==
    IF f.err \/ lookup(f, name) # 0 THEN f
    ELSE IF nelem < 1 \/ stride < 1 \/ Len(f.names) >= MaxNames
              \/ f.glob + WordsFor(nelem, stride) > MaxGlobs
              \/ f.glob + WordsFor(nelem, stride) > MemWords THEN Fail(f)
    ELSE [f EXCEPT !.names = Append(@, Name(name, f.glob, nelem, stride, TRUE)),
                   !.glob = @ + WordsFor(nelem, stride)]
decl_class(f, name, ci, as_ptr) ==
    LET words == IF as_ptr THEN 1 ELSE Max2(1, (f.classes[ci].size + 7) \div 8)
        g == decl_n(f, name, words, 8)
    IN IF g.err THEN g
       ELSE [g EXCEPT !.names[lookup(g, name)].type = ci,
                      !.names[lookup(g, name)].ptr = as_ptr]

\* The goto label of a name: f.glabs pairs names with label numbers.
get_glab(f, name) ==
    IF Find(f.glabs, name) # 0 THEN f
    ELSE LET g == Labels(f, 1)
         IN IF g.err THEN g
            ELSE [g EXCEPT !.glabs = Append(@, [name |-> name, id |-> f.lab])]
GlabId(f, name) == f.glabs[Find(f.glabs, name)].id

add_enum(f, name, val) ==
    IF Len(f.enums) >= MaxEnums \/ find_enum(f, name) # 0 \/ lookup(f, name) # 0
    THEN Fail(f)
    ELSE [f EXCEPT !.enums = Append(@, [name |-> name, val |-> val])]

-----------------------------------------------------------------------------
(* Loads, stores and conversions. *)

LoadOp(stride) == CASE stride = 1 -> "LOAD8" [] stride = 4 -> "LOAD32" [] OTHER -> "LOAD"
StoreOp(stride) == CASE stride = 1 -> "STORE8" [] stride = 4 -> "STORE32" [] OTHER -> "STORE"

var_addr(f, id) ==
    Put(f, <<Ins1(IF f.names[id].glob THEN "ABS_ADDR" ELSE "SLOT_ADDR", f.names[id].base)>>)
var_ld(f, id) ==
    Put(f, <<Ins1(IF f.names[id].glob THEN "LD_ABS" ELSE "LD_SLOT", f.names[id].base)>>)
var_st(f, id) ==
    Put(f, <<Ins1(IF f.names[id].glob THEN "ST_ABS" ELSE "ST_SLOT", f.names[id].base)>>)

is_u32_scalar(f, id) ==
    LET n == f.names[id] IN ~n.ptr /\ n.type = 0 /\ n.stride = 4 /\ n.count = 1
trunc32(f) == Put(f, <<Imm(U32Mask), Ins("AND")>>)
ld_named(f, id) ==
    LET g == var_ld(f, id)
        h == IF is_u32_scalar(f, id) THEN trunc32(g) ELSE g
    IN IF h.err THEN h ELSE SetF64(h, f.names[id].f64)
st_named(f, id) == IF f.err THEN f
                   ELSE var_st(IF is_u32_scalar(f, id) THEN trunc32(f) ELSE f, id)

\* The value on the stack becomes an F64 if it is not one.
ToF64(f) == IF f.err \/ f.f64 THEN f ELSE SetF64(PutOp(f, "I2F"), TRUE)
ToI64(f) == IF f.err \/ ~f.f64 THEN f ELSE SetF64(PutOp(f, "F2I"), FALSE)
\* The value to be stored into an F64 is promoted; an F64 into an I64 is refused.
Coerce(f, want) == IF want THEN ToF64(f) ELSE IF f.f64 THEN Fail(f) ELSE f

FOpOf == [ADD |-> "FADD", SUB |-> "FSUB", MUL |-> "FMUL", DIV |-> "FDIV",
          EQ |-> "FEQ", NE |-> "FNE", LT |-> "FLT", LE |-> "FLE", GT |-> "FGT", GE |-> "FGE"]

\* The two operands are on the stack, the left one an F64 iff left: the I64
\* of a mixed pair is promoted in place.
Operate(f, left, op) ==
    CASE f.err -> f
      [] ~left /\ ~f.f64 -> SetF64(PutOp(f, op), FALSE)
      [] op \notin DOMAIN FOpOf -> Fail(f)
      [] OTHER ->
           LET g == CASE left /\ f.f64 -> f
                      [] left -> PutOp(f, "I2F")
                      [] OTHER -> Put(f, <<Ins("SWAP"), Ins("I2F"), Ins("SWAP")>>)
           IN SetF64(PutOp(g, FOpOf[op]), op \notin CmpOps)

\* parse_int_lit: <<state, value>>.
RECURSIVE int_lit(_)
int_lit(f) ==
    CASE Tok(f) \in DOMAIN IntLit -> <<Adv(f), IntLit[Tok(f)]>>
      [] Tok(f) = "-" -> LET r == int_lit(Adv(f)) IN <<r[1], -r[2]>>
      [] OTHER -> <<Fail(f), 0>>

NamedCase ==
    ("MESSAGE_NULL" :> 0 @@ "MESSAGE_KEY_DOWN" :> 2 @@ "MESSAGE_KEY_UP" :> 3
     @@ "MESSAGE_MS_MOVE" :> 4 @@ "MESSAGE_MS_L_DOWN" :> 5 @@ "MESSAGE_MS_L_UP" :> 6
     @@ "MESSAGE_MS_R_DOWN" :> 7 @@ "MESSAGE_MS_R_UP" :> 8 @@ "CH_SHIFT_ESC" :> 28
     @@ "CH_ESC" :> 27 @@ "CH_SPACE" :> 32 @@ "SC_CURSOR_UP" :> 72
     @@ "SC_CURSOR_DOWN" :> 80 @@ "SC_CURSOR_LEFT" :> 75 @@ "SC_CURSOR_RIGHT" :> 77
     @@ "STR_LEN" :> 136)

\* parse_case_val: a literal, an enumeration constant or one of the above.
case_val(f) ==
    LET r == int_lit(f)
        e == find_enum(f, Tok(f))
    IN CASE f.err -> <<f, 0>>
         [] ~r[1].err -> r
         [] ~IsIdent(Tok(f)) -> <<Fail(f), 0>>
         [] e # 0 -> <<Adv(f), f.enums[e].val>>
         [] Tok(f) \in DOMAIN NamedCase -> <<Adv(f), NamedCase[Tok(f)]>>
         [] OTHER -> <<Fail(f), 0>>

-----------------------------------------------------------------------------
(* Members, elements and stores through an address. *)

RECURSIVE prim(_), expr(_), stmt(_)

Field(name, off, stride, type, f64) ==
    [name |-> name, off |-> off, stride |-> stride, type |-> type, f64 |-> f64]
NoField == Field("", 0, 8, 0, FALSE)

\* .m1.m2: the address on the stack becomes that of the last field.
RECURSIVE members_from(_, _)
members_from(f, ci) ==
    LET mems == f.classes[ci].mems
        k == Find(mems, Tok(f))
        g == IF f.err \/ k = 0 THEN Fail(f)
             ELSE Put(Adv(f), <<Imm(mems[k].off), Ins("ADD")>>)
    IN CASE g.err -> <<g, NoField>>
         [] Tok(g) # "." -> <<g, mems[k]>>
         [] mems[k].type = 0 -> <<Fail(g), NoField>>
         [] OTHER -> members_from(Adv(g), mems[k].type)
dot_addr(f, id) ==
    IF f.err \/ f.names[id].ptr \/ f.names[id].type = 0 THEN <<Fail(f), NoField>>
    ELSE members_from(var_addr(f, id), f.names[id].type)
arrow_addr(f, id) ==
    IF f.err \/ ~f.names[id].ptr \/ f.names[id].type = 0 THEN <<Fail(f), NoField>>
    ELSE members_from(var_ld(f, id), f.names[id].type)

\* A field of a class type stays an address.
load_field(r) ==
    IF r[1].err \/ r[2].type # 0 THEN r[1]
    ELSE SetF64(PutOp(r[1], LoadOp(r[2].stride)), r[2].f64)

\* name[e], after the bracket: the address of the element.
index_addr(f, id) ==
    LET n == f.names[id]
        g == Expect(expr(IF n.ptr THEN var_ld(f, id) ELSE var_addr(f, id)), "]")
    IN Put(g, <<Imm(n.stride), Ins("MUL"), Ins("ADD")>>)

ElemAddr(f, id, i) ==
    Put(var_addr(f, id), <<Imm(i), Imm(f.names[id].stride), Ins("MUL"), Ins("ADD")>>)
ZeroElem(f, id, i) ==
    Put(ElemAddr(f, id, i), <<Imm(0), Ins(StoreOp(f.names[id].stride))>>)

\* { e0, e1, ... }: the elements from i on, then zeros.
RECURSIVE brace_init(_, _, _)
brace_init(f, id, i) ==
    LET n == f.names[id]
        g == PutOp(expr(ElemAddr(f, id, i)), StoreOp(n.stride))
    IN CASE f.err -> f
         [] Tok(f) = "}" -> FoldLeft(LAMBDA h, k : ZeroElem(h, id, i + k - 1), Adv(f),
                                     [k \in 1..(n.count - i) |-> k])
         [] i >= n.count -> Fail(f)
         [] Tok(g) = "," -> brace_init(Adv(g), id, i + 1)
         [] Tok(g) = "}" -> brace_init(g, id, i + 1)
         [] OTHER -> Fail(g)

\* What a compound assignment computes.
AssignOps == "+=" :> "ADD" @@ "-=" :> "SUB" @@ "*=" :> "MUL"
AssignOp(op, f64) == IF f64 THEN FOpOf[AssignOps[op]] ELSE AssignOps[op]

\* The address is on the stack and the operator is next.
finish_mem_assign(f, fld) ==
    LET op == Tok(f)
        load == <<Ins("DUP"), Ins(LoadOp(fld.stride))>>
        g == CASE f.err -> f
               [] op = "=" -> Coerce(expr(Adv(f)), fld.f64)
               [] op \in DOMAIN AssignOps ->
                    LET v == expr(Put(Adv(f), load))
                    IN PutOp(IF fld.f64 THEN ToF64(v) ELSE v, AssignOp(op, fld.f64))
               [] OTHER -> Fail(f)
    IN Expect(PutOp(g, StoreOp(fld.stride)), ";")
finish_mem_incdec(f, fld) ==
    LET op == AssignOp(IF Tok(f) = "++" THEN "+=" ELSE "-=", fld.f64)
    IN Expect(Put(Adv(f), <<Ins("DUP"), Ins(LoadOp(fld.stride)),
                            Imm(IF fld.f64 THEN FBits(FOne) ELSE 1), Ins(op),
                            Ins(StoreOp(fld.stride))>>), ";")

-----------------------------------------------------------------------------
(* Primaries: literals and operators. *)

\* The scalar types and their size; U0 has none.
TypeSize ==
    "U8" :> 1 @@ "u8" :> 1 @@ "U32" :> 4 @@ "u32" :> 4 @@ "F64" :> 8 @@ "f64" :> 8
    @@ "I64" :> 8 @@ "i64" :> 8 @@ "Bool" :> 8 @@ "bool" :> 8 @@ "U0" :> 0 @@ "u0" :> 0
IsF64Type(t) == t \in {"F64", "f64"}
IsU0Type(t) == t \in {"U0", "u0"}

SizeOfName(f, n) == CASE n.ptr -> 8
                      [] n.type # 0 -> f.classes[n.type].size
                      [] OTHER -> n.stride * n.count
prim_sizeof(f) ==
    LET g == IfTok(f, "(")
        t == Tok(g)
        ci == find_class(g, t)
        id == lookup(g, t)
        h == IF Tok(f) = "(" THEN Expect(Adv(g), ")") ELSE Adv(g)
    IN CASE t \in DOMAIN TypeSize -> PutImm(h, TypeSize[t])
         [] ci # 0 -> PutImm(h, g.classes[ci].size)
         [] id # 0 -> PutImm(h, SizeOfName(g, g.names[id]))
         [] OTHER -> Fail(g)

\* &name, &name[e], &name.m and the code of a function.
prim_addr(f) ==
    LET id == lookup(f, Tok(f))
        fi == find_fn(f, Tok(f))
        g == Adv(f)
    IN CASE id = 0 /\ fi = 0 -> Fail(f)
         [] id = 0 -> PutImm(g, CodeBase + fi)
         [] Tok(g) = "[" -> index_addr(Adv(g), id)
         [] Tok(g) = "." -> dot_addr(Adv(g), id)[1]
         [] OTHER -> var_addr(g, id)

\* *name of a pointer has the width of what it points to, *e is a word.
prim_deref(f) ==
    LET id == lookup(f, Tok(f))
        g == Adv(f)
    IN IF id # 0 /\ f.names[id].ptr /\ Tok(g) \notin {".", "[", "->"}
       THEN PutOp(ld_named(g, id), LoadOp(f.names[id].stride))
       ELSE PutOp(prim(f), "LOAD")

\* ip.frac is the quotient of two integers plus a third.
f64_dec(f, r) ==
    LET frac == <<Imm(r[2]), Ins("I2F"), Imm(10^r[3]), Ins("I2F"), Ins("FDIV"), Ins("FADD")>>
    IN SetF64(Put(f, <<Imm(r[1]), Ins("I2F")>> \o (IF r[3] > 0 THEN frac ELSE <<>>)), TRUE)

\* Adjacent string literals are one: <<state, characters>>.
RECURSIVE str_lits(_)
str_lits(f) ==
    IF Tok(f) \notin DOMAIN StrLit THEN <<f, <<>>>>
    ELSE LET r == str_lits(Adv(f)) IN <<r[1], StrLit[Tok(f)] \o r[2]>>

\* Strings grow down from the top of g_hc_mem; globals and frames grow up.
\* The bytes of the last word after the terminator keep their old values.
prim_string(f) ==
    LET r == str_lits(f)
        n == Len(r[2])
        words == (n + 8) \div 8
        top == f.str - words
        store == [at |-> MemBase + 8 * top, bytes |-> Append(r[2], 0)]
        g == PutImm([r[1] EXCEPT !.str = top, !.stores = Append(@, store)], store.at)
    IN CASE f.str < words \/ f.glob + f.used + words > MemWords -> Fail(f)
         [] Tok(g) = "[" -> Put(Expect(expr(Adv(g)), "]"),
                                <<Imm(1), Ins("MUL"), Ins("ADD"), Ins("LOAD8")>>)
         [] OTHER -> g

-----------------------------------------------------------------------------
(* Calls. *)

\* The built-ins that stand for window and document set-up do nothing.
lattice_nop0 == {"SettingsPush", "SettingsPop", "AutoComplete", "WinBorder",
                 "WinMax", "DocCursor", "DocClear", "PutExcept"}
\* The built-ins of the kernel and the argument counts they accept.
F64Host == "Cos" :> {1} @@ "Sin" :> {1} @@ "Sqrt" :> {1} @@ "Wrap" :> {1, 2}
           @@ "Arg" :> {2} @@ "FAbs" :> {1}
LatticeHost == "DCAlias" :> {0} @@ "Refresh" :> {0} @@ "DCFill" :> {1} @@ "DCDel" :> {1}
               @@ "DCDepthBufAlloc" :> {1} @@ "DCDepthBufReset" :> {1}
               @@ "PopUpColor" :> {1} @@ "MessageGet" :> {3} @@ "MsgQuePush" :> {3}
               @@ "MenuPush" :> {1} @@ "MenuPop" :> {0} @@ "MenuEntryFind" :> {2}
MathHost == "Min" :> {2} @@ "Max" :> {2} @@ "Sign" :> {1} @@ "Clamp" :> {3} @@ "Sqr" :> {1}
DrawHost == "PutPixel" :> {3} @@ "GrPlot" :> {3} @@ "GrPlot3" :> {4} @@ "GrPeek" :> {2, 3}
            @@ "Cls" :> {1} @@ "FillRect" :> {5} @@ "GrLine" :> {5, 6} @@ "GrLine3" :> {7}
            @@ "GrHLine" :> {4} @@ "GrVLine" :> {4} @@ "GrCircle" :> {4}
            @@ "GrFillCircle" :> {4}
TextHost == "PutChar" :> {1} @@ "Print" :> {1} @@ "PrintAt" :> {3} @@ "PrintI64" :> {1}
            @@ "StrLen" :> {1} @@ "StrCmp" :> {2} @@ "StrCpy" :> {2} @@ "StrCat" :> {2}
            @@ "StrNew" :> {1} @@ "CatPrint" :> {4} @@ "MStrPrint" :> {3}
            @@ "Str2I64" :> {1} @@ "HashStr" :> {1}
DeviceHost == "MemCpy" :> {3} @@ "MemCopy" :> {3} @@ "MemSet" :> {3} @@ "MAlloc" :> {1}
              @@ "Free" :> {1} @@ "MouseX" :> {0} @@ "MouseY" :> {0} @@ "MouseBtn" :> {0}
              @@ "MouseDX" :> {0} @@ "MouseDY" :> {0} @@ "FbW" :> {0} @@ "FbH" :> {0}
              @@ "Rand" :> {0} @@ "Sleep" :> {1} @@ "Cnt" :> {0} @@ "CntFrq" :> {0}
              @@ "KeyHit" :> {0} @@ "GetKey" :> {0} @@ "Call0" :> {1} @@ "Call1" :> {2}
              @@ "BlkWrite" :> {3} @@ "BlkRead" :> {3}
PlainHost == MathHost @@ DrawHost @@ TextHost @@ DeviceHost
\* These truncate F64 coordinates where they are passed.
CoercingHost == {"GrPlot", "GrPlot3", "GrLine", "GrLine3"}

\* The arguments up to the parenthesis, an omitted one is 0: <<state, count>>.
RECURSIVE args(_, _, _)
args(f, n, coerce) ==
    LET g == expr(f)
        h == IF coerce THEN ToI64(g) ELSE g
    IN CASE f.err -> <<f, n>>
         [] Tok(f) = ")" -> <<Adv(f), n>>
         [] Tok(f) = "," -> args(Adv(PutImm(f, 0)), n + 1, coerce)
         [] Tok(h) = "," -> args(Adv(h), n + 1, coerce)
         [] OTHER -> <<Expect(h, ")"), n + 1>>

host(f, name, n) == Put(f, <<Ins2("HOST", name, n)>>)

\* Format arguments after the fourth are spilled to consecutive frame words.
gr_print(f, n) ==
    LET k == n - 4
        spill == [i \in 1..k |-> Ins1("ST_SLOT", f.used + k - i)]
        g == [f EXCEPT !.used = @ + k]
    IN CASE n < 4 \/ f.used + k > MemWords -> Fail(f)
         [] n = 4 -> SetF64(host(f, "GrPrint", 4), FALSE)
         [] OTHER -> SetF64(host(Put(g, spill \o <<Ins1("SLOT_ADDR", f.used), Imm(k)>>),
                                 "GrPrintN", 6), FALSE)
str_print(f, n) ==
    IF n \notin 2..4 THEN Fail(f)
    ELSE host(Put(f, [i \in 1..(4 - n) |-> Imm(0)]), "StrPrint", 4)

\* A call of a function compiled before this one; its result is an I64.
user_call(f, name, n) ==
    LET fi == find_fn(f, name)
    IN IF fi = 0 \/ n > 6 THEN Fail(f)
       ELSE IF f.fns[fi].nargs # n THEN Fail(f)
       ELSE SetF64(Put(f, <<Ins2("CALL", CodeBase + fi, n)>>), FALSE)

call(f, name, n) ==
    CASE f.err \/ n > (IF name = "GrPrint" THEN 9 ELSE 7) -> Fail(f)
      [] name \in lattice_nop0 -> IF n # 0 THEN Fail(f) ELSE SetF64(host(f, "Nop0", 0), FALSE)
      [] name = "ToI64" -> IF n # 1 THEN Fail(f) ELSE ToI64(f)
      [] name = "ToF64" -> IF n # 1 THEN Fail(f) ELSE ToF64(f)
      [] name \in DOMAIN F64Host ->
           IF n \notin F64Host[name] THEN Fail(f) ELSE SetF64(host(ToF64(f), name, n), TRUE)
      [] name \in {"Abs", "AbsI64"} ->
           IF n # 1 THEN Fail(f) ELSE host(ToI64(f), "Abs", 1)
      [] name \in DOMAIN LatticeHost ->
           IF n \notin LatticeHost[name] THEN Fail(f) ELSE SetF64(host(f, name, n), FALSE)
      [] name = "GrPrint" -> gr_print(f, n)
      [] name = "StrPrint" -> str_print(f, n)
      [] name \in DOMAIN PlainHost ->
           IF n \notin PlainHost[name] THEN Fail(f) ELSE host(f, name, n)
      [] OTHER -> user_call(f, name, n)

-----------------------------------------------------------------------------
(* Names. *)

FsWord == "cur_menu" :> 0 @@ "win_inhibit" :> 8 @@ "draw_it" :> 16
FsHost == "pix_width" :> "FsPixWidth" @@ "pix_height" :> "FsPixHeight"
fs_field(f) ==
    LET g == Expect(f, "->")
        m == Tok(g)
    IN CASE g.err -> g
         [] m \in DOMAIN FsHost -> SetF64(host(Adv(g), FsHost[m], 0), FALSE)
         [] m \in DOMAIN FsWord -> Put(Adv(g), <<Imm(FsBase + FsWord[m]), Ins("LOAD")>>)
         [] OTHER -> Fail(g)

Palette == "BLACK" :> 0 @@ "BLUE" :> 1 @@ "GREEN" :> 2 @@ "CYAN" :> 3 @@ "RED" :> 4
           @@ "PURPLE" :> 5 @@ "BROWN" :> 6 @@ "LTGRAY" :> 7 @@ "DKGRAY" :> 8
           @@ "LTBLUE" :> 9 @@ "LTGREEN" :> 10 @@ "LTCYAN" :> 11 @@ "LTRED" :> 12
           @@ "LTPURPLE" :> 13 @@ "YELLOW" :> 14 @@ "WHITE" :> 15
WinFlags == "WIF_SELF_FOCUS" :> 1 @@ "WIF_SELF_GRAB_SCROLL" :> 512
            @@ "WIF_FOCUS_TASK_MENU" :> 131072 @@ "WIG_TASK_DEFAULT" :> 5436415
KernelConst == Palette @@ NamedCase @@ WinFlags

\* A name that is no variable, without parentheses.
prim_free_name(f) ==
    LET t == Tok(f)
        g == Adv(f)
        ei == find_enum(f, t)
        fi == find_fn(f, t)
    IN CASE ei # 0 -> PutImm(g, f.enums[ei].val)
         [] fi # 0 /\ f.fns[Max2(fi, 1)].nargs = 0 -> user_call(g, t, 0)
         [] t \in {"DCAlias", "Refresh", "MenuPop"} \cup lattice_nop0 -> call(g, t, 0)
         [] t = "Fs" -> fs_field(g)
         [] t \in DOMAIN KernelConst -> PutImm(g, KernelConst[t])
         [] OTHER -> Fail(f)

\* x.u8[e] and the like: a field of the bits of a scalar.
ViewBits == "u8" :> 8 @@ "i8" :> 8 @@ "u16" :> 16 @@ "i16" :> 16 @@ "u32" :> 24 @@ "i32" :> 24
prim_view(f, id) ==
    LET bits == ViewBits[Tok(f)]
        signed == Tok(f) \in {"i8", "i16", "i32"}
        sign == 2^(bits - 1)
        g == Expect(expr(ld_named(Adv(Adv(f)), id)), "]")
    IN Put(g, <<Imm(bits), Ins("MUL"), Ins("SHR"), Imm(2^bits - 1), Ins("AND")>>
              \o (IF signed THEN <<Imm(sign), Ins("XOR"), Imm(sign), Ins("SUB")>> ELSE <<>>))

\* A variable, an element, a field; arrays and objects stand for their address.
prim_var(f, id) ==
    LET n == f.names[id]
        g == Adv(f)
        scalar == n.type = 0 /\ ~n.ptr /\ n.count <= 1
        view == scalar /\ Tok(Adv(g)) \in DOMAIN ViewBits /\ Tok(Adv(Adv(g))) = "["
    IN CASE Tok(g) = "[" ->
              SetF64(PutOp(index_addr(Adv(g), id), LoadOp(n.stride)), n.f64)
         [] Tok(g) = "." /\ view -> prim_view(Adv(g), id)
         [] Tok(g) = "." -> load_field(dot_addr(Adv(g), id))
         [] Tok(g) = "->" -> load_field(arrow_addr(Adv(g), id))
         [] ~n.ptr /\ (n.count > 1 \/ n.type # 0) -> var_addr(g, id)
         [] OTHER -> ld_named(g, id)

prim_name(f) ==
    LET t == Tok(f)
        id == lookup(f, t)
        r == args(Adv(Adv(f)), 0, t \in CoercingHost)
    IN CASE t \in {"TRUE", "true"} -> PutImm(Adv(f), 1)
         [] t \in {"FALSE", "false", "NULL"} -> PutImm(Adv(f), 0)
         [] t = PiTok -> SetF64(PutImm(Adv(f), PiBits), TRUE)
         [] Tok(Adv(f)) = "(" -> call(r[1], t, r[2])
         [] id = 0 -> prim_free_name(f)
         [] OTHER -> prim_var(f, id)

prim(f) ==
    LET t == Tok(f)
        g == prim(Adv(f))
    IN CASE f.err -> f
         [] t = "(" -> Expect(expr(Adv(f)), ")")
         [] t = "sizeof" -> prim_sizeof(Adv(f))
         [] t = "-" -> PutOp(g, IF g.f64 THEN "FNEG" ELSE "NEG")
         [] t = "!" -> Put(g, <<Imm(0), Ins("EQ")>>)
         [] t = "&" -> prim_addr(Adv(f))
         [] t = "*" -> prim_deref(Adv(f))
         [] t \in DOMAIN IntLit -> PutImm(Adv(f), IntLit[t])
         [] t \in DOMAIN RealLit -> f64_dec(Adv(f), RealLit[t])
         [] t \in DOMAIN StrLit -> prim_string(f)
         [] IsIdent(t) -> prim_name(f)
         [] OTHER -> Fail(f)

-----------------------------------------------------------------------------
(* Expressions, by binding strength. *)

TermOps == "*" :> "MUL" @@ "/" :> "DIV" @@ "%" :> "MOD"
SumOps == "+" :> "ADD" @@ "-" :> "SUB"
CompareOps == "==" :> "EQ" @@ "!=" :> "NE" @@ "<" :> "LT" @@ "<=" :> "LE"
              @@ ">" :> "GT" @@ ">=" :> "GE"
\* Shifts bind tighter than &, & than ^, ^ than |; none takes an F64.
IntOps == <<"<<" :> "SHL" @@ ">>" :> "ASR", "&" :> "AND", "^" :> "XOR", "|" :> "OR">>

RECURSIVE term_rest(_)
term_rest(f) ==
    IF f.err \/ Tok(f) \notin DOMAIN TermOps THEN f
    ELSE term_rest(Operate(prim(Adv(f)), f.f64, TermOps[Tok(f)]))
term(f) == term_rest(prim(f))

RECURSIVE add_rest(_)
add_rest(f) ==
    IF f.err \/ Tok(f) \notin DOMAIN SumOps THEN f
    ELSE add_rest(Operate(term(Adv(f)), f.f64, SumOps[Tok(f)]))
add(f) == add_rest(term(f))

RECURSIVE int_level(_, _), int_rest(_, _)
int_rest(f, k) ==
    IF f.err \/ Tok(f) \notin DOMAIN IntOps[k] THEN f
    ELSE LET g == int_level(Adv(f), k - 1)
         IN IF f.f64 \/ g.f64 THEN Fail(g) ELSE int_rest(PutOp(g, IntOps[k][Tok(f)]), k)
int_level(f, k) == IF k = 0 THEN add(f) ELSE int_rest(int_level(f, k - 1), k)

\* One comparison at most; its value is an I64.
cmp(f) ==
    LET g == int_level(f, 4)
    IN IF g.err \/ Tok(g) \notin DOMAIN CompareOps THEN g
       ELSE Operate(int_level(Adv(g), 4), g.f64, CompareOps[Tok(g)])

\* Both ways into the second label leave the truth value in a frame word, so
\* that the depth of the stack is the same on both.
\* Mutant: the value of each way is left on the stack.
MergeOnStack(f, tmp, lab, v) ==
    Put(f, <<Imm(v), Ins1("JMP", lab + 1), Ins1("LABEL", lab), Imm(1 - v), Ins1("LABEL", lab + 1)>>)
Merge(f, tmp, lab, v) ==
    Put(f, <<Imm(v), Ins1("ST_SLOT", tmp), Ins1("JMP", lab + 1), Ins1("LABEL", lab),
             Imm(1 - v), Ins1("ST_SLOT", tmp), Ins1("LABEL", lab + 1), Ins1("LD_SLOT", tmp)>>)

RECURSIVE land_rest(_)
land_rest(f) ==
    IF f.err \/ Tok(f) # "&&" THEN f
    ELSE LET g == Put(Labels(Temp(Adv(f)), 2), <<Ins1("JZ", f.lab)>>)
         IN land_rest(Merge(Put(cmp(g), <<Ins1("JZ", f.lab)>>), f.used, f.lab, 1))
land(f) == land_rest(cmp(f))

RECURSIVE lor_rest(_)
lor_rest(f) ==
    IF f.err \/ Tok(f) # "||" THEN f
    ELSE LET g == Put(Labels(Temp(Adv(f)), 2), <<Ins1("JNZ", f.lab)>>)
         IN lor_rest(Merge(Put(land(g), <<Ins1("JNZ", f.lab)>>), f.used, f.lab, 0))
lor(f) == lor_rest(land(f))

ternary(f) ==
    IF f.err \/ Tok(f) # "?" THEN f
    ELSE LET tmp == f.used
             yes == expr(Put(Labels(Temp(Adv(f)), 2), <<Ins1("JZ", f.lab)>>))
             mid == Put(yes, <<Ins1("ST_SLOT", tmp), Ins1("JMP", f.lab + 1),
                               Ins1("LABEL", f.lab)>>)
         IN Put(expr(Expect(mid, ":")),
                <<Ins1("ST_SLOT", tmp), Ins1("LABEL", f.lab + 1), Ins1("LD_SLOT", tmp)>>)

\* name = e as a value: the value stays on the stack.
assign_value(f, id) == st_named(PutOp(Coerce(expr(f), f.names[id].f64), "DUP"), id)
\* So does that of name.m = e, through a frame word.
assign_field_value(r) ==
    LET g == Coerce(expr(Adv(r[1])), r[2].f64)
        slot == g.used
    IN SetF64(Put(Temp(g), <<Ins1("ST_SLOT", slot), Ins1("LD_SLOT", slot),
                             Ins(StoreOp(r[2].stride)), Ins1("LD_SLOT", slot)>>), r[2].f64)

\* A member access is tried as the target of an assignment first; what the
\* trial emitted is taken back if no = follows.
expr(f) ==
    LET id == lookup(f, Tok(f))
        g == Adv(f)
        probe == IF Tok(g) = "." THEN dot_addr(Adv(g), id) ELSE arrow_addr(Adv(g), id)
    IN CASE f.err -> f
         [] id # 0 /\ Tok(g) = "=" -> assign_value(Adv(g), id)
         [] id # 0 /\ Tok(g) \in {".", "->"} ->
              IF ~probe[1].err /\ probe[2].type = 0 /\ Tok(probe[1]) = "="
              THEN assign_field_value(probe)
              ELSE ternary(lor(SetF64(f, probe[1].f64)))
         [] OTHER -> ternary(lor(f))

-----------------------------------------------------------------------------
(* Statements. *)

RECURSIVE block_rest(_)
block_rest(f) ==
    CASE f.err -> f
      [] Tok(f) = "}" -> Adv(f)
      [] OTHER -> block_rest(stmt(f))
block(f) == block_rest(Expect(f, "{"))

stmt_return(f) ==
    IF Tok(f) = ";" THEN Put(Adv(f), <<Imm(0), Ins("RET")>>)
    ELSE Expect(PutOp(expr(f), "RET"), ";")

stmt_if(f) ==
    LET cond == ToI64(Expect(expr(Expect(Labels(f, 2), "(")), ")"))
        yes == stmt(Put(cond, <<Ins1("JZ", f.lab)>>))
        mid == Put(yes, <<Ins1("JMP", f.lab + 1), Ins1("LABEL", f.lab)>>)
    IN Put(IF Tok(mid) = "else" THEN stmt(Adv(mid)) ELSE mid, <<Ins1("LABEL", f.lab + 1)>>)

\* The body of a loop, with the targets of break and continue.
\* Mutant: break goes where continue should.
SwappedTargets(f, brk, cont) ==
    IF f.err \/ Len(f.brk) >= MaxLoops \/ Len(f.cont) >= MaxLoops THEN Fail(f)
    ELSE [stmt([f EXCEPT !.brk = Append(@, cont), !.cont = Append(@, brk)])
            EXCEPT !.brk = f.brk, !.cont = f.cont]
loop_body(f, brk, cont) ==
    IF f.err \/ Len(f.brk) >= MaxLoops \/ Len(f.cont) >= MaxLoops THEN Fail(f)
    ELSE [stmt([f EXCEPT !.brk = Append(@, brk), !.cont = Append(@, cont)])
            EXCEPT !.brk = f.brk, !.cont = f.cont]

stmt_while(f) ==
    LET top == f.lab
        end == f.lab + 1
        cond == Expect(expr(Expect(Put(Labels(f, 2), <<Ins1("LABEL", top)>>), "(")), ")")
    IN Put(loop_body(Put(cond, <<Ins1("JZ", end)>>), end, top),
           <<Ins1("JMP", top), Ins1("LABEL", end)>>)

stmt_do(f) ==
    LET body == loop_body(Put(Labels(f, 3), <<Ins1("LABEL", f.lab)>>), f.lab + 2, f.lab + 1)
        g == Put(Expect(Expect(body, "while"), "("), <<Ins1("LABEL", f.lab + 1)>>)
        cond == Expect(Expect(expr(g), ")"), ";")
    IN Put(cond, <<Ins1("JNZ", f.lab), Ins1("LABEL", f.lab + 2)>>)

\* name++ and name--.
incdec(f, id) ==
    st_named(Put(ld_named(Adv(f), id), <<Imm(1), Ins(IF Tok(f) = "++" THEN "ADD" ELSE "SUB")>>), id)

for_step(f) ==
    LET id == lookup(f, Tok(f))
        g == Adv(f)
        op == Tok(g)
    IN CASE f.err \/ Tok(f) = ")" -> f
         [] Tok(f) = "*" -> PutOp(expr(Expect(prim(g), "=")), "STORE")
         [] id # 0 /\ op \in {"++", "--"} -> incdec(g, id)
         [] id # 0 /\ op = "=" -> st_named(expr(Adv(g)), id)
         [] id # 0 /\ op \in DOMAIN AssignOps ->
              st_named(PutOp(expr(ld_named(Adv(g), id)), AssignOp(op, f.names[id].f64)), id)
         [] OTHER -> PutOp(expr(f), "DROP")

\* init; top: cond; JZ end; JMP body; step: step; JMP top; body: body; JMP step; end:
stmt_for(f) ==
    LET end == f.lab + 1
        g == Expect(Labels(f, 2), "(")
        init == Put(IF Tok(g) = ";" THEN Adv(g) ELSE stmt(g), <<Ins1("LABEL", f.lab)>>)
        cond == Expect(IF Tok(init) = ";" THEN PutImm(init, 1) ELSE expr(init), ";")
        body == cond.lab
        h == Labels(Put(cond, <<Ins1("JZ", end)>>), 2)
        step == for_step(Put(h, <<Ins1("JMP", body), Ins1("LABEL", body + 1)>>))
        k == Put(Expect(Put(step, <<Ins1("JMP", f.lab)>>), ")"), <<Ins1("LABEL", body)>>)
    IN Put(loop_body(k, end, body + 1), <<Ins1("JMP", body + 1), Ins1("LABEL", end)>>)

\* Cases and statements up to the brace; def is the label of default, or -1.
RECURSIVE switch_body(_, _, _)
switch_body(f, cases, def) ==
    LET lo == case_val(Adv(f))
        hi == IF Tok(lo[1]) = "..." THEN case_val(Adv(lo[1])) ELSE lo
        c == Labels(Expect(hi[1], ":"), 1)
        d == Labels(Expect(Adv(f), ":"), 1)
        lab == <<Ins1("LABEL", f.lab)>>
    IN CASE f.err -> [f |-> f, cases |-> cases, def |-> def]
         [] Tok(f) = "}" -> [f |-> Adv(f), cases |-> cases, def |-> def]
         [] Tok(f) = "case" ->
              switch_body(IF Len(cases) >= MaxCases THEN Fail(c) ELSE Put(c, lab),
                          Append(cases, [lo |-> lo[2], hi |-> hi[2], lab |-> f.lab]), def)
         [] Tok(f) = "default" ->
              switch_body(IF def # -1 THEN Fail(d) ELSE Put(d, lab), cases, f.lab)
         [] OTHER -> switch_body(stmt(f), cases, def)

CaseTest(tmp, c) ==
    (IF c.lo = c.hi THEN <<Ins1("LD_SLOT", tmp), Imm(c.lo), Ins("EQ")>>
     ELSE <<Ins1("LD_SLOT", tmp), Imm(c.lo), Ins("GE"),
            Ins1("LD_SLOT", tmp), Imm(c.hi), Ins("LE"), Ins("AND")>>)
    \o <<Ins1("JNZ", c.lab)>>

\* The bodies come first, then the dispatch on the value saved in a frame word.
stmt_switch(f) ==
    LET disp == f.lab
        end == f.lab + 1
        v == Expect(expr(Expect(Labels(f, 2), "(")), ")")
        tmp == v.used
        g == Expect(Put(Temp(v), <<Ins1("ST_SLOT", tmp), Ins1("JMP", disp)>>), "{")
        b == switch_body([g EXCEPT !.brk = Append(@, end)], <<>>, -1)
        h == Put([b.f EXCEPT !.brk = g.brk], <<Ins1("JMP", end), Ins1("LABEL", disp)>>)
        tests == FoldLeft(LAMBDA k, c : Put(k, CaseTest(tmp, c)), h, b.cases)
    IN IF g.err \/ Len(g.brk) >= MaxLoops THEN Fail(g)
       ELSE Put(tests, (IF b.def = -1 THEN <<>> ELSE <<Ins1("JMP", b.def)>>)
                       \o <<Ins1("LABEL", end)>>)

stmt_goto(f) ==
    LET g == get_glab(f, Tok(f))
    IN IF f.err \/ ~IsIdent(Tok(f)) \/ g.err THEN Fail(f)
       ELSE Expect(Put(Adv(g), <<Ins1("JMP", GlabId(g, Tok(f)))>>), ";")
\* break and continue: to the innermost target.
stmt_jump(f, targets) ==
    IF targets = <<>> THEN Fail(f) ELSE Expect(Put(f, <<Ins1("JMP", Last(targets))>>), ";")

RECURSIVE enum_names(_, _)
enum_names(f, next) ==
    LET g == Adv(f)
        r == IF Tok(g) = "=" THEN int_lit(Adv(g)) ELSE <<g, next>>
        h == IF r[1].err THEN r[1] ELSE add_enum(r[1], Tok(f), r[2])
    IN CASE f.err -> f
         [] Tok(f) = "}" -> Adv(f)
         [] ~IsIdent(Tok(f)) -> Fail(f)
         [] Tok(h) = "," -> enum_names(Adv(h), r[2] + 1)
         [] OTHER -> Expect(h, "}")
stmt_enum(f) ==
    LET g == IF IsIdent(Tok(f)) THEN Adv(f) ELSE f
    IN IfTok(enum_names(Expect(g, "{"), 0), ";")

-----------------------------------------------------------------------------
(* Classes and declarations. *)

\* The type of a member: <<size, class>>.
MemberType(f, t) ==
    CASE t \in DOMAIN TypeSize /\ ~IsU0Type(t) -> <<TypeSize[t], 0>>
      [] t = "CColorROPU16" -> <<8, 0>>
      [] find_class(f, t) # 0 -> <<f.classes[find_class(f, t)].size, find_class(f, t)>>
      [] OTHER -> <<0, 0>>

\* Members of one type; c is the class so far, un a union: <<state, class>>.
RECURSIVE member_names(_, _, _, _)
member_names(f, c, t, un) ==
    LET ty == MemberType(f, t)
        width == IF ty[2] # 0 THEN 8 ELSE ty[1]
        off == IF un THEN 0 ELSE AlignUp(c.size, width)
        m == Field(Tok(f), off, width, ty[2], IsF64Type(t))
        grown == [c EXCEPT !.mems = Append(@, m),
                           !.size = IF un THEN Max2(@, ty[1]) ELSE off + ty[1]]
        g == Adv(f)
    IN CASE f.err \/ ty[1] = 0 \/ ~IsIdent(Tok(f)) \/ Len(c.mems) >= MaxMembers
              \/ Find(c.mems, Tok(f)) # 0 -> <<Fail(f), c>>
         [] Tok(g) = "," -> member_names(Adv(g), grown, t, un)
         [] OTHER -> <<Expect(g, ";"), grown>>
RECURSIVE class_body(_, _, _)
class_body(f, c, un) ==
    LET r == member_names(Adv(f), c, Tok(f), un)
    IN CASE f.err -> <<f, c>>
         [] Tok(f) = "}" -> <<Adv(f), c>>
         [] OTHER -> class_body(r[1], r[2], un)

\* } a, b;: globals of the class just defined.
RECURSIVE class_instances(_, _)
class_instances(f, ci) ==
    LET g == decl_global_n(f, Tok(f), Max2(1, (f.classes[ci].size + 7) \div 8), 8)
        id == lookup(g, Tok(f))
        h == Adv([g EXCEPT !.names[id].type = ci, !.names[id].ptr = FALSE])
    IN CASE f.err \/ ~IsIdent(Tok(f)) \/ g.err -> Fail(f)
         [] Tok(h) = "," -> class_instances(Adv(h), ci)
         [] OTHER -> Expect(h, ";")

stmt_class(f, un) ==
    LET name == Tok(f)
        r == class_body(Expect(Adv(f), "{"), [name |-> name, size |-> 0, mems |-> <<>>], un)
        c == [r[2] EXCEPT !.size = Max2(8, AlignUp(@, 8))]
        g == [r[1] EXCEPT !.classes = Append(@, c)]
    IN CASE Len(f.classes) >= MaxClasses \/ ~IsIdent(name) \/ find_class(f, name) # 0
              \/ r[1].err -> Fail(f)
         [] IsIdent(Tok(g)) -> class_instances(g, Len(g.classes))
         [] OTHER -> IfTok(g, ";")

\* Type a, *p = e, v[n] = {...};  A scalar without an initialiser is 0.
RECURSIVE decl_names(_, _)
decl_names(f, t) ==
    LET ptr == Tok(f) = "*"
        g == IfTok(f, "*")
        name == Tok(g)
        dim == IF ~ptr /\ Tok(Adv(g)) = "[" THEN case_val(Adv(Adv(g))) ELSE <<Adv(g), 1>>
        h == IF ~ptr /\ Tok(Adv(g)) = "[" THEN Expect(dim[1], "]") ELSE dim[1]
        size == Max2(TypeSize[t], IF IsU0Type(t) THEN 8 ELSE 1)
        d == decl_n(IF dim[2] \in 1..255 THEN h ELSE Fail(h), name, dim[2],
                    IF ptr THEN 8 ELSE size)
        id == lookup(d, name)
        k == [d EXCEPT !.names[id].f64 = @ \/ IsF64Type(t),
                       !.names[id].ptr = @ \/ ptr,
                       !.names[id].stride = IF ptr THEN size ELSE @]
        v == CASE Tok(k) = "=" /\ Tok(Adv(k)) = "{" -> brace_init(Adv(Adv(k)), id, 0)
               [] Tok(k) = "=" -> IF dim[2] # 1 THEN Fail(k) ELSE st_named(expr(Adv(k)), id)
               [] dim[2] = 1 -> st_named(PutImm(k, 0), id)
               [] OTHER -> k
    IN CASE f.err \/ ~IsIdent(name) \/ d.err -> Fail(f)
         [] Tok(v) = "," -> decl_names(Adv(v), t)
         [] OTHER -> Expect(v, ";")

\* Class x;  Class *p = e;
class_var(f, ci) ==
    LET ptr == Tok(f) = "*"
        g == IfTok(f, "*")
        d == decl_class(Adv(g), Tok(g), ci, ptr)
        id == lookup(d, Tok(g))
        v == CASE d.err \/ ~ptr -> d
               [] Tok(d) = "=" -> st_named(expr(Adv(d)), id)
               [] OTHER -> st_named(PutImm(d, 0), id)
    IN IF ~IsIdent(Tok(g)) THEN Fail(g) ELSE Expect(v, ";")

-----------------------------------------------------------------------------
(* Statements that begin with a name. *)

\* *p = e;
stmt_deref(f) ==
    LET id == lookup(f, Tok(f))
    IN IF id # 0 /\ f.names[Max2(id, 1)].ptr
       THEN Expect(PutOp(expr(Expect(ld_named(Adv(f), id), "=")),
                         StoreOp(f.names[id].stride)), ";")
       ELSE Expect(PutOp(expr(Expect(prim(f), "=")), "STORE"), ";")

stmt_fs(f) ==
    LET m == Tok(f)
        g == Expect(Adv(f), "=")
    IN IF m \notin DOMAIN FsWord THEN Fail(f)
       ELSE Expect(PutOp(expr(PutImm(g, FsBase + FsWord[m])), "STORE"), ";")

stmt_expr(f) == Expect(PutOp(expr(f), "DROP"), ";")

\* The address of a field is on the stack.
stmt_field(r) ==
    CASE r[1].err \/ r[2].type # 0 -> Fail(r[1])
      [] Tok(r[1]) \in {"++", "--"} -> finish_mem_incdec(r[1], r[2])
      [] OTHER -> finish_mem_assign(r[1], r[2])

stmt_assign(f, id) ==
    LET op == Tok(f)
        f64 == f.names[id].f64
        v == expr(ld_named(Adv(f), id))
    IN CASE op = "=" -> Expect(st_named(Coerce(expr(Adv(f)), f64), id), ";")
         [] op \in DOMAIN AssignOps ->
              Expect(st_named(PutOp(IF f64 THEN ToF64(v) ELSE v, AssignOp(op, f64)), id), ";")
         [] OTHER -> Fail(f)

stmt_name(f) ==
    LET t == Tok(f)
        g == Adv(f)
        u == Tok(g)
        id == lookup(f, t)
        ci == find_class(f, t)
        lab == get_glab(Adv(g), t)
        n == f.names[Max2(id, 1)]
    IN CASE u = ":" -> IF lab.err THEN lab ELSE Put(lab, <<Ins1("LABEL", GlabId(lab, t))>>)
         [] ci # 0 -> class_var(g, ci)
         [] u = "(" -> stmt_expr(f)
         [] id = 0 /\ t = "Fs" /\ u = "->" -> stmt_fs(Adv(g))
         [] id = 0 -> stmt_expr(f)
         [] u \in {"++", "--"} -> Expect(incdec(g, id), ";")
         [] u = "[" -> finish_mem_assign(index_addr(Adv(g), id),
                                         Field("", 0, n.stride, 0, n.f64))
         [] u = "." -> stmt_field(dot_addr(Adv(g), id))
         [] u = "->" -> stmt_field(arrow_addr(Adv(g), id))
         [] OTHER -> stmt_assign(g, id)

stmt(f) ==
    LET t == Tok(f)
        g == Adv(f)
    IN CASE f.err -> f
         [] t = "{" -> block(f)
         [] t \in {"const", "volatile", "try", "catch"} -> stmt(g)
         [] t = "return" -> stmt_return(g)
         [] t = "if" -> stmt_if(g)
         [] t = "while" -> stmt_while(g)
         [] t = "do" -> stmt_do(g)
         [] t = "for" -> stmt_for(g)
         [] t = "switch" -> stmt_switch(g)
         [] t = "goto" -> stmt_goto(g)
         [] t = "break" -> stmt_jump(g, f.brk)
         [] t = "continue" -> stmt_jump(g, f.cont)
         [] t = "enum" -> stmt_enum(g)
         [] t \in {"class", "union"} -> stmt_class(g, t = "union")
         [] t = "*" -> stmt_deref(g)
         [] t \in DOMAIN TypeSize -> decl_names(g, t)
         [] IsIdent(t) -> stmt_name(f)
         [] OTHER -> Fail(f)

-----------------------------------------------------------------------------
(* Functions, globals and the compilation of a source. *)

AnonParam == <<"_a0", "_a1", "_a2", "_a3", "_a4", "_a5", "_a6", "_a7">>
\* The parameters: each is copied from its register to its frame word.
\* <<state, count>>.
RECURSIVE params(_, _)
params(f, n) ==
    LET t == Tok(f)
        ci == find_class(f, t)
        scalar == (t \in DOMAIN TypeSize /\ ~IsU0Type(t)) \/ t = "CColorROPU16"
        size == IF scalar /\ t \in DOMAIN TypeSize THEN TypeSize[t] ELSE 8
        star == Tok(Adv(f)) = "*"
        g == IfTok(Adv(f), "*")
        name == IF IsIdent(Tok(g)) THEN Tok(g) ELSE AnonParam[n + 1]
        h == IF IsIdent(Tok(g)) THEN Adv(g) ELSE g
        d == IF ci # 0 THEN decl_class(h, name, ci, TRUE)
             ELSE decl_n(h, name, 1, IF star THEN 8 ELSE size)
        id == lookup(d, name)
        k == [d EXCEPT !.names[id].f64 = @ \/ IsF64Type(t),
                       !.names[id].ptr = @ \/ (star /\ ci = 0),
                       !.names[id].stride = IF star /\ ci = 0 THEN size ELSE @]
        p == Put(k, <<Ins2("INARG", k.names[id].base, n)>>)
    IN CASE f.err \/ ~IsIdent(t) \/ (~scalar /\ ~star) \/ d.err \/ n >= 7 -> <<Fail(f), n>>
         [] Tok(p) = "," -> params(Adv(p), n + 1)
         [] OTHER -> <<p, n + 1>>

\* A function sees the classes, constants, globals and functions above it, and
\* is seen only after it has been compiled; its strings stay.
function(f, name) ==
    LET fb == [f EXCEPT !.code = <<Ins1("ENTER", 0)>>, !.lab = 0, !.used = 0, !.f64 = FALSE,
                        !.names = SelectSeq(@, LAMBDA n : n.glob),
                        !.glabs = <<>>, !.brk = <<>>, !.cont = <<>>]
        r == IF Tok(fb) = ")" THEN <<fb, 0>> ELSE params(fb, 0)
        b == block(Expect(r[1], ")"))
        bc == [b.code EXCEPT ![1] = Ins1("ENTER", b.used)] \o <<Ins("END")>>
        jit == hc_ir_compile(bc)
    IN IF f.err \/ Len(f.fns) >= MaxFns \/ b.err \/ b.used >= MemWords THEN Fail(f)
       ELSE IF jit.err # "NONE" THEN Fail(f)
       ELSE [f EXCEPT !.p = b.p, !.str = b.str, !.stores = b.stores,
                      !.fns = Append(@, [name |-> name, nargs |-> r[2], jit |-> jit])]

\* Type a = e, b[n];: globals, initialised by the main code.
RECURSIVE globals(_, _)
globals(f, t) ==
    LET name == Tok(f)
        dim == IF Tok(Adv(f)) = "[" THEN int_lit(Adv(Adv(f))) ELSE <<Adv(f), 1>>
        g == IF Tok(Adv(f)) = "[" THEN Expect(dim[1], "]") ELSE dim[1]
        d == decl_global_n(IF dim[2] \in 1..255 THEN g ELSE Fail(g), name, dim[2], TypeSize[t])
        id == lookup(d, name)
        k == [d EXCEPT !.names[id].f64 = @ \/ IsF64Type(t)]
        v == CASE Tok(k) = "=" /\ Tok(Adv(k)) = "{" -> brace_init(Adv(Adv(k)), id, 0)
               [] Tok(k) = "=" -> IF dim[2] # 1 THEN Fail(k) ELSE st_named(expr(Adv(k)), id)
               [] OTHER -> k
    IN CASE f.err \/ ~IsIdent(name) \/ d.err -> Fail(f)
         [] Tok(v) = "," -> globals(Adv(v), t)
         [] OTHER -> Expect(v, ";")

RECURSIVE unit(_)
unit(f) ==
    LET t == Tok(f)
        g == Adv(f)
        named == t \in DOMAIN TypeSize /\ IsIdent(Tok(g))
    IN CASE f.err \/ t = "EOF" -> f
         [] named /\ Tok(Adv(g)) = "(" -> unit(function(Adv(Adv(g)), Tok(g)))
         [] named /\ ~IsU0Type(t) -> unit(globals(g, t))
         [] OTHER -> unit(stmt(f))

CDC == [name |-> "CDC", size |-> 16,
        mems |-> <<Field("color", 0, 8, 0, FALSE), Field("depth_buf", 8, 8, 0, FALSE)>>]
CMenuEntry == [name |-> "CMenuEntry", size |-> 8,
               mems |-> <<Field("checked", 0, 8, 0, FALSE)>>]

\* The state before the first token; stores is what is written to g_hc_mem.
hc_front(src) ==
    [src |-> src, p |-> 1, code |-> <<Ins1("ENTER", 0)>>, err |-> FALSE, lab |-> 0,
     names |-> <<>>, f64 |-> FALSE, used |-> 0, glob |-> 0, str |-> MemWords, stores |-> <<>>,
     fns |-> <<>>, classes |-> <<CDC, CMenuEntry>>, enums |-> <<>>, glabs |-> <<>>,
     brk |-> <<>>, cont |-> <<>>]

\* The bytecode, the functions, the number of global words, the strings.
hc_front_compile_ex(src) ==
    LET f == unit(hc_front(src))
    IN [err |-> f.err \/ f.used >= MemWords,
        bc |-> [f.code EXCEPT ![1] = Ins1("ENTER", f.used)] \o <<Ins("END")>>,
        fns |-> f.fns, glob |-> f.glob, stores |-> f.stores]
=============================================================================
