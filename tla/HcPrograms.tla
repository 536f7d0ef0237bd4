----------------------------- MODULE HcPrograms -----------------------------
(***************************************************************************)
(* Programs for HolyC: the kernel's own smoke tests, every expression of   *)
(* two operators and loops with jumps, the last two families with the      *)
(* value that an interpreter of the syntax tree finds for them.            *)
(***************************************************************************)
EXTENDS HcSmoke

-----------------------------------------------------------------------------
(* The spelling of literals. *)

Char(s, i) == SubSeq(s, i, i)
Graphic == " !\"#$%&'()*+,-./0123456789:;<=>?@ABCDEFGHIJKLMNOPQRSTUVWXYZ[\\]^_ "
           \o "abcdefghijklmnopqrstuvwxyz{|}"
Ord(c) == CASE c = "_" -> 32 [] c = "~" -> 10
            [] OTHER -> 31 + CHOOSE i \in 1..Len(Graphic) : Char(Graphic, i) = c
Starts(t, c) == t # "" /\ Char(t, 1) \in c
DigitSet == {"0", "1", "2", "3", "4", "5", "6", "7", "8", "9"}
Value(c) == IF Ord(c) <= 57 THEN Ord(c) - 48 ELSE Ord(c) - 55
\* Literals above 24 bits do not fit the scaled words: all their low bits are set.
RECURSIVE Number(_, _)
Number(s, base) ==
    IF s = "" THEN 0
    ELSE LET v == Number(SubSeq(s, 1, Len(s) - 1), base)
         IN IF v >= 2^20 THEN U32Mask ELSE v * base + Value(Char(s, Len(s)))
Point(t) == CHOOSE i \in 1..Len(t) : Char(t, i) = "."
IsReal(t) == Starts(t, DigitSet) /\ \E i \in 1..Len(t) : Char(t, i) = "."
IsHex(t) == Len(t) > 2 /\ Char(t, 2) = "x"

AllTokens(ps) == UNION {Range(ps[p].src) : p \in DOMAIN ps}
IntOf(t) == CASE Starts(t, {"'"}) -> Ord(Char(t, 2))
              [] IsHex(t) -> Number(SubSeq(t, 3, Len(t)), 16)
              [] OTHER -> Number(t, 10)
RealOf(t) == <<Number(SubSeq(t, 1, Point(t) - 1), 10), Number(SubSeq(t, Point(t) + 1, Len(t)), 10),
               Len(t) - Point(t)>>

-----------------------------------------------------------------------------
(* Every expression of two operators, its operands calls that are counted.  *)

Level == [o \in {"*", "/", "%"} |-> 8] @@ [o \in {"+", "-"} |-> 7] @@ [o \in {"<<", ">>"} |-> 6]
         @@ "&" :> 5 @@ "^" :> 4 @@ "|" :> 3 @@ [o \in {"<", ">=", "==", "!="} |-> 2]
         @@ "&&" :> 1 @@ "||" :> 0
Leaf(v) == <<v>>
Node(o, x, y) == <<o, x, y>>
IsLeaf(x) == Len(x) = 1

\* Parentheses only where the levels need them: comparisons do not associate.
RECURSIVE Printed(_)
Printed(x) ==
    LET paren(y) == <<"(">> \o Printed(y) \o <<")">>
        left(y) == IsLeaf(y) \/ Level[y[1]] > Level[x[1]] \/ (Level[y[1]] = Level[x[1]] /\ Level[x[1]] # 2)
        right(y) == IsLeaf(y) \/ Level[y[1]] > Level[x[1]]
    IN IF IsLeaf(x) THEN <<"t", "(", x[1], ")">>
       ELSE (IF left(x[2]) THEN Printed(x[2]) ELSE paren(x[2])) \o <<x[1]>>
            \o (IF right(x[3]) THEN Printed(x[3]) ELSE paren(x[3]))

\* Value and number of leaves evaluated; <<>> where the language has no value.
Apply(o, a, b) ==
    CASE o = "*" -> a * b [] o = "/" -> Quot(a, b) [] o = "%" -> a - Quot(a, b) * b
      [] o = "+" -> a + b [] o = "-" -> a - b
      [] o = "<<" -> a * 2^b [] o = ">>" -> a \div 2^b
      [] o = "&" -> Alu("AND", a, b) [] o = "^" -> Alu("XOR", a, b) [] o = "|" -> Alu("OR", a, b)
      [] o = "<" -> Bool(a < b) [] o = ">=" -> Bool(a >= b)
      [] o = "==" -> Bool(a = b) [] o = "!=" -> Bool(a # b)
Undefined(o, a, b) == (o \in {"/", "%"} /\ b = 0) \/ (o \in {"<<", ">>"} /\ (b \notin 0..16 \/ a < 0))
RECURSIVE Meaning(_)
Meaning(x) ==
    IF IsLeaf(x) THEN <<IntOf(x[1]), 1>>
    ELSE LET a == Meaning(x[2])
             b == Meaning(x[3])
         IN CASE a = <<>> -> <<>>
              [] x[1] = "&&" /\ a[1] = 0 -> <<0, a[2]>>
              [] x[1] = "||" /\ a[1] # 0 -> <<1, a[2]>>
              [] b = <<>> -> <<>>
              [] x[1] \in {"&&", "||"} -> <<Bool(b[1] # 0), a[2] + b[2]>>
              [] Undefined(x[1], a[1], b[1]) -> <<>>
              [] OTHER -> <<Apply(x[1], a[1], b[1]), a[2] + b[2]>>

OperatorSeq == <<"*", "/", "%", "+", "-", "<<", ">>", "&", "^", "|", "<", ">=", "==", "!=", "&&", "||">>
Pick(seq, k) == seq[(k % Len(seq)) + 1]
Trees == [k \in 1..512 |->
            LET o == Pick(OperatorSeq, k)
                q == Pick(OperatorSeq, k \div 16)
            IN IF k <= 256 THEN Node(o, Leaf("7"), Node(q, Leaf("2"), Leaf("3")))
               ELSE Node(o, Node(q, Leaf("0"), Leaf("3")), Leaf("2"))]
Counted == Tokens("I64 n ; I64 t ( I64 v ) { n = n + 1 ; return v ; } I64 e ( ) { I64 r ; r =")
Expression(x) == [src |-> Counted \o Printed(x) \o Tokens("; return r * 4 + n ; } return e ( ) ;"),
                  bc |-> <<>>, want |-> 4 * Meaning(x)[1] + Meaning(x)[2]]
Expressions == LET defined == SelectSeq(Trees, LAMBDA x : Meaning(x) # <<>>)
               IN [k \in DOMAIN defined |-> Expression(defined[k])] \o <<>>

-----------------------------------------------------------------------------
(* A loop with a loop or a switch in it and a jump out of each.             *)

Digit(n) == SubSeq("0123456789", n + 1, n + 1)
\* s = ( s * k + v ) % 997 ;    if ( v == n ) jump ;
Mix(v, k) == <<"mix", v, k>>
When(v, n, jump) == <<"when", v, n, jump>>
Nest(kind, v, body) == <<kind, v, body>>
Times == 3
AtTwo(v) == <<Mix(v, 5)>>
Otherwise(v) == <<Mix(v, 7)>>

RECURSIVE Text(_)
Statement(s) ==
    LET v == s[2]
        body == <<"{">> \o (IF s[1] \in {"while", "do"} THEN <<v, "++", ";">> ELSE <<>>)
                \o Text(s[3]) \o <<"}">>
        test == <<"(", v, "<", Digit(Times), ")">>
    IN CASE s[1] = "mix" -> <<"s", "=", "(", "s", "*", Digit(s[3]), "+", v, ")", "%", "997", ";">>
         [] s[1] = "when" -> IF s[4] = "none" THEN <<>>
                             ELSE <<"if", "(", v, "==", Digit(s[3]), ")", s[4]>>
                                  \o (IF s[4] = "return" THEN <<"s">> ELSE <<>>) \o <<";">>
         [] s[1] = "for" -> <<"for", "(", v, "=", "0", ";", v, "<", Digit(Times), ";", v, "++", ")">>
                            \o body
         [] s[1] = "while" -> <<v, "=", "0", ";", "while">> \o test \o body
         [] s[1] = "do" -> <<v, "=", "0", ";", "do">> \o body \o <<"while">> \o test \o <<";">>
         [] s[1] = "switch" -> <<"switch", "(", "i", ")", "{", "case", "1", ":">> \o Text(s[3])
                               \o <<"case", "2", ":">> \o Text(AtTwo(v))
                               \o <<"break", ";", "default", ":">> \o Text(Otherwise(v)) \o <<"}">>
Text(ss) == IF ss = <<>> THEN <<>> ELSE Statement(ss[1]) \o Text(Tail(ss))

\* The values of i, j and s, and how control leaves.
RECURSIVE Does(_, _), DoesAll(_, _)
Ends(x) == IF x.out = "break" THEN [x EXCEPT !.out = "next"] ELSE x
Up(e, v) == [e EXCEPT ![v] = @ + 1]
Again(s, x) == IF x.out \in {"break", "return"} THEN Ends(x)
               ELSE Does(<<s[1], s[2], s[3], "on">>,
                         IF s[1] = "for" THEN Up([x EXCEPT !.out = "next"], s[2])
                         ELSE [x EXCEPT !.out = "next"])
Does(s, e) ==
    CASE s[1] = "mix" -> [e EXCEPT !.s = (@ * s[3] + e[s[2]]) % 997]
      [] s[1] = "when" -> IF s[4] # "none" /\ e[s[2]] = s[3] THEN [e EXCEPT !.out = s[4]] ELSE e
      [] s[1] = "switch" -> Ends(CASE e.i = 1 -> DoesAll(s[3] \o AtTwo(s[2]), e)
                                   [] e.i = 2 -> DoesAll(AtTwo(s[2]), e)
                                   [] OTHER -> DoesAll(Otherwise(s[2]), e))
      [] Len(s) = 3 /\ s[1] = "do" -> Again(s, DoesAll(s[3], [e EXCEPT ![s[2]] = 1]))
      [] Len(s) = 3 -> Does(<<s[1], s[2], s[3], "on">>, [e EXCEPT ![s[2]] = 0])
      [] e[s[2]] >= Times -> e
      [] s[1] = "for" -> Again(s, DoesAll(s[3], e))
      [] OTHER -> Again(s, DoesAll(s[3], Up(e, s[2])))
DoesAll(ss, e) == IF ss = <<>> \/ e.out # "next" THEN e ELSE DoesAll(Tail(ss), Does(ss[1], e))

JumpSeq == <<"none", "break", "continue", "return">>
Loop(outer, inner, jump, last) ==
    <<Nest(outer, "i", <<Nest(inner, "j", <<Mix("j", 3), When("j", 1, jump), Mix("i", 2)>>),
                         Mix("i", 4), When("i", 2, last), Mix("j", 6)>>),
      Mix("i", 8)>>
Loops == [k \in 1..144 |->
            Loop(Pick(<<"for", "while", "do">>, k \div 48), Pick(<<"for", "while", "do", "switch">>, k),
                 Pick(JumpSeq, k \div 4), Pick(<<"none", "break", "continue">>, k \div 16))]
ControlProgram(ss) ==
    [src |-> Tokens("I64 f ( ) { I64 i ; I64 j ; I64 s ; s = 1 ; i = 0 ; j = 1 ;") \o Text(ss)
             \o Tokens("return s ; } return f ( ) ;"),
     bc |-> <<>>, want |-> DoesAll(ss, [i |-> 0, j |-> 1, s |-> 1, out |-> "next"]).s]
Controls == [k \in DOMAIN Loops |-> ControlProgram(Loops[k])] \o <<>>

-----------------------------------------------------------------------------
\* A program that leaves globals, frames, heap, messages, menu entries, a depth
\* buffer and Fs->draw_it behind.
Dirt == Case("I64 g [ 8 ] ; U0 Draw ( CTask * task , CDC * dc ) { g [ 0 ] = 5 ; } I64 Dirt ( ) { "
             \o "I64 a [ 16 ] ; I64 i ; I64 * p ; for ( i = 0 ; i < 8 ; i ++ ) g [ i ] = - 1 ; "
             \o "for ( i = 0 ; i < 16 ; i ++ ) a [ i ] = - 1 ; p = MAlloc ( 64 ) ; * p = - 1 ; "
             \o "MsgQuePush ( 2 , 65 , 0 ) ; PopUpColor ( \"?\" ) ; DCDepthBufAlloc ( DCAlias ) ; "
             \o "GrPlot3 ( DCAlias , 20 , 20 , 1 ) ; Fs -> draw_it = & Draw ; Refresh ( ) ; "
             \o "return g [ 0 ] ; } return Dirt ( ) ;", 5)

\* Line feeds, #define and #include: a chain of macros as long as the passes
\* allow, one longer, a macro of itself, a file, a file of itself.
Chain(k) == "# define M" \o Digit(k) \o " M" \o Digit(k + 1) \o " ~ "
Chained(k) == Chain(1) \o Chain(2) \o Chain(3) \o Chain(4) \o Chain(5)
              \o Chain(6) \o (IF k > 7 THEN Chain(7) ELSE "") \o "# define M" \o Digit(k) \o " 9 ~ "
FileTable == "\"Inc.ZC\"" :> Tokens("I64 inc ( I64 v ) { ~ return v + TWO ; ~ } ~")
             @@ "\"Two.ZC\"" :> Tokens("# define TWO 2 ~ # include \"Inc.ZC\" ~")
             @@ "\"Self.ZC\"" :> Tokens("# include \"Self.ZC\" ~")
Directives ==
    <<Case(Chained(7) \o "return M1 + M1 ;", 18),
      Case(Chained(8) \o "return M1 ;", Refused),
      Case("# define A A + 1 ~ return A ;", Refused),
      Case("# define A 3 ~ # define A 4 ~ return A ;", 3),
      Case("# include \"Two.ZC\" ~ return inc ( 40 ) ;", 42),
      Case("return 1 ; ~ # include \"None.ZC\" ~", Refused),
      Case("# include \"Self.ZC\" ~ return 1 ;", Refused),
      Case("# define ~ return 1 ;", Refused)>>
\* More calls than g_hc_mem has room for frames.
Calls == Case("I64 t ( I64 v ) { I64 a [ 3 ] ; a [ 2 ] = v ; return a [ 2 ] + 1 ; } "
              \o "I64 f ( ) { I64 i ; I64 s ; s = 0 ; for ( i = 0 ; i < 20 ; i ++ ) s = t ( s ) ; "
              \o "return s ; } return f ( ) ;", 20)

\* Loops that their first jump leaves.
Jumps == <<Case("while ( 1 ) break ; return 7 ;", 7),
           Case("do continue ; while ( 0 ) ; return 8 ;", 8)>>

-----------------------------------------------------------------------------
AllPrograms == <<Dirt, Calls>> \o Jumps \o Directives \o SmokePrograms \o Expressions \o Controls
TokensUsed == AllTokens(AllPrograms)
IntTable == "0" :> 0 @@ [t \in {u \in TokensUsed : Starts(u, DigitSet \cup {"'"}) /\ ~IsReal(u)} |-> IntOf(t)]
RealTable == "0.0" :> <<0, 0, 1>> @@ [t \in {u \in TokensUsed : IsReal(u)} |-> RealOf(t)]
StrTable == "\"\"" :> <<>> @@ [t \in {u \in TokensUsed : Starts(u, {"\""})} |->
                       [k \in 1..(Len(t) - 2) |-> Ord(Char(t, k + 1))] \o <<>>]
=============================================================================
