------------------------------ MODULE HcExpand ------------------------------
(***************************************************************************)
(* Before a source is compiled its #include lines are replaced by files of *)
(* the RedSea volume and its #define lines recorded, then macros are       *)
(* expanded in passes until nothing changes (hc_expand_includes).  A text  *)
(* is a sequence of tokens, LineEnd among them.                            *)
(***************************************************************************)
EXTENDS Integers, Sequences, SequencesExt

CONSTANTS Files,            \* the files that #include finds: name token -> text
          LineEnd,          \* the token of a line feed
          MaxMacros,        \* HC_MAX_MACROS
          MaxPasses,        \* passes of hc_expand_macros
          MaxInclude,       \* nesting of #include
          SrcCap            \* capacity of the text buffers, in tokens

ASSUME ExpandAssumption == {MaxMacros, MaxPasses, MaxInclude, SrcCap} \subseteq Nat

\* The line that starts at p, and where the next one does.
EndOfLine(src, p) ==
    LET ends == {q \in p..Len(src) : src[q] = LineEnd}
    IN IF ends = {} THEN Len(src) + 1 ELSE CHOOSE q \in ends : \A r \in ends : q <= r
LineAt(src, p) == SubSeq(src, p, EndOfLine(src, p) - 1)

Directive(l, word) == Len(l) >= 3 /\ l[1] = "#" /\ l[2] = word
\* A #define without a body, or one too many, is ordinary text.
hc_parse_define(x, l) == Directive(l, "define") /\ Len(l) > 3 /\ Len(x.macros) < MaxMacros
hc_parse_include(l) == Directive(l, "include")

\* x: the text so far, the macros and whether a step failed.
RECURSIVE hc_expand_includes_r(_, _, _, _)
hc_expand_includes_r(x, src, p, nest) ==
    LET l == LineAt(src, p)
        after == EndOfLine(src, p) + 1
        text == IF after - 1 > Len(src) THEN l ELSE Append(l, LineEnd)
        sub == hc_expand_includes_r(x, Files[l[3]], 1, nest + 1)
    IN CASE x.failed -> x
         [] nest > MaxInclude -> [x EXCEPT !.failed = TRUE]
         [] p > Len(src) -> x
         [] hc_parse_define(x, l) ->
              hc_expand_includes_r([x EXCEPT !.macros = Append(@, [name |-> l[3], body |-> SubSeq(l, 4, Len(l))])],
                                   src, after, nest)
         [] hc_parse_include(l) ->
              IF l[3] \notin DOMAIN Files THEN [x EXCEPT !.failed = TRUE]
              ELSE hc_expand_includes_r(sub, src, after, nest)
         [] Len(x.text) + Len(text) >= SrcCap -> [x EXCEPT !.failed = TRUE]
         [] OTHER -> hc_expand_includes_r([x EXCEPT !.text = @ \o text], src, after, nest)

\* The first definition of a name counts.
hc_find_macro(macros, t) == SelectInSeq(macros, LAMBDA d : d.name = t)
RECURSIVE Substituted(_, _)
Substituted(text, macros) ==
    IF text = <<>> THEN <<>>
    ELSE LET k == hc_find_macro(macros, Head(text))
         IN (IF k = 0 THEN <<Head(text)>> ELSE macros[k].body) \o Substituted(Tail(text), macros)

\* A pass that changes nothing ends it; a text that still changes in the last
\* pass, as with a macro that names itself, is refused.
RECURSIVE hc_expand_macros(_, _, _)
hc_expand_macros(text, macros, pass) ==
    CASE pass = 0 -> [failed |-> TRUE, text |-> <<>>]
      [] \A k \in DOMAIN text : hc_find_macro(macros, text[k]) = 0 -> [failed |-> FALSE, text |-> text]
      [] OTHER -> LET next == Substituted(text, macros)
                  IN IF Len(next) >= SrcCap THEN [failed |-> TRUE, text |-> <<>>]
                     ELSE hc_expand_macros(next, macros, pass - 1)

\* What the front end reads: line feeds are blanks to it.
hc_expand_includes(src) ==
    LET x == hc_expand_includes_r([text |-> <<>>, macros |-> <<>>, failed |-> FALSE], src, 1, 0)
        e == hc_expand_macros(x.text, x.macros, MaxPasses)
    IN IF x.failed \/ e.failed THEN [failed |-> TRUE, text |-> <<>>]
       ELSE [failed |-> FALSE, text |-> SelectSeq(e.text, LAMBDA t : t # LineEnd)]
=============================================================================
