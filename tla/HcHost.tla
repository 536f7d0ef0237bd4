------------------------------- MODULE HcHost -------------------------------
(***************************************************************************)
(* The kernel built-ins that HolyC programs call (hc_builtin_* in          *)
(* kernel_stub.c), as functions of the memory m, the kernel state s and    *)
(* the arguments a.  Built(name, a, m, s) is the set of possible outcomes  *)
(* [r, m, s]: returned value, memory, state.                               *)
(*                                                                         *)
(* One address space holds g_hc_mem, then the heap, the task fields        *)
(* Fs->..., the device context g_hc_cdc and the menu entries.  Left out:   *)
(* glyphs and swatches painted on the screen, trigonometry, colours with   *)
(* the dither flag, live sessions (g_hc_popup_live).                       *)
(***************************************************************************)
EXTENDS HcFront

CONSTANTS HeapWords,      \* HC_HEAP_BYTES / 8
          MsgMax,         \* HC_MSG_QUE_MAX
          MenuMax,        \* HC_MENU_ENTRIES
          DepthMax,       \* HC_DEPTH_MAP
          BlkBytes,       \* HC_RAM_BLK_SIZE
          BlkCount,       \* HC_RAM_N_BLKS
          FbWidth, FbHeight,
          RandValues,     \* what the generator may return
          Inputs          \* what the pointer and the keyboard may show

HeapBase == MemBase + 8 * MemWords
CdcBase == FsBase + 24
MenuBase == CdcBase + 16
Words == MemWords + HeapWords + 5 + MenuMax
Zero8 == <<0, 0, 0, 0, 0, 0, 0, 0>>

Outcome(r, m, s) == {[r |-> r, m |-> m, s |-> s]}

-----------------------------------------------------------------------------
(* Strings in memory. *)

\* The characters at p up to the terminator.
RECURSIVE Chars(_, _)
Chars(m, p) == IF p = 0 THEN <<>>
               ELSE IF Peek(m, p) = 0 THEN <<>> ELSE <<Peek(m, p)>> \o Chars(m, p + 1)
\* The i-th character, 0 after the last.
ByteAt(s, i) == IF i \in DOMAIN s THEN s[i] ELSE 0
PokeStr(m, p, c) == Poke(m, p, Append(c, 0))

-----------------------------------------------------------------------------
(* Arithmetic, hc_builtin_abs .. hc_builtin_sqr. *)

MathCall(name, a) ==
    CASE name = "Abs" -> IF a[1] < 0 THEN Wrap(-a[1]) ELSE a[1]
      [] name = "FAbs" -> FBits(IF FVal(a[1]) < 0 THEN -FVal(a[1]) ELSE FVal(a[1]))
      [] name = "Min" -> IF a[1] < a[2] THEN a[1] ELSE a[2]
      [] name = "Max" -> IF a[1] > a[2] THEN a[1] ELSE a[2]
      [] name = "Sign" -> CASE a[1] < 0 -> -1 [] a[1] > 0 -> 1 [] OTHER -> 0
      [] name = "Clamp" -> CASE a[1] < a[2] -> a[2] [] a[1] > a[3] -> a[3] [] OTHER -> a[1]
      [] name = "Sqr" -> Wrap(a[1] * a[1])
MathNames == {"Abs", "FAbs", "Min", "Max", "Sign", "Clamp", "Sqr"}

-----------------------------------------------------------------------------
(* Strings and formatting. *)

RECURSIVE Digits(_, _)
Digits(u, base) ==
    (IF u < base THEN <<>> ELSE Digits(u \div base, base))
    \o <<LET d == u % base IN IF d < 10 THEN 48 + d ELSE 55 + d>>
hc_fmt_i64(v, hex) ==
    CASE hex -> Digits(Unsigned(v), 16)
      [] v < 0 -> <<45>> \o Digits(-v, 10)
      [] OTHER -> Digits(v, 10)

\* %d, %X, %c, %s and %%; arguments beyond the last end the output.
RECURSIVE Format(_, _, _)
Format(m, f, vals) ==
    LET c == IF Len(f) > 1 THEN f[2] ELSE 0
        shown == CASE c = 100 -> hc_fmt_i64(vals[1], FALSE)
                   [] c \in {88, 120} -> hc_fmt_i64(vals[1], TRUE)
                   [] c = 99 -> <<vals[1] % 256>>
                   [] c = 115 -> Chars(m, vals[1])
                   [] c = 0 -> <<37>>
                   [] OTHER -> <<37, c>>
    IN CASE f = <<>> -> <<>>
         [] f[1] # 37 -> <<f[1]>> \o Format(m, Tail(f), vals)
         [] c = 37 -> <<37>> \o Format(m, SubSeq(f, 3, Len(f)), vals)
         [] vals = <<>> -> <<>>
         [] OTHER -> shown \o Format(m, SubSeq(f, 3, Len(f)), Tail(vals))
hc_builtin_catprint(m, dst, fmt, vals) ==
    PokeStr(m, dst, Chars(m, dst) \o Format(m, Chars(m, fmt), vals))

IsDigit(c) == c \in 48..57
HexDigit(c) == CASE IsDigit(c) -> c - 48 [] c \in 97..102 -> c - 87
                 [] c \in 65..70 -> c - 55 [] OTHER -> -1
RECURSIVE Leading(_, _, _)
Leading(c, base, v) ==
    IF c = <<>> THEN v
    ELSE IF HexDigit(c[1]) \notin 0..(base - 1) THEN v
    ELSE Leading(Tail(c), base, Wrap(v * base + HexDigit(c[1])))
RECURSIVE hc_builtin_str2i64(_)
hc_builtin_str2i64(c) ==
    CASE c = <<>> -> 0
      [] c[1] \in {32, 9} -> hc_builtin_str2i64(Tail(c))
      [] OTHER ->
           LET sign == IF c[1] = 45 THEN -1 ELSE 1
               d == IF c[1] \in {43, 45} THEN Tail(c) ELSE c
               hex == Len(d) > 1 /\ d[1] = 48 /\ d[2] \in {88, 120}
           IN sign * (IF hex THEN Leading(SubSeq(d, 3, Len(d)), 16, 0) ELSE Leading(d, 10, 0))

hc_builtin_strcmp(c, d) ==
    LET n == CHOOSE k \in 1..(Len(c) + 1) :
               /\ \A j \in 1..(k - 1) : j \in DOMAIN d /\ c[j] = d[j]
               /\ (k > Len(c) \/ ByteAt(c, k) # ByteAt(d, k))
    IN ByteAt(c, n) - ByteAt(d, n)
hc_builtin_hashstr(c) == FoldLeft(LAMBDA h, k : Wrap(h * 33 + k), 5381, c)

\* The heap hands out chunks of 16 bytes upwards; only the last can be freed.
hc_builtin_malloc(s, n) ==
    LET size == AlignUp(Max2(n, 1), 16)
    IN IF s.heap_top + size > 8 * HeapWords THEN <<0, s>>
       ELSE <<HeapBase + s.heap_top, [s EXCEPT !.heap_last = s.heap_top, !.heap_top = @ + size]>>

TextCall(name, a, m, s) ==
    CASE name = "StrLen" -> Outcome(Len(Chars(m, a[1])), m, s)
      [] name = "StrCmp" ->
           Outcome(hc_builtin_strcmp(Chars(m, a[1]), Chars(m, a[2])), m, s)
      [] name = "StrCpy" ->
           Outcome(a[1], IF a[1] = 0 THEN m ELSE PokeStr(m, a[1], Chars(m, a[2])), s)
      [] name = "StrCat" ->
           Outcome(a[1], IF a[1] = 0 THEN m
                         ELSE PokeStr(m, a[1], Chars(m, a[1]) \o Chars(m, a[2])), s)
      [] name = "StrNew" ->
           LET p == hc_builtin_malloc(s, Len(Chars(m, a[1])) + 1)
           IN Outcome(p[1], IF p[1] = 0 THEN m ELSE PokeStr(m, p[1], Chars(m, a[1])), p[2])
      [] name = "CatPrint" ->
           Outcome(a[1], IF a[1] = 0 THEN m
                         ELSE hc_builtin_catprint(m, a[1], a[2], <<a[3], a[4]>>), s)
      [] name = "StrPrint" ->
           Outcome(a[1], IF a[1] = 0 THEN m
                         ELSE hc_builtin_catprint(PokeStr(m, a[1], <<>>), a[1], a[2],
                                                  <<a[3], a[4]>>), s)
      [] name = "MStrPrint" ->
           LET p == hc_builtin_malloc(s, 128)
           IN Outcome(p[1], IF p[1] = 0 THEN m
                            ELSE hc_builtin_catprint(PokeStr(m, p[1], <<>>), p[1], a[1],
                                                     <<a[2], a[3]>>), p[2])
      [] name = "Str2I64" -> Outcome(hc_builtin_str2i64(Chars(m, a[1])), m, s)
      [] name = "HashStr" -> Outcome(hc_builtin_hashstr(Chars(m, a[1])), m, s)
      [] name = "Print" ->
           Outcome(Len(Chars(m, a[1])), m, [s EXCEPT !.con = @ \o Chars(m, a[1])])
      [] name = "PutChar" -> Outcome(a[1] % 256, m, [s EXCEPT !.con = Append(@, a[1] % 256)])
      [] name = "PrintI64" ->
           Outcome(Len(hc_fmt_i64(a[1], FALSE)), m,
                   [s EXCEPT !.con = @ \o hc_fmt_i64(a[1], FALSE)])
      [] name = "PrintAt" ->
           Outcome(Len(SelectSeq(Chars(m, a[3]), LAMBDA k : k # 10)), m, s)
TextNames == {"StrLen", "StrCmp", "StrCpy", "StrCat", "StrNew", "CatPrint", "StrPrint",
              "MStrPrint", "Str2I64", "HashStr", "Print", "PutChar", "PrintI64", "PrintAt"}

-----------------------------------------------------------------------------
(* Memory, heap and the RAM disk. *)

\* The heap, the message queue, the menu and the device context start afresh.
hc_heap_reset(s) ==
    [s EXCEPT !.heap_top = 0, !.heap_last = 0, !.msg = <<>>, !.btn = 0, !.rbtn = 0,
              !.xy = <<>>, !.menu = <<>>, !.depth_on = FALSE]
ClearCdc(m) == PokeWord(PokeWord(m, CdcBase, 0), CdcBase + 8, 0)

hc_builtin_free(p, m, s) ==
    CASE p = 0 -> Outcome(0, ClearCdc(m), hc_heap_reset(s))
      [] p = HeapBase + s.heap_last -> Outcome(0, m, [s EXCEPT !.heap_top = s.heap_last])
      [] OTHER -> Outcome(0, m, s)

\* Bytes are copied upwards one by one.
hc_builtin_memcpy(m, d, p, n) ==
    FoldLeft(LAMBDA h, k : Poke(h, d + k, <<Peek(h, p + k)>>), m, [k \in 1..n |-> k - 1])

BlkRange(a) == a[1] # 0 /\ a[3] > 0 /\ a[2] + a[3] <= BlkCount
MemoryCall(name, a, m, s) ==
    CASE name \in {"MemCpy", "MemCopy"} ->
           Outcome(a[1], IF a[1] = 0 \/ a[2] = 0 THEN m
                         ELSE hc_builtin_memcpy(m, a[1], a[2], a[3]), s)
      [] name = "MemSet" ->
           Outcome(a[1], IF a[1] = 0 \/ a[3] <= 0 THEN m
                         ELSE Poke(m, a[1], [k \in 1..a[3] |-> a[2] % 256]), s)
      [] name = "MAlloc" -> LET p == hc_builtin_malloc(s, a[1]) IN Outcome(p[1], m, p[2])
      [] name = "Free" -> hc_builtin_free(a[1], m, s)
      [] name = "BlkWrite" ->
           IF ~BlkRange(a) THEN Outcome(0, m, s)
           ELSE Outcome(1, m, [s EXCEPT !.disk =
                  [k \in DOMAIN @ |->
                     IF k \in (BlkBytes * a[2] + 1)..(BlkBytes * (a[2] + a[3]))
                     THEN Peek(m, a[1] + k - 1 - BlkBytes * a[2]) ELSE @[k]]])
      [] name = "BlkRead" ->
           IF ~BlkRange(a) THEN Outcome(0, m, s)
           ELSE Outcome(1, Poke(m, a[1], SubSeq(s.disk, BlkBytes * a[2] + 1,
                                                BlkBytes * (a[2] + a[3]))), s)
MemoryNames == {"MemCpy", "MemCopy", "MemSet", "MAlloc", "Free", "BlkWrite", "BlkRead"}

-----------------------------------------------------------------------------
(* Drawing. *)

Pal == <<0, 170, 43520, 43690, 11141120, 11141290, 11162880, 11184810,
         5592405, 5592575, 5635925, 5636095, 16733525, 16733695, 16777045, 16777215>>
hc_dc_rgb(m, dc) ==
    IF dc = 0 THEN 16776960
    ELSE LET c == WordAt(m, dc) IN IF c \in 0..15 THEN Pal[c + 1] ELSE c

OnScreen(x, y) == x \in 0..(FbWidth - 1) /\ y \in 0..(FbHeight - 1)
\* The pixels of ps that are on the screen get the colour c.
Plot(s, ps, c) ==
    LET seen == {q \in ps : OnScreen(q[1], q[2])}
    IN [s EXCEPT !.px = [q \in seen |-> c] @@ @]
fb_peek(s, x, y) == CASE ~OnScreen(x, y) -> -1
                      [] <<x, y>> \in DOMAIN s.px -> s.px[<<x, y>>]
                      [] OTHER -> s.bg
\* A rectangle that begins off the screen is not drawn at all.
fb_fillrect(s, x, y, w, h, c) ==
    IF ~OnScreen(x, y) THEN s
    ELSE Plot(s, (x..(x + w - 1)) \X (y..(y + h - 1)), c)
fb_clear(s, c) == [s EXCEPT !.px = <<>>, !.bg = c]

\* The depth buffer: a position keeps the nearest z plotted there.
hc_depth_try(s, x, y, z) ==
    CASE ~s.depth_on -> <<TRUE, s>>
      [] <<x, y>> \in DOMAIN s.depth ->
           IF z > s.depth[<<x, y>>] THEN <<FALSE, s>>
           ELSE <<TRUE, [s EXCEPT !.depth[<<x, y>>] = z]>>
      [] Cardinality(DOMAIN s.depth) >= DepthMax -> <<TRUE, s>>
      [] OTHER -> <<TRUE, [s EXCEPT !.depth = (<<x, y>> :> z) @@ @]>>

\* Bresenham: the positions from (xa, ya) to (xb, yb), in order; err decides
\* which coordinate moves.
AbsI(x) == IF x < 0 THEN -x ELSE x
Toward(a, b) == IF a < b THEN 1 ELSE -1
LineFrom(xa, ya, xb, yb) ==
    LET dx == AbsI(xb - xa)
        dy == -AbsI(yb - ya)
        line[q \in Int \X Int \X Int] ==
            LET movex == 2 * q[3] >= dy
                movey == 2 * q[3] <= dx
                next == <<IF movex THEN q[1] + Toward(xa, xb) ELSE q[1],
                          IF movey THEN q[2] + Toward(ya, yb) ELSE q[2],
                          q[3] + (IF movex THEN dy ELSE 0) + (IF movey THEN dx ELSE 0)>>
            IN IF q[1] = xb /\ q[2] = yb THEN <<<<xb, yb>>>>
               ELSE <<<<q[1], q[2]>>>> \o line[next]
    IN line[<<xa, ya, dx + dy>>]

\* Every st-th position is plotted.
hc_builtin_grline6(s, x, y, xb, yb, c, st) ==
    LET l == LineFrom(x, y, xb, yb)
    IN Plot(s, {l[k] : k \in {j \in DOMAIN l : (j - 1) % Max2(st, 1) = 0}}, c)

plot3(m, s, dc, x, y, z, c) ==
    LET t == IF dc = 0 THEN <<TRUE, s>>
             ELSE IF WordAt(m, dc + 8) = 0 THEN <<TRUE, s>> ELSE hc_depth_try(s, x, y, z)
    IN CASE ~OnScreen(x, y) -> <<FALSE, s>>
         [] ~t[1] -> <<FALSE, s>>
         [] OTHER -> <<TRUE, Plot(t[2], {<<x, y>>}, c)>>
\* z is interpolated along the line.  Its positions differ, so each is tested
\* against the depth before the line; new positions are kept while there is room.
hc_builtin_grline3(m, s, a) ==
    LET steps == Max2(1, Max2(AbsI(a[5] - a[2]), AbsI(a[6] - a[3])))
        z(k) == a[4] + Quot((a[7] - a[4]) * (k - 1), steps)
        tested == s.depth_on /\ a[1] # 0 /\ WordAt(m, a[1] + 8) # 0
        room == DepthMax - Cardinality(DOMAIN s.depth)
        known(q) == q \in DOMAIN s.depth
        rank(on, l, k) == Cardinality({j \in on : j <= k /\ ~known(l[j])})
        near(on, l) == [q \in {l[k] : k \in {j \in on : known(l[j]) \/ rank(on, l, j) <= room}} |->
                          z(CHOOSE k \in on : l[k] = q)]
        drawn(on, l) == [Plot(s, {l[k] : k \in on}, hc_dc_rgb(m, a[1]))
                           EXCEPT !.depth = IF tested THEN near(on, l) @@ @ ELSE @]
        plotted(l) == {k \in DOMAIN l : /\ OnScreen(l[k][1], l[k][2])
                                       /\ tested /\ known(l[k]) => z(k) <= s.depth[l[k]]}
    IN UNION {UNION {Outcome(Bool(on # {}), m, drawn(on, l)) : on \in {plotted(l)}} :
              l \in {LineFrom(a[2], a[3], a[5], a[6])}}

\* Midpoint circle: the eight reflections of each position of an octant.
RECURSIVE Octant(_, _, _)
Octant(x, y, err) ==
    IF x < y THEN {}
    ELSE {<<x, y>>} \cup (IF err < 0 THEN Octant(x, y + 1, err + 2 * (y + 1) + 1)
                          ELSE Octant(x - 1, y + 1, err + 2 * (y + 1 - (x - 1)) + 1))
hc_builtin_grcircle(s, cx, cy, r, c) ==
    IF r < 0 THEN s
    ELSE Plot(s, UNION {{<<cx + i * q[1], cy + j * q[2]>>, <<cx + i * q[2], cy + j * q[1]>>} :
                        q \in Octant(r, 0, 1 - r), i \in {-1, 1}, j \in {-1, 1}}, c)
\* Row by row; a row whose left end is off the screen is lost.
hc_builtin_grfillcircle(s, cx, cy, r, c) ==
    LET reach(y) == CHOOSE n \in 0..r : n * n + y * y <= r * r
                                       /\ (n + 1) * (n + 1) + y * y > r * r
        row(y) == IF OnScreen(cx - reach(y), cy + y)
                  THEN ((cx - reach(y))..(cx + reach(y))) \X {cy + y} ELSE {}
    IN Plot(s, UNION {row(y) : y \in -r..r}, c)

\* A first argument above 0xFFFF is a device context.
hc_builtin_grplot(m, s, a) ==
    LET x == IF a[1] > 65535 THEN a[2] ELSE a[1]
        y == IF a[1] > 65535 THEN a[3] ELSE a[2]
        c == IF a[1] > 65535 THEN hc_dc_rgb(m, a[1]) ELSE a[3]
    IN Outcome(Bool(OnScreen(x, y)), m, Plot(s, {<<x, y>>}, c))

\* A band is wiped and the text printed over it.
hc_builtin_grprint(s, x, y) == fb_fillrect(s, x, y, 512, 8, 0)
\* The arguments were spilled to consecutive words.
SpilledArgs(m, p, n) == [k \in 1..n |-> WordAt(m, p + 8 * (k - 1))]
PrintedLen(c) == Len(SelectSeq(c, LAMBDA k : k # 10))

ClearDepth(s) == IF s.depth_on THEN [s EXCEPT !.depth = <<>>] ELSE s
DrawCall(name, a, m, s) ==
    CASE name = "PutPixel" -> Outcome(0, m, Plot(s, {<<a[1], a[2]>>}, a[3]))
      [] name = "GrPlot" -> hc_builtin_grplot(m, s, a)
      [] name = "GrPlot3" ->
           LET r == plot3(m, s, a[1], a[2], a[3], a[4], hc_dc_rgb(m, a[1]))
           IN Outcome(Bool(r[1]), m, r[2])
      [] name = "GrLine3" -> hc_builtin_grline3(m, s, a)
      [] name = "GrPeek" -> Outcome(IF Len(a) = 3 THEN fb_peek(s, a[2], a[3])
                                    ELSE fb_peek(s, a[1], a[2]), m, s)
      [] name = "Cls" -> Outcome(0, m, ClearDepth(fb_clear(s, a[1])))
      [] name = "DCFill" -> Outcome(0, m, ClearDepth(fb_clear(s, 0)))
      [] name = "FillRect" -> Outcome(0, m, fb_fillrect(s, a[1], a[2], a[3], a[4], a[5]))
      [] name = "GrHLine" -> Outcome(0, m, fb_fillrect(s, a[1], a[2], a[3], 1, a[4]))
      [] name = "GrVLine" -> Outcome(0, m, fb_fillrect(s, a[1], a[2], 1, a[3], a[4]))
      [] name = "GrCircle" -> Outcome(0, m, hc_builtin_grcircle(s, a[1], a[2], a[3], a[4]))
      [] name = "GrFillCircle" ->
           Outcome(0, m, hc_builtin_grfillcircle(s, a[1], a[2], a[3], a[4]))
      [] name = "GrPrint" ->
           Outcome(PrintedLen(Chars(m, a[4])), m, hc_builtin_grprint(s, a[2], a[3]))
      [] name = "GrPrintN" ->
           Outcome(PrintedLen(Format(m, Chars(m, a[4]), SpilledArgs(m, a[5], a[6]))), m,
                   hc_builtin_grprint(s, a[2], a[3]))
      [] name = "GrLine" ->
           Outcome(0, m, CASE Len(a) = 6 -> hc_builtin_grline6(s, a[1], a[2], a[3], a[4], a[5], a[6])
                           [] a[1] > 65535 ->
                                hc_builtin_grline6(s, a[2], a[3], a[4], a[5], hc_dc_rgb(m, a[1]), 1)
                           [] OTHER -> hc_builtin_grline6(s, a[1], a[2], a[3], a[4], a[5], 1))
DrawNames == {"PutPixel", "GrPlot", "GrPlot3", "GrLine3", "GrPeek", "Cls", "DCFill", "FillRect",
              "GrHLine", "GrVLine", "GrCircle", "GrFillCircle", "GrLine", "GrPrint",
              "GrPrintN"}

-----------------------------------------------------------------------------
(* The device context, menus, messages. *)

hc_builtin_dcdepthbufreset(dc, m, s) ==
    IF dc = 0 THEN Outcome(0, m, s)
    ELSE IF WordAt(m, dc + 8) = 0 THEN Outcome(0, m, s)
    ELSE Outcome(WordAt(m, dc + 8), m, [s EXCEPT !.depth = <<>>])
\* The buffer of the context is a sentinel; the map is the kernel's.
hc_builtin_dcdepthbufalloc(dc, m, s) ==
    IF dc = 0 THEN Outcome(0, m, s)
    ELSE hc_builtin_dcdepthbufreset(dc, PokeWord(m, dc + 8, 1), [s EXCEPT !.depth_on = TRUE])

hc_builtin_popupcolor(h, m, s) ==
    LET c == Chars(m, h)
        edge == CASE Len(c) > 3 /\ SubSeq(c, 1, 4) = <<69, 100, 103, 101>> -> TRUE
                  [] Len(c) > 2 /\ SubSeq(c, 1, 3) = <<77, 105, 100>> -> FALSE
                  [] OTHER -> s.popup_i % 2 = 1
    IN Outcome(IF edge THEN 0 ELSE 14, m, [s EXCEPT !.popup_i = @ + 1])

\* The entry of a path; when all are taken the last one is given to the path.
hc_builtin_menuentryfind(path, m, s) ==
    LET c == Chars(m, path)
        k == SelectInSeq(s.menu, LAMBDA e : e = c)
        n == Len(s.menu) + 1
    IN CASE k # 0 -> Outcome(MenuBase + 8 * (k - 1), m, s)
         [] n > MenuMax -> Outcome(MenuBase + 8 * (MenuMax - 1), m, [s EXCEPT !.menu[MenuMax] = c])
         [] OTHER -> Outcome(MenuBase + 8 * (n - 1), PokeWord(m, MenuBase + 8 * (n - 1), 0),
                             [s EXCEPT !.menu = Append(@, c)])

\* A ring of MsgMax entries holds one less.
hc_builtin_msgquepush(a, m, s) ==
    IF Len(s.msg) >= MsgMax - 1 THEN Outcome(0, m, s)
    ELSE Outcome(1, m, [s EXCEPT !.msg = Append(@, a)])

Wanted(mask, t) == t \in 0..23 /\ (mask \div 2^t) % 2 = 1
StoreOuts(m, a, x, y) == PokeWord(PokeWord(m, a[1], x), a[2], y)
\* Both buttons are remembered whichever of them is reported.
pointer_msg(a, m, s, in) ==
    LET t == [s EXCEPT !.btn = in.btn, !.rbtn = in.rbtn]
        moved == s.xy # <<>> /\ s.xy # in.xy
        got(ty) == Outcome(ty, StoreOuts(m, a, in.xy[1], in.xy[2]), t)
    IN CASE Wanted(a[3], 5) /\ in.btn = 1 /\ s.btn = 0 -> got(5)
         [] Wanted(a[3], 6) /\ in.btn = 0 /\ s.btn = 1 -> got(6)
         [] Wanted(a[3], 7) /\ in.rbtn = 1 /\ s.rbtn = 0 -> got(7)
         [] Wanted(a[3], 8) /\ in.rbtn = 0 /\ s.rbtn = 1 -> got(8)
         [] Wanted(a[3], 4) /\ moved ->
              Outcome(4, StoreOuts(m, a, in.xy[1], in.xy[2]), [t EXCEPT !.xy = in.xy])
         [] OTHER -> Outcome(0, StoreOuts(m, a, 0, 0), [t EXCEPT !.xy = in.xy])
\* Queued messages outside the mask are dropped; then the keyboard, then the
\* pointer.
RECURSIVE hc_builtin_messageget(_, _, _)
hc_builtin_messageget(a, m, s) ==
    LET e == Head(s.msg)
        rest == [s EXCEPT !.msg = Tail(@)]
        device(in) == IF (Wanted(a[3], 2) \/ Wanted(a[3], 3)) /\ in.key # 0 /\ Wanted(a[3], in.kind)
                      THEN Outcome(in.kind, StoreOuts(m, a, in.key, 0), s)
                      ELSE pointer_msg(a, m, s, in)
    IN CASE s.msg = <<>> -> UNION {device(in) : in \in Inputs}
         [] Wanted(a[3], e[1]) -> Outcome(e[1], StoreOuts(m, a, e[2], e[3]), rest)
         [] OTHER -> hc_builtin_messageget(a, m, rest)

LatticeCall(name, a, m, s) ==
    CASE name = "DCAlias" -> Outcome(CdcBase, m, s)
      [] name = "DCDepthBufReset" -> hc_builtin_dcdepthbufreset(a[1], m, s)
      [] name = "DCDepthBufAlloc" -> hc_builtin_dcdepthbufalloc(a[1], m, s)
      [] name = "PopUpColor" -> hc_builtin_popupcolor(a[1], m, s)
      [] name = "MessageGet" -> hc_builtin_messageget(a, m, s)
      [] name = "MsgQuePush" -> hc_builtin_msgquepush(a, m, s)
      [] name = "MenuEntryFind" -> hc_builtin_menuentryfind(a[2], m, s)
      [] name = "FsPixWidth" -> Outcome(FbWidth, m, s)
      [] name = "FsPixHeight" -> Outcome(FbHeight, m, s)
      [] name \in {"Nop0", "MenuPush", "MenuPop", "DCDel"} -> Outcome(0, m, s)
LatticeNames == DOMAIN LatticeHost \cup {"FsPixWidth", "FsPixHeight", "Nop0"}

-----------------------------------------------------------------------------
(* Devices. *)

\* A sleep ends early when input is pending.
hc_builtin_sleep(ms, m, s) ==
    LET full == IF ms \in 0..5000 THEN ms ELSE 5000
    IN {[r |-> full, m |-> m, s |-> [s EXCEPT !.time = @ + t]] :
        t \in IF s.msg # <<>> THEN {0}
              ELSE {full} \cup (IF \E in \in Inputs : in.key # 0 \/ in.btn # s.btn THEN {0} ELSE {})}
\* Two successive values of the generator differ.
hc_builtin_rand(m, s) ==
    {[r |-> v, m |-> m, s |-> [s EXCEPT !.rand = v]] : v \in RandValues \ {s.rand}}

DeviceCall(name, a, m, s) ==
    CASE name = "Rand" -> hc_builtin_rand(m, s)
      [] name = "Sleep" -> hc_builtin_sleep(a[1], m, s)
      [] name = "Cnt" -> Outcome(s.time + 1, m, [s EXCEPT !.time = @ + 1])
      [] name = "CntFrq" -> Outcome(62500, m, s)
      [] name = "FbW" -> Outcome(FbWidth, m, s)
      [] name = "FbH" -> Outcome(FbHeight, m, s)
      [] name = "MouseX" -> {[r |-> in.xy[1], m |-> m, s |-> s] : in \in Inputs}
      [] name = "MouseY" -> {[r |-> in.xy[2], m |-> m, s |-> s] : in \in Inputs}
      [] name = "MouseBtn" -> {[r |-> in.btn + 2 * in.rbtn, m |-> m, s |-> s] : in \in Inputs}
      [] name = "KeyHit" -> {[r |-> Bool(in.key # 0), m |-> m, s |-> s] : in \in Inputs}
      [] name = "GetKey" -> {[r |-> IF in.key = 0 THEN -1 ELSE in.key, m |-> m, s |-> s] :
                             in \in Inputs}

Built(name, a, m, s) ==
    CASE name \in MathNames -> Outcome(MathCall(name, a), m, s)
      [] name \in TextNames -> TextCall(name, a, m, s)
      [] name \in MemoryNames -> MemoryCall(name, a, m, s)
      [] name \in DrawNames -> DrawCall(name, a, m, s)
      [] name \in LatticeNames -> LatticeCall(name, a, m, s)
      [] OTHER -> DeviceCall(name, a, m, s)
=============================================================================
