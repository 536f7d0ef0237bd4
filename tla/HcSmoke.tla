------------------------------- MODULE HcSmoke -------------------------------
(***************************************************************************)
(* The programs that the kernel compiles and runs at start-up (jit_smoke)  *)
(* with the values it expects, and the programs of upstream/ that it runs  *)
(* from there.  Tokens are separated by one blank; a blank inside a string *)
(* is written _ and a line feed ~.                                         *)
(***************************************************************************)
EXTENDS HcIR

\* The tokens of a text: what is between blanks.
Tokens(text) ==
    LET stops == <<0>> \o SelectSeq([i \in 1..Len(text) |-> i],
                                    LAMBDA i : SubSeq(text, i, i) = " ") \o <<Len(text) + 1>>
    IN SelectSeq([k \in 1..(Len(stops) - 1) |-> SubSeq(text, stops[k] + 1, stops[k + 1] - 1)],
                 LAMBDA t : t # "")

Case(text, want) == [src |-> Tokens(text), bc |-> <<>>, want |-> want]

\* The IR that jit_smoke assembles by hand.
Bytecode(bc, want) == [src |-> <<>>, bc |-> bc \o <<Ins("END")>>, want |-> want]
St(n) == Ins1("ST_LOCAL", n)
Ld(n) == Ins1("LD_LOCAL", n)
AbsOf(v) == <<Imm(v), St(0), Ld(0), Imm(0), Ins("LT"), Ins1("JNZ", 1), Ld(0), Ins("RET"),
              Ins1("LABEL", 1), Ld(0), Ins("NEG"), Ins("RET")>>
SmokeBytecode == <<
    Bytecode(<<Imm(4096), Imm(32), Ins("ADD"), Imm(49374), Ins("ADD"), Ins("RET")>>, 53502),
    Bytecode(<<Imm(3), Imm(7), Ins("MUL"), Imm(1), Ins("SUB"), Ins("RET")>>, 20),
    Bytecode(AbsOf(-5), 5),
    Bytecode(AbsOf(7), 7),
    Bytecode(<<Imm(5), St(0), Imm(0), St(1), Imm(0), St(2), Ins1("LABEL", 0),
               Ld(2), Ld(0), Ins("LT"), Ins1("JZ", 1),
               Ld(1), Ld(2), Ins("ADD"), St(1), Ld(2), Imm(1), Ins("ADD"), St(2), Ins1("JMP", 0),
               Ins1("LABEL", 1), Ld(1), Ins("RET")>>, 10),
    Bytecode(<<Ins1("SLOT_ADDR", 0), Imm(43707), Ins("STORE"),
               Ins1("SLOT_ADDR", 0), Ins("LOAD"), Ins("RET")>>, 43707)>>

\* Statements, arrays, classes and calls.
SmokeStatements == <<
    Case("I64 s = 0 ; I64 i = 0 ; while ( i < 10 ) { s = s + i ; i = i + 1 ; } return s ;", 45),
    Case("I64 x = 3 ; if ( x < 2 ) return 1 ; else return 9 ;", 9),
    Case("I64 add ( I64 a , I64 b ) { return a + b ; } return add ( 20 , 22 ) ;", 42),
    Case("I64 x = 5 ; I64 p = & x ; * p = 7 ; return x ;", 7),
    Case("I64 s = 0 ; for ( I64 i = 0 ; i < 10 ; i = i + 1 ) { s = s + i ; } return s ;", 45),
    Case("I64 s = 0 ; I64 i = 0 ; while ( 1 ) { if ( i >= 5 ) break ; s = s + i ; i = i + 1 ; } "
         \o "return s ;", 10),
    Case("I64 s = 0 ; for ( I64 i = 0 ; i < 10 ; i = i + 1 ) { if ( i < 5 ) continue ; s = s + "
         \o "i ; } return s ;", 35),
    Case("I64 a [ 4 ] ; a [ 0 ] = 3 ; a [ 1 ] = 4 ; a [ 2 ] = 5 ; return a [ 0 ] + a [ 1 ] + a "
         \o "[ 2 ] ;", 12),
    Case("I64 a [ 5 ] ; I64 s = 0 ; for ( I64 i = 0 ; i < 5 ; i = i + 1 ) { a [ i ] = i ; } for "
         \o "( I64 j = 0 ; j < 5 ; j = j + 1 ) { s = s + a [ j ] ; } return s ;", 10),
    Case("U8 b [ 4 ] ; b [ 0 ] = 65 ; b [ 1 ] = 2 ; b [ 2 ] = 3 ; return b [ 0 ] + b [ 1 ] + b "
         \o "[ 2 ] ;", 70),
    Case("return \"Az\" [ 0 ] + \"Az\" [ 1 ] ;", 187),
    Case("I64 x = 2 ; switch ( x ) { case 1 : return 10 ; case 2 : return 20 ; default : return "
         \o "30 ; }", 20),
    Case("I64 x = 9 ; switch ( x ) { case 1 : return 1 ; default : return 99 ; }", 99),
    Case("class Point { I64 x ; I64 y ; } ; Point p ; p . x = 3 ; p . y = 4 ; return p . x + p "
         \o ". y ;", 7),
    Case("class S { U8 a ; I64 b ; } ; S s ; s . a = 5 ; s . b = 10 ; return s . a + s . b ;", 15),
    Case("class In { I64 v ; } ; class Out { In i ; I64 z ; } ; Out o ; o . i . v = 5 ; o . z = "
         \o "2 ; return o . i . v + o . z ;", 7),
    Case("class P { I64 x ; } ; P p ; P * q = & p ; q -> x = 9 ; return p . x ;", 9),
    Case("I64 s = 0 ; I64 i = 0 ; do { s = s + i ; i = i + 1 ; } while ( i < 5 ) ; return s ;", 10)>>

\* Operators, literals and the first built-ins.
SmokeOperators == <<
    Case("I64 x = 3 ; x += 4 ; x *= 2 ; x -= 1 ; return x ;", 13),
    Case("I64 a = 0 ; I64 b = 5 ; return ( a && b ) || ( b == 5 ) ;", 1),
    Case("return ( 20 / 3 ) * 3 + ( 20 % 3 ) ;", 20),
    Case("I64 x = 0 ; return ! x + ! ( x + 1 ) ;", 1),
    Case("I64 x = 2 ; return x == 2 ? 40 : 7 ;", 40),
    Case("return 0x10 + 0x2A ;", 58),
    Case("return 'A' + 59 ;", 124),
    Case("I64 x = 5 ; x ++ ; x ++ ; x -- ; return x ;", 6),
    Case("return ( - 8 ) >> 2 ;", -2),
    Case("I64 x = 0 ; goto skip ; x = 99 ; skip : return x + 3 ;", 3),
    Case("I64 a = 2 , b = 3 , c = 4 ; return a + b + c ;", 9),
    Case("return Abs ( - 11 ) ;", 11),
    Case("PutPixel ( 10 , 20 , 0x00FF00 ) ; return 1 ;", 1),
    Case("class Pt { I64 x ; I64 y ; } ; return sizeof ( I64 ) + sizeof ( U8 ) + sizeof ( Pt ) "
         \o ";", 25),
    Case("Cls ( 0x101010 ) ; return 2 ;", 2),
    Case("FillRect ( 5 , 5 , 8 , 6 , 0x00C04020 ) ; return 3 ;", 3),
    Case("return StrLen ( \"Hello\" ) ;", 5),
    Case("PrintAt ( 2 , 2 , \"Zeal\" ) ; return Print ( \"ok\" ) ;", 2),
    Case("I64 a = Rand ( ) ; I64 b = Rand ( ) ; return a != b ;", 1),
    Case("return MouseX ( ) + MouseY ( ) + MouseBtn ( ) >= 0 ;", 1)>>

\* Screen, pointer, keyboard and string built-ins.
SmokeDevices == <<
    Case("Sleep ( 2 ) ; return 8 ;", 8),
    Case("I64 i = 0 ; while ( i < 4 ) { if ( MouseBtn ( ) ) PutPixel ( MouseX ( ) , MouseY ( ) "
         \o ", 0x00F0C040 ) ; i ++ ; Sleep ( 1 ) ; } return i ;", 4),
    Case("return KeyHit ( ) == 0 ;", 1),
    Case("return GetKey ( ) < 0 ;", 1),
    Case("GrLine ( 10 , 10 , 60 , 45 , 0x00FFFFFF , 1 ) ; return 1 ;", 1),
    Case("GrPlot ( 3 , 4 , 0x00AABBCC ) ; return GrPeek ( 3 , 4 ) ;", 11189196),
    Case("return GrPeek ( - 1 , 0 ) ;", -1),
    Case("GrHLine ( 10 , 50 , 80 , 0x00FF8080 ) ; GrVLine ( 50 , 10 , 80 , 0x0080FF80 ) ; "
         \o "return 2 ;", 2),
    Case("Cls ( 0x00101820 ) ; return 1 ;", 1),
    Case("enum { A , B = 5 , C } ; enum Color { RED = 1 , GREEN , BLUE } ; return A + B + C + "
         \o "RED + GREEN + BLUE ;", 17),
    Case("return StrCmp ( \"Zeal\" , \"Zeal\" ) ;", 0),
    Case("return StrCmp ( \"A\" , \"B\" ) < 0 ;", 1),
    Case("return StrCmp ( \"Zeal\" , \"Zeal\" ) == 0 && StrCmp ( \"A\" , \"B\" ) < 0 ;", 1),
    Case("U8 d [ 4 ] ; MemCpy ( d , \"Hi\" , 3 ) ; return d [ 0 ] + d [ 1 ] + d [ 2 ] ;", 177),
    Case("U8 d [ 3 ] ; MemSet ( d , 7 , 3 ) ; return d [ 0 ] + d [ 1 ] + d [ 2 ] ;", 21),
    Case("return Str2I64 ( \"-42\" ) + Str2I64 ( \"0x10\" ) ;", -26),
    Case("return PrintI64 ( - 7 ) ;", 2),
    Case("I64 a = Cnt ( ) ; Sleep ( 1 ) ; return Cnt ( ) > a ;", 1),
    Case("return Min ( 3 , 9 ) + Max ( - 2 , 5 ) ;", 8),
    Case("I64 a ( I64 x ) { return x + 1 ; } I64 b ( I64 x ) { return x + 2 ; } I64 c ( I64 x ) "
         \o "{ return x + 3 ; } I64 d ( I64 x ) { return x + 4 ; } I64 e ( I64 x ) { return x + "
         \o "5 ; } return a ( 1 ) + b ( 1 ) + c ( 1 ) + d ( 1 ) + e ( 1 ) ;", 20)>>

\* Arithmetic built-ins, U32, Bool and globals.
SmokeTypes == <<
    Case("return Sign ( - 9 ) + Sign ( 0 ) + Sign ( 4 ) ;", 0),
    Case("return Clamp ( - 5 , 0 , 10 ) + Clamp ( 3 , 0 , 10 ) + Clamp ( 99 , 0 , 10 ) ;", 13),
    Case("return HashStr ( \"Zeal\" ) != HashStr ( \"OS\" ) && HashStr ( \"Zeal\" ) == HashStr "
         \o "( \"Zeal\" ) ;", 1),
    Case("return Sqr ( - 6 ) ;", 36),
    Case("I64 mix ( I64 a , I64 b , I64 c , I64 d ) { return a + b * 2 + c * 3 + d * 4 ; } "
         \o "return mix ( 1 , 2 , 3 , 4 ) ;", 30),
    Case("I64 f5 ( I64 a , I64 b , I64 c , I64 d , I64 e ) { return a + b + c + d + e ; } "
         \o "return f5 ( 1 , 2 , 3 , 4 , 5 ) ;", 15),
    Case("U32 x = 40 ; U32 y = 2 ; return x + y ;", 42),
    Case("U32 x = 0xFFFFFFFF ; x = x + 1 ; return x ;", 0),
    Case("U32 a [ 3 ] ; a [ 0 ] = 1 ; a [ 1 ] = 2 ; a [ 2 ] = 3 ; return a [ 0 ] + a [ 1 ] + a "
         \o "[ 2 ] ;", 6),
    Case("class S { U32 a ; U32 b ; } ; S s ; s . a = 3 ; s . b = 4 ; return s . a + s . b + "
         \o "sizeof ( S ) ;", 15),
    Case("Bool t = 1 ; Bool f = 0 ; return t && ! f ;", 1),
    Case("return sizeof ( U32 ) + sizeof ( Bool ) + sizeof ( U8 ) ;", 13),
    Case("I64 nest ( I64 x ) { I64 y = x + 1 ; return y ; } I64 a = 5 ; return nest ( a ) + a ;", 11),
    Case("I64 g ; I64 inc ( ) { g = g + 1 ; return g ; } g = 0 ; return inc ( ) + inc ( ) ;", 3),
    Case("I64 gen ; I64 live ; U8 marks [ 8 ] ; I64 AddLive ( I64 n ) { live = live + n ; "
         \o "return live ; } I64 TickGen ( ) { gen = gen + 1 ; marks [ gen & 7 ] = gen ; return "
         \o "gen ; } I64 GlobShare ( ) { I64 i , s ; gen = 0 ; live = 0 ; for ( i = 0 ; i < 8 ; "
         \o "i = i + 1 ) marks [ i ] = 0 ; AddLive ( 3 ) ; AddLive ( 4 ) ; TickGen ( ) ; s = "
         \o "live + gen ; if ( marks [ 1 ] != 1 ) return 0 ; return s ; } return GlobShare ( ) "
         \o ";", 8),
    Case("F64 a = 1.5 ; F64 b = 2.5 ; return ToI64 ( a + b ) ;", 4)>>

\* F64 values, members and brace initialisers.
SmokeF64 == <<
    Case("return ToI64 ( - 2.0 ) ;", -2),
    Case("return ( ( - 2.0 ) <= 2.0 ) + ( ( - 2.0 ) < 0.0 ) ;", 2),
    Case("F64 x ; x = - 2.0 ; x = x + 0.5 ; return ToI64 ( x * 2.0 ) ;", -3),
    Case("I64 n ; F64 x ; n = 0 ; x = - 2.0 ; while ( x <= 2.0 ) { n = n + 1 ; x = x + 0.5 ; } "
         \o "return n ;", 9),
    Case("F64 y ; I64 CartLite ( ) { F64 x ; I64 h ; h = 0 ; for ( x = - 2.0 ; x <= 2.0 ; x = x "
         \o "+ 0.5 ) { y = 2.0 * x ; if ( y < 0.0 ) h = h + 1 ; else h = h + 2 ; } return h ; } "
         \o "return CartLite ( ) ;", 14),
    Case("return ( 1.0 != 2.0 ) + ( 3.0 == 3.0 ) ;", 2),
    Case("class Vec2 { F64 x ; F64 y ; } ; I64 Vec2Lite ( ) { Vec2 v ; v . x = 3.0 ; v . y = "
         \o "4.0 ; if ( v . x != 3.0 ) return 0 ; v . x += 0.0 ; return ToI64 ( v . x * v . x + "
         \o "v . y * v . y ) ; } return Vec2Lite ( ) ;", 25),
    Case("F64 a [ 4 ] = { 1.0 , 2.0 , 3.0 , 4.0 } ; I64 AnglesLite ( ) { F64 b [ 2 ] = { 0.5 , "
         \o "1.5 } ; a [ 3 ] = a [ 3 ] + b [ 0 ] ; return ToI64 ( a [ 0 ] + a [ 1 ] + a [ 2 ] + "
         \o "a [ 3 ] + b [ 1 ] ) ; } return AnglesLite ( ) ;", 12),
    Case("class Vec3 { F64 x , y , z ; } ; class Pair { I64 a , b ; } ; class TurtleLite { F64 "
         \o "x , y , z , speed , w ; I64 d ; Bool ends , first ; } ; I64 CommaLite ( ) { I64 h "
         \o "; Vec3 v ; Pair p ; TurtleLite t ; h = 0 ; v . x = 1.0 ; v . y = 2.0 ; v . z = 3.0 "
         \o "; if ( ToI64 ( v . x + v . y + v . z ) == 6 ) h = h + 1 ; p . a = 10 ; p . b = 20 "
         \o "; if ( p . a + p . b == 30 ) h = h + 2 ; t . x = 1.0 ; t . y = 2.0 ; t . z = 3.0 ; "
         \o "t . speed = 4.0 ; t . w = 5.0 ; t . d = 7 ; t . ends = 1 ; t . first = 0 ; if ( "
         \o "ToI64 ( t . x + t . y + t . z + t . speed + t . w ) == 15 ) h = h + 4 ; if ( t . d "
         \o "== 7 ) h = h + 8 ; if ( t . ends == 1 ) h = h + 16 ; if ( sizeof ( Vec3 ) == 24 ) "
         \o "h = h + 32 ; return h ; } return CommaLite ( ) ;", 63),
    Case("I64 ColorLite ( ) { I64 h ; Bool first ; h = 0 ; if ( TRUE ) h = h + 1 ; if ( ! FALSE "
         \o ") h = h + 2 ; if ( YELLOW == 14 ) h = h + 4 ; if ( CYAN == 3 ) h = h + 8 ; if ( "
         \o "ToI64 ( FAbs ( - 2.25 ) * 100.0 ) == 225 ) h = h + 16 ; if ( DCAlias ( ) != 0 ) h "
         \o "= h + 32 ; first = TRUE ; if ( first && BLACK == 0 && WHITE == 15 ) h = h + 0 ; "
         \o "return h ; } return ColorLite ( ) ;", 63)>>

\* Fs->..., menus, messages and the device context.
SmokeFs == <<
    Case("I64 MsgLite ( ) { I64 dc ; I64 a1 ; I64 a2 ; I64 c ; I64 m ; I64 h ; dc = DCAlias ; "
         \o "DCDepthBufAlloc ( dc ) ; c = PopUpColor ( \"Mid_Color~~\" ) ; a1 = 99 ; a2 = 99 ; "
         \o "m = MessageGet ( & a1 , & a2 , 1 << MESSAGE_KEY_DOWN | 1 << MESSAGE_MS_L_DOWN ) ; "
         \o "h = 0 ; if ( dc != 0 ) h = h + 1 ; if ( c == YELLOW ) h = h + 2 ; if ( m == "
         \o "MESSAGE_NULL && a1 == 0 && a2 == 0 ) h = h + 4 ; if ( MESSAGE_KEY_DOWN == 2 && "
         \o "MESSAGE_MS_L_DOWN == 5 ) h = h + 8 ; return h ; } return MsgLite ( ) ;", 15),
    Case("I64 MenuLite ( ) { I64 h ; I64 m ; h = 0 ; MenuPush ( "
         \o "\"File_{_Abort(,CH_SHIFT_ESC);_}\" ) ; MenuPop ; m = MessageGet ( , , 1 << "
         \o "MESSAGE_KEY_UP ) ; if ( m == MESSAGE_NULL ) h = h + 1 ; if ( MenuPush ( \"X\" ) == "
         \o "0 ) h = h + 2 ; if ( MenuPop ( ) == 0 ) h = h + 4 ; MessageGet ( , , 1 << "
         \o "MESSAGE_KEY_DOWN | 1 << MESSAGE_MS_L_DOWN ) ; h = h + 8 ; return h ; } return "
         \o "MenuLite ( ) ;", 15),
    Case("I64 FindLite ( ) { CMenuEntry e ; CMenuEntry * p ; e . checked = 0 ; p = & e ; p -> "
         \o "checked = 1 ; if ( p -> checked ) return 15 ; return 0 ; } return FindLite ( ) ;", 15),
    Case("U0 DrawIt ( CTask * , CDC * dc ) { dc = dc ; } I64 FsLite ( ) { I64 h ; h = 0 ; Fs -> "
         \o "win_inhibit = WIF_SELF_FOCUS ; if ( Fs -> win_inhibit == WIF_SELF_FOCUS ) h = h + "
         \o "1 ; Fs -> draw_it = & DrawIt ; if ( Fs -> draw_it ) h = h + 2 ; if ( CH_SHIFT_ESC "
         \o "== 0x1C ) h = h + 4 ; if ( SC_CURSOR_UP == 0x48 && SC_CURSOR_DOWN == 0x50 && "
         \o "SC_CURSOR_LEFT == 0x4B && SC_CURSOR_RIGHT == 0x4D ) h = h + 8 ; return h ; } "
         \o "return FsLite ( ) ;", 15),
    Case("I64 SetupLite ( ) { I64 h ; I64 d ; h = 0 ; SettingsPush ; AutoComplete ; WinBorder ; "
         \o "WinMax ; DocCursor ; DocClear ; SettingsPop ; try { h = h + 1 ; } catch PutExcept "
         \o "; d = '5' ; switch ( d ) { case '0' ... '9' : h = h + 2 ; break ; case 'c' : h = h "
         \o "+ 0 ; break ; } switch ( CH_SPACE ) { case CH_SPACE : h = h + 4 ; break ; case "
         \o "CH_SHIFT_ESC : h = h + 0 ; break ; } if ( CH_ESC == 0x1B && CH_SPACE == 0x20 ) h = "
         \o "h + 8 ; return h ; } return SetupLite ( ) ;", 15),
    Case("class Turtle { F64 x ; F64 y ; CColorROPU16 edge ; CColorROPU16 middle ; } tt ; I64 "
         \o "PaintEdge ( CColorROPU16 c ) { return c ; } I64 TtLite ( ) { I64 h ; h = 0 ; tt . "
         \o "x = 3.0 ; tt . y = 4.0 ; tt . edge = BLACK ; tt . middle = YELLOW ; if ( ToI64 ( "
         \o "tt . x ) == 3 && ToI64 ( tt . y ) == 4 ) h = h + 1 ; if ( tt . edge == BLACK ) h = "
         \o "h + 2 ; if ( tt . middle == YELLOW ) h = h + 4 ; if ( PaintEdge ( tt . edge ) == "
         \o "BLACK ) h = h + 8 ; return h ; } return TtLite ( ) ;", 15),
    Case("U0 DrawIt ( CTask * , CDC * dc ) { dc -> color = LTRED ; GrLine ( dc , 10 , 10 , 50 , "
         \o "10 ) ; } I64 LineDcLite ( ) { CDC * dc ; I64 h ; I64 rgb ; h = 0 ; dc = DCAlias ; "
         \o "dc -> color = 0x00CC44AA ; Cls ( 0 ) ; GrLine ( dc , 5 , 40 , 80 , 40 ) ; rgb = "
         \o "0x00CC44AA ; if ( GrPeek ( 40 , 40 ) == rgb ) h = h + 1 ; dc -> color = YELLOW ; "
         \o "GrLine ( dc , 5 , 60 , 80 , 60 ) ; if ( GrPeek ( 40 , 60 ) == 0x00FFFF55 ) h = h + "
         \o "2 ; Fs -> draw_it = & DrawIt ; if ( Fs -> draw_it != 0 ) h = h + 4 ; DrawIt ( 0 , "
         \o "dc ) ; if ( GrPeek ( 30 , 10 ) == 0x00FF5555 ) h = h + 8 ; return h ; } return "
         \o "LineDcLite ( ) ;", 15)>>

\* Menu entries, loops over messages.
SmokeMenus == <<
    Case("I64 CheckedLite ( ) { CMenuEntry * tmpse ; I64 h ; U8 buf [ STR_LEN ] ; h = 0 ; "
         \o "StrPrint ( buf , \"Settings/Layer%d\" , 3 ) ; if ( tmpse = MenuEntryFind ( Fs -> "
         \o "cur_menu , buf ) ) h = h + 1 ; tmpse -> checked = TRUE ; if ( tmpse -> checked == "
         \o "TRUE ) h = h + 2 ; tmpse -> checked = FALSE ; if ( ! tmpse -> checked ) h = h + 4 "
         \o "; if ( tmpse = MenuEntryFind ( 0 , \"Settings/Ends\" ) ) { tmpse -> checked = 1 ; "
         \o "if ( tmpse -> checked ) h = h + 8 ; } return h ; } return CheckedLite ( ) ;", 15),
    Case("I64 CmpLite ( ) { F64 w ; F64 y2 ; I64 h ; h = 0 ; w = - 1.5 ; if ( w < 0 ) h = h + 1 "
         \o "; w = 2.0 ; if ( ! ( w < 0 ) ) h = h + 2 ; y2 = 4.0 ; if ( y2 >= 0 ) h = h + 4 ; "
         \o "y2 = - 0.5 ; if ( ! ( y2 >= 0 ) ) h = h + 8 ; return h ; } return CmpLite ( ) ;", 15),
    Case("I64 ForIncLite ( ) { I64 i ; I64 s ; I64 h ; h = 0 ; s = 0 ; for ( i = 0 ; i < 5 ; i "
         \o "++ ) s = s + i ; if ( s == 10 ) h = h + 1 ; s = 0 ; for ( i = 5 ; i > 0 ; i -- ) s "
         \o "= s + i ; if ( s == 15 ) h = h + 2 ; s = 0 ; for ( i = 0 ; i <= 3 ; i ++ ) s = s + "
         \o "1 ; if ( s == 4 ) h = h + 4 ; s = 0 ; for ( i = 0 ; i < 3 ; i = i + 1 ) s = s + 1 "
         \o "; if ( s == 3 ) h = h + 8 ; return h ; } return ForIncLite ( ) ;", 15),
    Case("I64 LoopLite ( ) { I64 arg1 ; I64 arg2 ; I64 h ; I64 steps ; I64 mask ; h = 0 ; steps "
         \o "= 0 ; mask = 1 << MESSAGE_KEY_DOWN | 1 << MESSAGE_MS_L_DOWN ; if ( MsgQuePush ( "
         \o "MESSAGE_KEY_DOWN , CH_SPACE , 0 ) ) h = h + 1 ; if ( MsgQuePush ( MESSAGE_KEY_DOWN "
         \o ", CH_ESC , 0 ) ) h = h + 2 ; while ( TRUE ) { switch ( MessageGet ( & arg1 , & "
         \o "arg2 , mask ) ) { case MESSAGE_KEY_DOWN : switch ( arg1 ) { case CH_SPACE : steps "
         \o "= steps + 1 ; break ; case CH_ESC : case CH_SHIFT_ESC : goto lt_done ; } break ; "
         \o "case MESSAGE_NULL : goto lt_done ; } } lt_done : if ( steps == 1 ) h = h + 4 ; "
         \o "MessageGet ( , , 1 << MESSAGE_KEY_UP ) ; if ( MessageGet ( & arg1 , & arg2 , mask "
         \o ") == MESSAGE_NULL ) h = h + 8 ; return h ; } return LoopLite ( ) ;", 15),
    Case("I64 InputLite ( ) { I64 a1 ; I64 a2 ; I64 m ; I64 h ; I64 key_mask ; I64 full ; h = 0 "
         \o "; key_mask = 1 << MESSAGE_KEY_DOWN ; full = 1 << MESSAGE_KEY_DOWN | 1 << "
         \o "MESSAGE_MS_L_DOWN ; if ( full == 36 ) h = h + 1 ; a1 = 99 ; a2 = 99 ; m = "
         \o "MessageGet ( & a1 , & a2 , full ) ; if ( m == MESSAGE_NULL && a1 == 0 && a2 == 0 ) "
         \o "h = h + 2 ; MsgQuePush ( MESSAGE_MS_L_DOWN , 10 , 20 ) ; MsgQuePush ( "
         \o "MESSAGE_KEY_DOWN , CH_SPACE , 0 ) ; m = MessageGet ( & a1 , & a2 , key_mask ) ; if "
         \o "( m == MESSAGE_KEY_DOWN && a1 == CH_SPACE ) h = h + 4 ; m = MessageGet ( & a1 , & "
         \o "a2 , full ) ; if ( m == MESSAGE_NULL ) h = h + 8 ; MsgQuePush ( MESSAGE_MS_L_DOWN "
         \o ", 50 , 60 ) ; m = MessageGet ( & a1 , & a2 , full ) ; if ( m == MESSAGE_MS_L_DOWN "
         \o "&& a1 == 50 && a2 == 60 ) h = h + 16 ; return h ; } return InputLite ( ) ;", 31)>>

\* Key-up messages, colour pop-ups, try.
SmokeInput == <<
    Case("I64 UpLite ( ) { I64 a1 ; I64 a2 ; I64 m ; I64 h ; I64 up_mask ; I64 both ; h = 0 ; "
         \o "up_mask = 1 << MESSAGE_KEY_UP ; both = 1 << MESSAGE_KEY_DOWN | 1 << MESSAGE_KEY_UP "
         \o "; if ( both == 12 ) h = h + 1 ; m = MessageGet ( & a1 , & a2 , up_mask ) ; if ( m "
         \o "== MESSAGE_NULL ) h = h + 2 ; MsgQuePush ( MESSAGE_KEY_DOWN , CH_ESC , 0 ) ; "
         \o "MsgQuePush ( MESSAGE_KEY_UP , CH_ESC , 0 ) ; m = MessageGet ( & a1 , & a2 , both ) "
         \o "; if ( m == MESSAGE_KEY_DOWN && a1 == CH_ESC ) h = h + 4 ; m = MessageGet ( & a1 , "
         \o "& a2 , up_mask ) ; if ( m == MESSAGE_KEY_UP && a1 == CH_ESC ) h = h + 8 ; return h "
         \o "; } return UpLite ( ) ;", 15),
    Case("return PopUpColor ( \"Edge_Color~~\" ) ;", 0),
    Case("return PopUpColor ( \"Mid_Color~~\" ) ;", 14),
    Case("I64 TryLite ( ) { I64 h ; I64 x ; h = 0 ; x = 0 ; try { x = x + 1 ; x = x + 2 ; h = h "
         \o "+ 1 ; } catch PutExcept ; if ( x == 3 ) h = h + 2 ; try { h = h + 4 ; } catch "
         \o "PutExcept ; try { if ( h == 7 ) h = h + 8 ; } catch PutExcept ; return h ; } "
         \o "return TryLite ( ) ;", 15)>>

\* F64 conditions, message masks, qualifiers.
SmokeLattice == <<
    Case("class Turtle { F64 w ; } tt ; I64 F64IfLite ( ) { I64 h ; h = 0 ; tt . w = 3.0 ; if ( "
         \o "tt . w ) h = h + 1 ; tt . w = 0.0 ; if ( tt . w ) h = h + 99 ; else h = h + 2 ; tt "
         \o ". w = 1.0 ; if ( tt . w ) tt . w = tt . w - 1.0 ; if ( ToI64 ( tt . w ) == 0 ) h = "
         \o "h + 4 ; tt . w = 0.0 ; if ( tt . w ) tt . w = tt . w - 1.0 ; if ( ToI64 ( tt . w ) "
         \o "== 0 ) h = h + 8 ; return h ; } return F64IfLite ( ) ;", 15),
    Case("return 1 << MESSAGE_KEY_DOWN | 1 << MESSAGE_MS_L_DOWN ;", 36),
    Case("I64 f ( I64 x ) { I64 y = x ; I64 * p = & y ; return * p ; } return f ( 9 ) ;", 9),
    Case("return sizeof ( U32 ) ;", 4),
    Case("I64 f ( I64 x ) { return x + 1 ; } I64 a = 5 ; return f ( 2 ) + a ;", 8),
    Case("return true && ! false ;", 1),
    Case("return NULL == 0 ;", 1),
    Case("I64 x = 7 ; I64 * p = & x ; * p = 9 ; return x + ( p == NULL ? 0 : 1 ) ;", 10),
    Case("const I64 k = 6 ; return k * k ;", 36),
    Case("volatile I64 x = 3 ; return x + 1 ;", 4),
    Case("class A { I64 a ; } ; class B { I64 b ; } ; class C { I64 c ; } ; class D { I64 d ; } "
         \o "; class E { I64 e ; } ; A a ; B b ; C c ; D d ; E e ; a . a = 1 ; b . b = 2 ; c . "
         \o "c = 3 ; d . d = 4 ; e . e = 5 ; return a . a + b . b + c . c + d . d + e . e ;", 15),
    Case("class V { I64 a ; I64 b ; I64 c ; I64 d ; I64 e ; } ; V v ; v . a = 1 ; v . b = 2 ; v "
         \o ". c = 3 ; v . d = 4 ; v . e = 5 ; return v . a + v . b + v . c + v . d + v . e ;", 15)>>

\* Unions, circles and the heap.
SmokeHeap == <<
    Case("U8 b = 0 ; U8 * p = & b ; * p = 65 ; return b + * p ;", 130),
    Case("union U { I64 w ; U8 b ; } ; U u ; u . w = 0x41 ; return u . b + sizeof ( U ) ;", 73),
    Case("GrCircle ( 100 , 100 , 20 , 0x00FFFFFF ) ; return 1 ;", 1),
    Case("GrFillCircle ( 50 , 50 , 10 , 0x00FF0000 ) ; return 2 ;", 2),
    Case("return CntFrq ( ) > 1000 ;", 1),
    Case("U8 * p = MAlloc ( 8 ) ; if ( ! p ) return 0 ; MemSet ( p , 3 , 8 ) ; I64 s = p [ 0 ] "
         \o "+ p [ 7 ] ; p [ 0 ] = 9 ; s = s + p [ 0 ] ; Free ( p ) ; return s ;", 15),
    Case("U8 * a = StrNew ( \"Zeal\" ) ; U8 * b = MAlloc ( 8 ) ; StrCpy ( b , a ) ; StrCat ( b "
         \o ", \"OS\" ) ; I64 n = StrLen ( b ) + ( StrCmp ( b , \"ZealOS\" ) == 0 ) ; Free ( 0 "
         \o ") ; return n ;", 7),
    Case("I64 HeapStr ( ) { U8 * a , * b , * c ; I64 n , i , h ; a = StrNew ( \"Zeal\" ) ; b = "
         \o "StrNew ( \"OS\" ) ; if ( ! a || ! b ) return 0 ; n = StrLen ( a ) + StrLen ( b ) + "
         \o "1 ; c = MAlloc ( n ) ; if ( ! c ) return 0 ; StrCpy ( c , a ) ; StrCat ( c , b ) ; "
         \o "Cls ( 0x00101820 ) ; PrintAt ( 2 , 1 , c ) ; for ( i = 0 ; i < StrLen ( c ) ; i = "
         \o "i + 1 ) { h = 40 + ( c [ i ] & 63 ) ; FillRect ( 60 + i * 70 , 420 - h , 50 , h , "
         \o "0x0000C0FF ) ; } Sleep ( 1200 ) ; n = StrLen ( c ) ; Free ( 0 ) ; return n ; } "
         \o "return HeapStr ( ) ;", 6),
    Case("U8 * s = MStrPrint ( \"%s-%d\" , \"Zeal\" , 8 ) ; CatPrint ( s , \"/%s\" , \"OS\" , 0 "
         \o ") ; I64 n = StrLen ( s ) ; I64 ok = StrCmp ( s , \"Zeal-8/OS\" ) == 0 ; Free ( 0 ) "
         \o "; return n + ok ;", 10)>>

\* Queues on the heap, callbacks, blocks.
SmokeQueues == <<
    Case("class CQue { I64 next ; I64 last ; I64 val ; } ; U0 QueueInit ( I64 head ) { I64 * h "
         \o "= head ; h [ 0 ] = head ; h [ 1 ] = head ; } U0 QueueInsert ( I64 entry , I64 pred "
         \o ") { I64 * e = entry ; I64 * p = pred ; I64 succ ; I64 * s ; succ = p [ 0 ] ; s = "
         \o "succ ; e [ 0 ] = succ ; e [ 1 ] = pred ; s [ 1 ] = entry ; p [ 0 ] = entry ; } I64 "
         \o "QueueCount ( I64 head ) { I64 * h = head ; I64 p , n ; I64 * q ; n = 0 ; p = h [ 0 "
         \o "] ; while ( p != head ) { n = n + 1 ; q = p ; p = q [ 0 ] ; } return n ; } I64 "
         \o "HeapQue ( ) { CQue head ; CQue * node ; I64 i , s , p ; CQue * n ; QueueInit ( & "
         \o "head ) ; for ( i = 1 ; i <= 5 ; i = i + 1 ) { node = MAlloc ( sizeof ( CQue ) ) ; "
         \o "if ( ! node ) return 0 ; node -> val = i * 10 ; QueueInsert ( node , head . last ) "
         \o "; } Cls ( 0x00101820 ) ; PrintAt ( 2 , 1 , \"HeapQue\" ) ; s = 0 ; i = 0 ; p = "
         \o "head . next ; while ( p != & head ) { n = p ; s = s + n -> val ; FillRect ( 60 + i "
         \o "* 80 , 420 - n -> val * 2 , 50 , n -> val * 2 , 0x0000C0FF ) ; p = n -> next ; i = "
         \o "i + 1 ; } Sleep ( 1200 ) ; Free ( 0 ) ; return s ; } return HeapQue ( ) ;", 150),
    Case("class CQue { I64 next ; I64 last ; I64 val ; } ; U0 QueueInit ( I64 head ) { I64 * h "
         \o "= head ; h [ 0 ] = head ; h [ 1 ] = head ; } U0 QueueInsert ( I64 entry , I64 pred "
         \o ") { I64 * e = entry ; I64 * p = pred ; I64 succ ; I64 * s ; succ = p [ 0 ] ; s = "
         \o "succ ; e [ 0 ] = succ ; e [ 1 ] = pred ; s [ 1 ] = entry ; p [ 0 ] = entry ; } U0 "
         \o "QueueRemove ( I64 entry ) { I64 * e = entry ; I64 * n ; I64 * l ; n = e [ 0 ] ; l "
         \o "= e [ 1 ] ; n [ 1 ] = e [ 1 ] ; l [ 0 ] = e [ 0 ] ; } I64 JobQue ( ) { CQue head ; "
         \o "CQue * node ; CQue * n ; I64 i , s , p , drop ; QueueInit ( & head ) ; for ( i = 1 "
         \o "; i <= 5 ; i = i + 1 ) { node = MAlloc ( sizeof ( CQue ) ) ; if ( ! node ) return "
         \o "0 ; node -> val = i * 10 ; QueueInsert ( node , head . last ) ; } drop = 0 ; p = "
         \o "head . next ; while ( p != & head ) { n = p ; p = n -> next ; if ( n -> val == 30 "
         \o ") { QueueRemove ( n ) ; drop = 1 ; } } if ( ! drop ) return 0 ; Cls ( 0x00101820 ) "
         \o "; PrintAt ( 2 , 1 , \"JobQue\" ) ; s = 0 ; i = 0 ; p = head . next ; while ( p != "
         \o "& head ) { n = p ; s = s + n -> val ; FillRect ( 60 + i * 90 , 420 - n -> val * 2 "
         \o ", 60 , n -> val * 2 , 0x00E08020 ) ; p = n -> next ; i = i + 1 ; } Sleep ( 1200 ) "
         \o "; Free ( 0 ) ; return s ; } return JobQue ( ) ;", 120),
    Case("I64 inc ( I64 x ) { return x + 1 ; } return Call1 ( & inc , 41 ) ;", 42),
    Case("U8 b [ 8 ] ; MemSet ( b , 0 , 8 ) ; b [ 0 ] = 1 ; b [ 1 ] = 2 ; BlkWrite ( b , 1 , 1 "
         \o ") ; MemSet ( b , 0 , 8 ) ; BlkRead ( b , 1 , 1 ) ; return b [ 0 ] + b [ 1 ] ;", 3)>>

\* The depth buffer.
SmokeDepth == <<
    Case("I64 DepthBufLite ( ) { CDC * dc ; I64 h ; h = 0 ; dc = DCAlias ; if ( dc -> depth_buf "
         \o "== 0 ) h = h + 1 ; DCDepthBufAlloc ( dc ) ; if ( dc -> depth_buf != 0 ) h = h + 2 "
         \o "; if ( DCDepthBufAlloc ( dc ) != 0 ) h = h + 4 ; if ( dc -> depth_buf != 0 ) h = h "
         \o "+ 8 ; return h ; } return DepthBufLite ( ) ;", 15),
    Case("I64 DepthRstLite ( ) { CDC * dc ; I64 h ; h = 0 ; dc = DCAlias ; if ( DCDepthBufReset "
         \o "( dc ) == 0 ) h = h + 1 ; DCDepthBufAlloc ( dc ) ; if ( dc -> depth_buf != 0 ) h = "
         \o "h + 2 ; if ( DCDepthBufReset ( dc ) != 0 ) h = h + 4 ; if ( DCDepthBufReset ( dc ) "
         \o "== dc -> depth_buf ) h = h + 8 ; return h ; } return DepthRstLite ( ) ;", 15),
    Case("I64 DepthPlotLite ( ) { CDC * dc ; I64 h ; h = 0 ; dc = DCAlias ; DCDepthBufAlloc ( "
         \o "dc ) ; Cls ( 0 ) ; dc -> color = LTRED ; if ( GrPlot3 ( dc , 20 , 20 , 100 ) ) h = "
         \o "h + 1 ; if ( GrPeek ( 20 , 20 ) == 0x00FF5555 ) h = h + 2 ; if ( ! GrPlot3 ( dc , "
         \o "20 , 20 , 200 ) ) h = h + 4 ; if ( GrPlot3 ( dc , 20 , 20 , 50 ) ) h = h + 8 ; "
         \o "return h ; } return DepthPlotLite ( ) ;", 15),
    Case("I64 DepthLineLite ( ) { CDC * dc ; I64 h ; h = 0 ; dc = DCAlias ; DCDepthBufAlloc ( "
         \o "dc ) ; Cls ( 0 ) ; dc -> color = LTRED ; if ( GrLine3 ( dc , 10 , 40 , 100 , 50 , "
         \o "40 , 100 ) ) h = h + 1 ; if ( GrPeek ( 30 , 40 ) == 0x00FF5555 ) h = h + 2 ; if ( "
         \o "! GrLine3 ( dc , 10 , 40 , 200 , 50 , 40 , 200 ) ) h = h + 4 ; dc -> color = LTRED "
         \o "; GrLine3 ( dc , 10 , 40 , 50 , 50 , 40 , 50 ) ; if ( GrPeek ( 30 , 40 ) == "
         \o "0x00FF5555 ) h = h + 8 ; return h ; } return DepthLineLite ( ) ;", 15)>>
SmokePrograms ==
    SmokeBytecode \o SmokeStatements \o SmokeOperators \o SmokeDevices \o SmokeTypes \o SmokeF64
        \o SmokeFs \o SmokeMenus \o SmokeInput \o SmokeLattice \o SmokeHeap \o SmokeQueues \o SmokeDepth
=============================================================================
