------------------------------- MODULE Console ------------------------------
(***************************************************************************)
(* Text output, boot/kernel/print.c:6-83 with the glyph lookup of font.c:  *)
(* kprintf scans its format, takes its arguments, and hands characters to  *)
(* kputc, which moves the cursor and draws into the framebuffer.  There is *)
(* no scrolling.  Characters are their codes; a glyph is drawn as the      *)
(* whole of its cell, and pixels are numbered from framebuffer_base.       *)
(***************************************************************************)
EXTENDS Format

CONSTANTS PPS,                     \* graphics.pixels_per_scanline
          WIDTH, HEIGHT,           \* of the screen, in pixels
          FONT_WIDTH, FONT_HEIGHT,
          Calls,                   \* kprintf calls: [str, ap], every argument
                                   \* a sequence (<<n>> for an int)
          MaxY                     \* bound: calls start at line MaxY at most

cols == PPS \div FONT_WIDTH
rows == HEIGHT \div FONT_HEIGHT

(* print.c:50-57: a % with the letter of a directive behind it. *)
Directive(s, p) == s[p] = 37 /\ p < Len(s) /\ s[p + 1] \in {100, 115, 120}

(* The place of the directive at p among those of s. *)
Order(s, p) == 1 + Cardinality({q \in 1 .. (p - 1) : Directive(s, q)})

(* A call gives every directive an argument of its kind; with fewer the    *)
(* va_arg of print.c:52-58 is undefined.                                   *)
WellFormed(call) ==
  /\ call.str \in Seq(-128 .. 127) /\ call.ap \in Seq(Seq(Int))
  /\ \A p \in DOMAIN call.str : Directive(call.str, p) =>
       /\ Order(call.str, p) \in DOMAIN call.ap
       /\ IF call.str[p + 1] = 115
          THEN call.ap[Order(call.str, p)] \in Seq(-128 .. 127)
          ELSE call.ap[Order(call.str, p)] # << >>

(* What the constants must satisfy. *)
ConsoleConstants ==
  /\ FormatConstants
  /\ {PPS, WIDTH, HEIGHT, FONT_WIDTH, FONT_HEIGHT} \subseteq Nat \ {0} /\ cols > 0 /\ WIDTH <= PPS
  /\ \A call \in Calls : WellFormed(call)

VARIABLES
  x, y,      \* the cursor (print.h:10-18)
  lit,       \* the pixels that hold a glyph
  str, ap,   \* kprintf's arguments; str = << >> when no call is active
  i, a,      \* its position in str and in ap
  pending,   \* characters on their way through kputs and kputc
  returned,  \* history: a \r was printed
  stale,     \* history: pixels that a clear_line or clear_screen missed
  smudged    \* history: a glyph was drawn over one that was not stale

vars == <<x, y, lit, str, ap, i, a, pending, returned, stale, smudged>>

(* The pixels of the cell at column cx, line cy (print.c:29-31). *)
Cell(cx, cy) ==
  {PPS * (cy * FONT_HEIGHT + r) + cx * FONT_WIDTH + c : r \in 0 .. (FONT_HEIGHT - 1), c \in 0 .. (FONT_WIDTH - 1)}

(* char_to_bitmap (font.c) returns NULL for the others. *)
HasGlyph(ch) == ch \in 32 .. 126

-----------------------------------------------------------------------------
Init ==
  /\ x = 0 /\ y = 0 /\ lit = {}
  /\ str = << >> /\ ap = << >> /\ i = 1 /\ a = 1
  /\ pending = << >>
  /\ returned = FALSE /\ stale = {} /\ smudged = FALSE

(* A caller enters kprintf (print.c:44-47). *)
Kprintf(call) ==
  /\ str = << >> /\ y <= MaxY
  /\ str' = call.str /\ ap' = call.ap /\ i' = 1 /\ a' = 1
  /\ UNCHANGED <<x, y, lit, pending, returned, stale, smudged>>

(* print.c:52, 55, 58: an int is widened to 64 bits, and so a negative one *)
(* becomes a large number.                                                 *)
Argument(d) ==
  CASE d = 100 -> itoa(ap[a][1] % M)
    [] d = 115 -> ap[a]
    [] d = 120 -> hex(ap[a][1] % M)

(* One turn of kprintf's loop (print.c:49-64).  A % that starts no         *)
(* directive is dropped, and what follows it is printed.                   *)
Scan ==
  /\ str # << >> /\ pending = << >> /\ i <= Len(str)
  /\ \/ /\ Directive(str, i)
        /\ pending' = Argument(str[i + 1])
        /\ a' = a + 1 /\ i' = i + 2
     \/ /\ ~ Directive(str, i)
        /\ pending' = IF str[i] = 37 THEN << >> ELSE <<str[i]>>
        /\ a' = a /\ i' = i + 1
  /\ UNCHANGED <<x, y, lit, str, ap, returned, stale, smudged>>

(* The end of kprintf (print.c:66). *)
Return ==
  /\ str # << >> /\ pending = << >> /\ i > Len(str)
  /\ str' = << >> /\ ap' = << >> /\ i' = 1 /\ a' = 1
  /\ UNCHANGED <<x, y, lit, pending, returned, stale, smudged>>

AdvanceLate ==
  /\ x' = IF x + 1 > cols THEN x + 1 - cols ELSE x + 1
  /\ y' = IF x + 1 > cols THEN y + 1 ELSE y

(* print.c:33-38: the next column, or the next line. *)
Advance ==
  /\ x' = IF x + 1 >= cols THEN x + 1 - cols ELSE x + 1
  /\ y' = IF x + 1 >= cols THEN y + 1 ELSE y

(* print.c:23-38: the glyph is drawn over what is there. *)
Draw(rest) ==
  /\ lit' = lit \cup Cell(x, y)
  /\ smudged' = (smudged \/ (Cell(x, y) \cap (lit \ stale) # {}))
  /\ stale' = stale \ Cell(x, y)
  /\ pending' = rest
  /\ Advance
  /\ UNCHANGED returned

(* print.c:15-20 *)
Tab(rest) == pending' = <<32, 32, 32, 32>> \o rest /\ UNCHANGED <<x, y, lit, returned, stale, smudged>>

(* kputc (print.c:6-39), for the next character. *)
Kputc ==
  /\ pending # << >>
  /\ LET ch == Head(pending)
         rest == Tail(pending)
     IN  \/ /\ ch = 10
            /\ y' = y + 1 /\ x' = 0 /\ pending' = rest
            /\ UNCHANGED <<lit, returned, stale, smudged>>
         \/ /\ ch = 13
            /\ x' = 0 /\ pending' = rest /\ returned' = TRUE
            /\ UNCHANGED <<y, lit, stale, smudged>>
         \/ ch = 9 /\ Tab(rest)
         \/ HasGlyph(ch) /\ Draw(rest)
         \/ /\ ch \notin {9, 10, 13} /\ ~ HasGlyph(ch)
            /\ pending' = rest
            /\ UNCHANGED <<x, y, lit, returned, stale, smudged>>
  /\ UNCHANGED <<str, ap, i, a>>

(* The pixels that a series of 32-bit stores at these byte offsets covers: *)
(* print.c:71 and 80 count pixels but address bytes.                       *)
Covered(bytes) ==
  {p \in lit : \A b \in 0 .. 3 : \E s \in bytes : 4 * p + b \in s .. (s + 3)}

Clear(bytes) ==
  /\ str = << >>
  /\ lit' = lit \ Covered(bytes)
  /\ stale' = lit'
  /\ UNCHANGED <<str, ap, i, a, pending, returned, smudged>>

(* clear_line (print.c:68-73), which uses the cursor's line, whatever its  *)
(* argument.                                                               *)
ClearLine ==
  /\ Clear({y * PPS + j : j \in 0 .. (WIDTH - 1)})
  /\ x' = 0 /\ y' = y

(* clear_screen (print.c:74-83). *)
ClearScreen ==
  /\ Clear({r * PPS + j : r \in 0 .. (HEIGHT - 1), j \in 0 .. (WIDTH - 1)})
  /\ x' = 0 /\ y' = 0

Printing == Scan \/ Return \/ Kputc
Full     == str = << >> /\ y > MaxY /\ UNCHANGED vars
Next     == (\E call \in Calls : Kprintf(call)) \/ Printing \/ ClearLine \/ ClearScreen \/ Full

Spec == Init /\ [][Next]_vars /\ WF_vars(Printing)

-----------------------------------------------------------------------------
(* Every variable has its type; in particular the cursor is on a column    *)
(* that exists.                                                            *)
TypeOK ==
  /\ x \in 0 .. (cols - 1) /\ y \in Nat
  /\ lit \subseteq Nat /\ stale \subseteq lit
  /\ str = << >> \/ \E call \in Calls : str = call.str /\ ap = call.ap
  /\ i \in 1 .. (Len(str) + 1) /\ a \in 1 .. (Len(ap) + 1)
  /\ pending \in Seq(-128 .. 127)
  /\ returned \in BOOLEAN /\ smudged \in BOOLEAN

(* No glyph is drawn over another: until the first \r, and except on       *)
(* pixels a clear has missed, every glyph gets pixels of its own, across   *)
(* line ends, tabs and wide numbers (print.c:29-38).                       *)
NoOverprint == ~ returned => ~ smudged

(* Drawing stays in the framebuffer while the cursor is on the screen: a   *)
(* pixel outside of it was drawn only after the lines had run out, as      *)
(* nothing scrolls (print.c:31).                                           *)
InsideFramebuffer == y < rows => lit \ stale \subseteq 0 .. (PPS * HEIGHT - 1)

(* kprintf takes one argument a directive, in order, and none for a % that *)
(* starts no directive: it never reads past the arguments it was given     *)
(* when there is one for every directive (print.c:50-60).                  *)
ArgumentsInOrder ==
  str # << >> => a = Order(str, i)

(* The line and the column whose cell a pixel is in. *)
LineOf(p)   == (p \div PPS) \div FONT_HEIGHT
ColumnOf(p) == (p % PPS) \div FONT_WIDTH

(* What holds a glyph lies before the cursor; after a \r, at least not     *)
(* below it.                                                               *)
BeforeCursor ==
  \A p \in lit \ stale :
    LineOf(p) <= y /\ (~ returned => LineOf(p) < y \/ ColumnOf(p) < x)

(* The inductive invariant; InsideFramebuffer follows from it. *)
IInv == TypeOK /\ NoOverprint /\ ArgumentsInOrder /\ BeforeCursor

Called == str # << >>
Back   == str = << >>
=============================================================================
