------------------------------- MODULE Screen -------------------------------
(***************************************************************************)
(* The text console of log.c on the back buffer of fb.c, the terminal that *)
(* writes to it (tty.c) and the text of the panic screen.  A thread puts   *)
(* characters step by step; klog of an interrupt handler comes between the *)
(* steps as a whole.  A pixel is the character that is drawn there; a      *)
(* glyph is one pixel wide and FONT_HEIGHT high.                           *)
(***************************************************************************)
EXTENDS Integers, Sequences, SequencesExt, FiniteSets

CONSTANTS Modes,       \* what the loader may report: width, height, pitch in bytes
          FONT_HEIGHT,
          Letters,     \* what the thread prints, beside the end of a line and backspace
          Said,        \* what klog of a handler prints
          MaxText      \* bound: characters put since the screen was cleared

ScreenConstants ==
  /\ FONT_HEIGHT \in Nat \ {0}
  /\ \A m \in Modes : m.width > 0 /\ m.height >= FONT_HEIGHT /\ m.pitch >= 4

VARIABLES mode,    \* fb_tag_global_ptr
          con,     \* backbuffer, console_x, console_y; a write went outside the buffer
          shown,   \* the display shows the buffer: it was flushed since it last changed
          call,    \* the thread in klog_putchar: the next step, the character, what was read
          text,    \* history: put since the last console_clear
          exact,   \* history: nothing came between since then
          dead     \* the panic screen is up

screenVars == <<mode, con, shown, call, text, exact, dead>>

Blank   == " "
NewLine == "newline"
Back    == "backspace"
Loader == "loader"       \* what the display showed before
Idle == [at |-> "idle", c |-> Blank, x |-> 0, y |-> 0]
WordsPerLine == mode.pitch \div 4
Words  == 0 .. (mode.height * mode.pitch) \div 4 - 1
Cols   == mode.width
Rows   == mode.height \div FONT_HEIGHT
HasBuffer(k) == k.back # <<>>

Init == /\ mode \in Modes
        /\ con = [back |-> <<>>, x |-> 0, y |-> 0, outside |-> FALSE]
        /\ shown = TRUE /\ call = Idle /\ text = <<>> /\ exact = FALSE /\ dead = FALSE

----------------------------------------------------------------------------
(* fb.c.  Everything returns early without a back buffer.                  *)
Paint(k, cells, c) ==
  IF ~HasBuffer(k) THEN k
  ELSE [k EXCEPT !.back = [w \in DOMAIN @ |-> IF w \in cells THEN c ELSE @[w]],
                 !.outside = @ \/ ~(cells \subseteq DOMAIN k.back)]

\* Lines below the screen and columns beside it are skipped.
OnScreen(xs, ys) ==
  {y * WordsPerLine + x : x \in xs \cap (0 .. mode.width - 1), y \in ys \cap (0 .. mode.height - 1)}
fb_draw_char(k, c, x, y) == Paint(k, OnScreen({x}, y .. y + FONT_HEIGHT - 1), c)
fb_draw_rect(k, x, y, w, h, c) == Paint(k, OnScreen(x .. x + w - 1, y .. y + h - 1), c)
fb_clear(k) == fb_draw_rect(k, 0, 0, mode.width, mode.height, Blank)

\* memmove of whole lines.
fb_copy_region(k, src, dest, rows) ==
  IF ~HasBuffer(k) THEN k
  ELSE LET moved == dest * WordsPerLine .. (dest + rows) * WordsPerLine - 1 IN
       [k EXCEPT !.back = [w \in DOMAIN @ |-> IF w \in moved THEN @[w + (src - dest) * WordsPerLine]
                                                ELSE @[w]]]

\* The buffer starts as a copy of the display; without memory there is none, and nothing is
\* ever drawn.
fb_init_backbuffer ==
  /\ ~HasBuffer(con) /\ ~dead /\ call = Idle
  /\ con' = [con EXCEPT !.back = [w \in Words |-> Loader]]
  /\ UNCHANGED <<mode, shown, call, text, exact, dead>>

fb_flush == /\ HasBuffer(con) /\ ~dead /\ ~shown /\ shown' = TRUE
            /\ UNCHANGED <<mode, con, call, text, exact, dead>>

----------------------------------------------------------------------------
(* log.c: klog_putchar in its steps.  was is the cursor as it was read.    *)
\* The character is drawn, or the line left.
Draw(k, c) ==
  CASE c = NewLine -> [k EXCEPT !.x = 0]
    [] c = Back -> k
    [] OTHER    -> fb_draw_char(k, c, k.x, k.y * FONT_HEIGHT)

\* The cursor moves; it was tested before that a backspace is not at the start of a line.
\* console_x is unsigned: below 0 it is beyond every column.
Advance(k, c, was) ==
  CASE c = NewLine -> [k EXCEPT !.y = was.y + 1]
    [] c = Back -> IF was.x = 0 THEN k
                   ELSE IF k.x = 0 THEN [k EXCEPT !.x = Cols]
                   ELSE fb_draw_char([k EXCEPT !.x = @ - 1], Blank, k.x - 1, k.y * FONT_HEIGHT)
    [] OTHER    -> [k EXCEPT !.x = was.x + 1]

\* Mutated form of Wrap: the column is compared one too late.
WrapLate(k) == IF k.x > Cols THEN [k EXCEPT !.x = 0, !.y = @ + 1] ELSE k

Wrap(k) == IF k.x >= Cols THEN [k EXCEPT !.x = 0, !.y = @ + 1] ELSE k
CopyUp(k) == IF k.y >= Rows THEN fb_copy_region(k, FONT_HEIGHT, 0, (Rows - 1) * FONT_HEIGHT) ELSE k
ClearLast(k) ==
  [fb_draw_rect(k, 0, (Rows - 1) * FONT_HEIGHT, mode.width, FONT_HEIGHT, Blank) EXCEPT !.y = Rows - 1]
Scroll(k) == IF k.y >= Rows THEN ClearLast(CopyUp(k)) ELSE k

klog_putchar(k, c) == Scroll(Wrap(Advance(Draw(k, c), c, Draw(k, c))))

\* What is drawn is in the buffer only.
Drawn == shown' = (shown /\ con'.back = con.back)

\* A thread: klog_print_str of klog, of tty_write or of the shell, one character.
Put(c) ==
  /\ call = Idle /\ ~dead /\ Len(text) < MaxText
  /\ con' = Draw(con, c)
  /\ call' = [at |-> "advance", c |-> c, x |-> con'.x, y |-> con'.y]
  /\ text' = IF exact THEN Append(text, c) ELSE <<>>
  /\ Drawn /\ UNCHANGED <<mode, exact, dead>>

\* The cursor is increased in place, or the value read before is stored.
Step ==
  /\ ~dead
  /\ \/ /\ call.at = "advance"
        /\ \E was \in {[x |-> con.x, y |-> con.y], [x |-> call.x, y |-> call.y]} :
             con' = Advance(con, call.c, [was EXCEPT !.x = IF call.c = Back THEN call.x ELSE @])
        /\ call' = [call EXCEPT !.at = "wrap"]
     \/ call.at = "wrap" /\ con' = Wrap(con) /\ call' = [call EXCEPT !.at = "copy"]
     \/ /\ call.at = "copy"
        /\ con' = CopyUp(con)
        /\ call' = IF con.y >= Rows THEN [call EXCEPT !.at = "last"] ELSE Idle
     \/ call.at = "last" /\ con' = ClearLast(con) /\ call' = Idle
  /\ Drawn /\ UNCHANGED <<mode, text, exact, dead>>

\* klog of an interrupt handler, one character.
Interrupt(c) ==
  /\ ~dead /\ Len(text) < MaxText
  /\ con' = klog_putchar(con, c)
  /\ exact' = (exact /\ call = Idle)
  /\ text' = IF exact' THEN Append(text, c) ELSE <<>>
  /\ Drawn /\ UNCHANGED <<mode, call, dead>>

console_clear ==
  /\ call = Idle /\ ~dead
  /\ con' = [fb_clear(con) EXCEPT !.x = 0, !.y = 0]
  /\ text' = <<>> /\ exact' = HasBuffer(con)
  /\ Drawn /\ UNCHANGED <<mode, call, dead>>

\* panic_screen.c: the column at which a line starts is kept when it is broken.
panic_print_str(k, x, y, s) ==
  FoldLeft(LAMBDA a, c :
             LET nl == c = NewLine \/ a.x + 1 > mode.width
                 b  == IF nl THEN [a EXCEPT !.x = x, !.y = @ + FONT_HEIGHT] ELSE a
             IN  IF c = NewLine THEN b
                 ELSE [x |-> b.x + 1, y |-> b.y, k |-> fb_draw_char(b.k, c, b.x, b.y)],
           [x |-> x, y |-> y, k |-> k], s).k

\* A panic clears the buffer, prints, shows it and stops, whatever was under way.
panic_screen_show(s) ==
  /\ ~dead /\ dead' = TRUE
  /\ con' = panic_print_str(fb_clear(con), 0, 0, s)
  /\ shown' = HasBuffer(con)
  /\ text' = s
  /\ UNCHANGED <<mode, call, exact>>

PanicTexts == {<<"!">>, <<NewLine, "!">>, <<"!", "?", "!">>}
Next == \/ fb_init_backbuffer \/ fb_flush \/ Step \/ console_clear
        \/ \E c \in Letters \cup {NewLine, Back} : Put(c)
        \/ \E c \in Said : Interrupt(c)
        \/ \E s \in PanicTexts : panic_screen_show(s)
        \/ dead /\ UNCHANGED screenVars

Spec == Init /\ [][Next]_screenVars

----------------------------------------------------------------------------
TypeOK ==
  /\ mode \in Modes /\ exact \in BOOLEAN /\ dead \in BOOLEAN
  /\ shown \in BOOLEAN /\ con.x \in Nat /\ con.y \in Nat /\ con.outside \in BOOLEAN
  /\ call.at \in {"idle", "advance", "wrap", "copy", "last"}

\* A page without end: the text broken into lines.
Page(s) == FoldLeft(LAMBDA lines, c :
    LET l == Last(lines) up == Front(lines) IN
    CASE c = NewLine -> Append(lines, <<>>)
      [] c = Back -> IF l = <<>> THEN lines ELSE Append(up, Front(l))
      [] OTHER    -> Append(up, Append(l, c)) \o (IF Len(l) + 1 = Cols THEN <<<<>>>> ELSE <<>>),
  <<<<>>>>, s)

\* What the back buffer must be: the last lines of the page.
Showing(s) ==
  LET page == Page(s) hidden == IF Len(page) > Rows THEN Len(page) - Rows ELSE 0 IN
  \A x \in 0 .. mode.width - 1, y \in 0 .. mode.height - 1 :
    LET n == y \div FONT_HEIGHT + 1 + hidden IN
    con.back[y * WordsPerLine + x] =
      IF n <= Len(page) /\ x + 1 <= Len(page[n]) /\ n <= hidden + Rows THEN page[n][x + 1] ELSE Blank

\* With four bytes to a pixel nothing is written outside the buffer, whoever comes between; the
\* cursor is on the screen again after every call; and when nobody came between, the screen
\* shows the end of the text (log.c:66-103, fb.c:54-120).
ConsoleTrue ==
  /\ mode.pitch >= 4 * mode.width => ~con.outside
  /\ call = Idle => con.x < Cols /\ con.y < Rows
  /\ exact /\ call = Idle /\ ~dead /\ mode.pitch >= 4 * mode.width => Showing(text)

\* A panic is seen, from the first column of every line, when there is a back buffer
\* (panic_screen.c:61-82, 377-378).
PanicSeen ==
  dead /\ HasBuffer(con) /\ mode.pitch >= 4 * mode.width =>
    /\ shown
    /\ Len(SelectSeq(text, LAMBDA c : c # NewLine))
         = Cardinality({w \in DOMAIN con.back : w % WordsPerLine < mode.width /\ con.back[w] # Blank}) \div FONT_HEIGHT

ScreenTrue == ConsoleTrue /\ PanicSeen
=============================================================================
