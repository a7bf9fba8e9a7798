------------------------------ MODULE TermGrid ------------------------------
(***************************************************************************)
(* The cell grid of src/src/termctl.c: tc_set paints the back buffer,      *)
(* tc_flush emits what differs from the front buffer, a resize allocates   *)
(* both anew.                                                              *)
(*                                                                         *)
(* A glyph is narrow or wide; `0' in a cell is the right half of the wide  *)
(* glyph to its left.  A style stands for colours and attributes.          *)
(* The terminal is external: it prints at its cursor in its current style, *)
(* a glyph printed over half of a wide one blanks the other half, and what *)
(* it shows after a resize is arbitrary (`Junk').                          *)
(* Bounds: MaxSets calls of tc_set or tc_puts between two flushes, MaxFrames flushes. *)
(***************************************************************************)
EXTENDS Integers, Sequences, FiniteSets, SequencesExt

CONSTANTS Sizes,      \* the sizes the window takes, <<w, h>>
          Styles,     \* 0 is the default style
          Texts,      \* what tc_puts paints
          MaxSets, MaxFrames

VARIABLES size,    \* T.w, T.h
          back, front,
          resized, \* SIGWINCH came
          window,  \* the size the terminal has
          screen,  \* what the terminal shows
          flushed, \* the last thing done to the grid was tc_flush
          torn,    \* history: half a wide glyph was left in the grid
          sets, frames

gvars == <<size, back, front, resized, window, screen, flushed, torn, sets, frames>>

Cell(ch, st) == [ch |-> ch, st |-> st]
Blank == Cell(" ", 0)
Sentinel == Cell("none", 0)
Junk == Cell("junk", 0)
Right == "0"          \* ch == 0, and what a terminal shows there
Glyphs == {"a", "W"}
Wcwidth(ch) == IF ch = "W" THEN 2 ELSE 1

W == size[1]
H == size[2]
Grid(s) == (0 .. s[1]-1) \X (0 .. s[2]-1)
AtX(p, x) == <<x, p[2]>>

AllocGridKeepsFront(s) ==
  /\ size' = s
  /\ front' = [p \in Grid(s) |-> IF p \in DOMAIN front THEN front[p] ELSE Sentinel]
  /\ back' = [p \in Grid(s) |-> Blank]

AllocGrid(s) == /\ size' = s
                /\ front' = [p \in Grid(s) |-> Sentinel]
                /\ back' = [p \in Grid(s) |-> Blank]
Init == /\ size \in Sizes /\ window = size
        /\ front = [p \in Grid(size) |-> Sentinel]
        /\ back = [p \in Grid(size) |-> Blank]
        /\ resized = FALSE
        /\ screen = [p \in Grid(size) |-> Junk]
        /\ flushed = FALSE /\ torn = FALSE /\ sets = 0 /\ frames = 0
-----------------------------------------------------------------------------
(* A cell with ch == 0 is the right half of the wide glyph to its left.     *)
Paired(b) ==
  /\ \A p \in DOMAIN b : b[p].ch = Right =>
       p[1] > 0 /\ Wcwidth(b[AtX(p, p[1] - 1)].ch) = 2
  /\ \A p \in DOMAIN b : Wcwidth(b[p].ch) = 2 =>
       AtX(p, p[1] + 1) \in DOMAIN b /\ b[AtX(p, p[1] + 1)].ch = Right

(* tc_set: the half of a wide glyph that the new one orphans is blanked, a  *)
(* wide glyph marks the cell to its right, and one that has no room becomes *)
(* a space.                                                                 *)
Orphans(b, p) ==
  {q \in DOMAIN b :
     \/ b[p].ch = Right /\ p[1] > 0 /\ q = AtX(p, p[1] - 1)
     \/ /\ p[1] + 1 < W /\ q = AtX(p, p[1] + 1)
        /\ b[q].ch = Right
        /\ Wcwidth(IF b[p].ch = Right /\ p[1] > 0 THEN " " ELSE b[p].ch) = 2}
Written(p, ch, st) ==
  CASE Wcwidth(ch) = 1 -> (p :> Cell(ch, st))
    [] p[1] + 1 < W -> (p :> Cell(ch, st)) @@ (AtX(p, p[1] + 1) :> Cell(Right, st))
    [] OTHER -> (p :> Cell(" ", st))
SetCell(b, p, ch, st) ==
  Written(p, ch, st) @@ [q \in DOMAIN b |-> IF q \in Orphans(b, p) THEN Blank ELSE b[q]]
Painted(b) ==
  /\ sets < MaxSets /\ sets' = sets + 1
  /\ back' = b /\ torn' = (torn \/ ~Paired(b)) /\ flushed' = FALSE
  /\ UNCHANGED <<size, front, resized, window, screen, frames>>

TcSet(p, ch, st) == Painted(SetCell(back, p, ch, st))

(* tc_puts: a combining mark is skipped, bytes cut short end the text, and  *)
(* what runs past the row is dropped.                                       *)
TcPuts(p, text, st) ==
  LET put(f, ch) ==
        IF f.done \/ f.x >= W \/ ch = "cut" THEN [f EXCEPT !.done = TRUE]
        ELSE IF ch = "mark" THEN f
        ELSE [f EXCEPT !.b = SetCell(f.b, AtX(p, f.x), ch, st), !.x = f.x + Wcwidth(ch)]
  IN Painted(FoldLeft(put, [b |-> back, x |-> p[1], done |-> FALSE], text).b)

TcClear == /\ back' = [p \in DOMAIN back |-> Blank] /\ flushed' = FALSE
           /\ UNCHANGED <<size, front, resized, window, screen, torn, sets, frames>>
-----------------------------------------------------------------------------
(* The terminal, external: a glyph is printed at the cursor.                *)
Halves(s, q) ==
  CASE q \notin DOMAIN s -> {}
    [] s[q].ch = "W" -> {AtX(q, q[1] + 1)}
    [] s[q].ch = Right -> {AtX(q, q[1] - 1)}
    [] OTHER -> {}
Printed(s, p, ch, st) ==
  LET cells == {AtX(p, p[1] + i) : i \in 0 .. Wcwidth(ch) - 1}
      others == (UNION {Halves(s, q) : q \in cells}) \ cells
  IN [q \in DOMAIN s |->
        CASE q = p -> Cell(ch, st)
          [] q \in cells \ {p} -> Cell(Right, st)
          [] q \in others -> Blank
          [] OTHER -> s[q]]

(* tc_flush, one cell: unchanged cells and right halves emit nothing; the   *)
(* cursor is moved and the style set only when they are not where they      *)
(* should be.  f.at is where tc_flush believes the cursor to be, f.cursor   *)
(* where it is.                                                             *)
FlushCell(f, p) ==
  LET b == back[p] IN
  IF b = f.front[p] THEN f
  ELSE IF b.ch = Right THEN [f EXCEPT !.front[p] = b]
  ELSE LET here == IF f.at = p THEN f.cursor ELSE p
           pen == IF f.style = b.st THEN f.pen ELSE b.st
       IN [front |-> [f.front EXCEPT ![p] = b],
           screen |-> Printed(f.screen, here, b.ch, pen),
           at |-> AtX(p, p[1] + Wcwidth(b.ch)),
           cursor |-> AtX(here, here[1] + Wcwidth(b.ch)),
           style |-> b.st, pen |-> pen]

RowMajor == [i \in 1 .. W * H |-> <<(i - 1) % W, (i - 1) \div W>>]
Nowhere == <<-1, -1>>
FlushStart == [front |-> front, screen |-> screen, at |-> Nowhere, cursor |-> Nowhere,
               style |-> -1, pen |-> -1]
TcFlush ==
  /\ frames < MaxFrames
  /\ LET f == FoldLeft(FlushCell, FlushStart, RowMajor)
     IN front' = f.front /\ screen' = f.screen
  /\ flushed' = TRUE /\ frames' = frames + 1 /\ sets' = 0
  /\ UNCHANGED <<size, back, resized, window, torn>>
-----------------------------------------------------------------------------
(* The window changes size; the handler only notes it.  Two changes that    *)
(* cancel out before the next tc_poll are left out: they leave the grid, and *)
(* so the front buffer, as it was.                                          *)
Resize ==
  /\ ~resized /\ frames < MaxFrames
  /\ \E s \in Sizes \ {window} :
       /\ window' = s /\ resized' = TRUE
       /\ screen' = [p \in Grid(s) |-> Junk]
  /\ flushed' = FALSE
  /\ UNCHANGED <<size, back, front, torn, sets, frames>>

(* tc_poll reports a resize first; update_size allocates only when the size *)
(* did change, and the terminal may have been resized back meanwhile.       *)
PollResize ==
  /\ resized /\ resized' = FALSE
  /\ IF window # size THEN AllocGrid(window) /\ torn' = FALSE
     ELSE UNCHANGED <<size, front, back, torn>>
  /\ flushed' = FALSE
  /\ UNCHANGED <<window, screen, sets, frames>>

Next == \/ \E p \in DOMAIN back, st \in Styles :
             \/ \E ch \in Glyphs : TcSet(p, ch, st)
             \/ \E text \in Texts : TcPuts(p, text, st)
        \/ TcClear \/ TcFlush \/ Resize \/ PollResize

Spec == Init /\ [][Next]_gvars
-----------------------------------------------------------------------------
(* After a flush the terminal shows the back buffer, styles included, what- *)
(* ever was on it before: the deltas, the cursor that is moved only when    *)
(* needed and the style that is set only when it changes add up.  It says   *)
(* nothing once tc_set has left half a wide glyph in the grid.              *)
ScreenTrue ==
  flushed /\ window = size /\ ~torn => \A p \in DOMAIN back : screen[p] = back[p]
=============================================================================
