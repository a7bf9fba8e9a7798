----------------------------- MODULE Rencache -----------------------------
(***************************************************************************)
(* The studio's damage cache (studio/src/rencache.c): drawing calls are    *)
(* stored, hashed into a grid of cells, and only the rectangles around the *)
(* cells that changed since the last frame are painted again.              *)
(*                                                                         *)
(* A cell's hash is the list of the commands hashed into it, on top of the *)
(* value it was reset to: two different lists never collide here.  Text,   *)
(* images and lines are coloured rectangles, the ones they damage.         *)
(***************************************************************************)
EXTENDS Integers, Sequences, SequencesExt, FiniteSets

CONSTANTS
    CellsX, CellsY,   \* CELLS_X, CELLS_Y
    CellSize,         \* CELL_SIZE
    Sizes,            \* window sizes, <<width, height>>
    Areas,            \* rectangles drawn and clipped to
    Colors,
    Font,
    MaxCmds           \* commands in one frame

VARIABLES
    screenRect,   \* screen_rect
    cells, prev,  \* the hash grids
    cmds,         \* the command buffer, in order
    drawing,      \* between begin_frame and end_frame
    pic,          \* the window's pixels
    whole,        \* ... as painting every command of every frame would leave them
    freed         \* fonts freed

cacheVars == <<screenRect, cells, prev, cmds, drawing, pic, whole, freed>>

Rect(x, y, w, h) == [x |-> x, y |-> y, w |-> w, h |-> h]
Lo(a, b) == IF a < b THEN a ELSE b
Hi(a, b) == IF a > b THEN a ELSE b

\* rects_overlap: rectangles that only touch count.
Overlap(a, b) == /\ b.x + b.w >= a.x /\ b.x <= a.x + a.w
                 /\ b.y + b.h >= a.y /\ b.y <= a.y + a.h

Intersect(a, b) ==
    LET x1 == Hi(a.x, b.x)  x2 == Lo(a.x + a.w, b.x + b.w)
        y1 == Hi(a.y, b.y)  y2 == Lo(a.y + a.h, b.y + b.h)
    IN Rect(x1, y1, Hi(0, x2 - x1), Hi(0, y2 - y1))

Merge(a, b) ==
    LET x1 == Lo(a.x, b.x)  x2 == Hi(a.x + a.w, b.x + b.w)
        y1 == Lo(a.y, b.y)  y2 == Hi(a.y + a.h, b.y + b.h)
    IN Rect(x1, y1, x2 - x1, y2 - y1)

Inside(p, r) == p[1] \in r.x .. r.x + r.w - 1 /\ p[2] \in r.y .. r.y + r.h - 1

Cell == (0 .. CellsX - 1) \X (0 .. CellsY - 1)
Pixel == UNION {(0 .. s[1] - 1) \X (0 .. s[2] - 1) : s \in Sizes}

Zero == <<"zero">>            \* a static array's content
HashInitial == <<"initial">>
Invalid == <<"ff">>
Blank == [p \in Pixel |-> "lost"]

Init ==
    /\ screenRect = Rect(0, 0, 0, 0)
    /\ cells = [c \in Cell |-> Zero] /\ prev = [c \in Cell |-> Zero]
    /\ cmds = <<>> /\ drawing = FALSE
    /\ pic = Blank /\ whole = Blank /\ freed = {}

---------------------------------------------------------------------------
(* Frames and drawing calls *)

BeginNoInvalidate(size) ==
    /\ ~drawing /\ drawing' = TRUE
    /\ screenRect' = Rect(0, 0, size[1], size[2])
    /\ IF screenRect' = screenRect THEN UNCHANGED <<pic, whole>>
       ELSE pic' = Blank /\ whole' = Blank
    /\ UNCHANGED <<prev, cells, cmds, freed>>

\* rencache_begin_frame: a window that was resized starts from nothing.
BeginFrame(size) ==
    /\ ~drawing /\ drawing' = TRUE
    /\ screenRect' = Rect(0, 0, size[1], size[2])
    /\ IF screenRect' = screenRect THEN UNCHANGED <<prev, pic, whole>>
       ELSE /\ prev' = [c \in Cell |-> Invalid]
            /\ pic' = Blank /\ whole' = Blank
    /\ UNCHANGED <<cells, cmds, freed>>

\* rencache_invalidate, when the window system lost the window's content.
Invalidate ==
    /\ ~drawing
    /\ prev' = [c \in Cell |-> Invalid]
    /\ pic' = Blank /\ whole' = Blank
    /\ UNCHANGED <<screenRect, cells, cmds, drawing, freed>>

Push(cmd) == drawing /\ Len(cmds) < MaxCmds /\ cmds' = Append(cmds, cmd)

SetClip(r) ==
    /\ Push([type |-> "clip", rect |-> Intersect(r, screenRect), color |-> "none"])
    /\ UNCHANGED <<screenRect, cells, prev, drawing, pic, whole, freed>>

\* rencache_draw_rect, _image, _line and _text.
Draw(r, color) ==
    /\ Overlap(screenRect, r)
    /\ Push([type |-> "draw", rect |-> r, color |-> color])
    /\ UNCHANGED <<screenRect, cells, prev, drawing, pic, whole, freed>>

FreeFont(f) ==
    /\ f \notin freed /\ \A i \in DOMAIN cmds : cmds[i].color # f
    /\ Push([type |-> "free", rect |-> Rect(0, 0, 0, 0), color |-> f])
    /\ UNCHANGED <<screenRect, cells, prev, drawing, pic, whole, freed>>

---------------------------------------------------------------------------
(* rencache_end_frame *)

\* Painting: a command changes the pixels inside its rectangle and the clip.
Paint(pixels, clip, cmd) ==
    [p \in Pixel |-> IF Inside(p, cmd.rect) /\ Inside(p, clip) /\ Inside(p, screenRect)
                     THEN cmd.color ELSE pixels[p]]

\* All commands, within one rectangle: SET_CLIP narrows it, each anew.
PaintWithin(pixels, r) ==
    FoldLeft(LAMBDA st, cmd :
               CASE cmd.type = "clip" -> [st EXCEPT !.clip = Intersect(cmd.rect, r)]
                 [] cmd.type = "draw" -> [st EXCEPT !.pix = Paint(@, st.clip, cmd)]
                 [] cmd.type = "free" -> st,
             [pix |-> pixels, clip |-> r], cmds).pix

\* The grid's cells a rectangle reaches, clamped to the grid.
CellsOf(r) ==
    (Hi(r.x \div CellSize, 0) .. Lo((r.x + r.w) \div CellSize, CellsX - 1))
      \X (Hi(r.y \div CellSize, 0) .. Lo((r.y + r.h) \div CellSize, CellsY - 1))

HashDrawsOnly(grid, clip, cmd) ==
    LET r == Intersect(cmd.rect, clip)
    IN IF r.w = 0 \/ r.h = 0 \/ cmd.type # "draw" THEN grid
       ELSE [c \in Cell |-> IF c \in CellsOf(r) THEN Append(grid[c], cmd) ELSE grid[c]]

\* One command hashed into the cells it reaches (update_overlapping_cells).
HashCommand(grid, clip, cmd) ==
    LET r == Intersect(cmd.rect, clip)
    IN IF r.w = 0 \/ r.h = 0 THEN grid
       ELSE [c \in Cell |-> IF c \in CellsOf(r) THEN Append(grid[c], cmd) ELSE grid[c]]

Hashed == FoldLeft(LAMBDA st, cmd :
                     LET clip == IF cmd.type = "clip" THEN cmd.rect ELSE st.clip
                     IN [clip |-> clip, grid |-> HashCommand(st.grid, clip, cmd)],
                   [clip |-> screenRect, grid |-> cells], cmds).grid

\* The cells compared this frame, row by row.
Scanned == LET mx == Lo(screenRect.w \div CellSize + 1, CellsX)
               my == Lo(screenRect.h \div CellSize + 1, CellsY)
           IN [i \in 1 .. mx * my |-> <<(i - 1) % mx, (i - 1) \div mx>>]

\* push_rect: merged into the last rectangle it touches, else added.
PushRect(rects, r) ==
    LET touching == {i \in DOMAIN rects : Overlap(rects[i], r)}
    IN IF touching = {} THEN Append(rects, r)
       ELSE LET i == CHOOSE k \in touching : \A j \in touching : j <= k
            IN [rects EXCEPT ![i] = Merge(@, r)]

\* The rectangles to paint again: of cells, then of pixels.
DirtyRects(grid) ==
    LET changed == SelectSeq(Scanned, LAMBDA c : grid[c] # prev[c])
        rects == FoldLeft(LAMBDA rs, c : PushRect(rs, Rect(c[1], c[2], 1, 1)), <<>>, changed)
    IN [i \in DOMAIN rects |->
          Intersect(Rect(rects[i].x * CellSize, rects[i].y * CellSize,
                         rects[i].w * CellSize, rects[i].h * CellSize), screenRect)]

EndFrame ==
    /\ drawing
    /\ LET grid == Hashed
       IN /\ pic' = FoldLeft(PaintWithin, pic, DirtyRects(grid))
          /\ prev' = grid
          /\ cells' = [c \in Cell |-> IF c \in ToSet(Scanned) THEN HashInitial ELSE prev[c]]
    /\ whole' = PaintWithin(whole, screenRect)
    /\ freed' = freed \cup {cmds[i].color : i \in {k \in DOMAIN cmds : cmds[k].type = "free"}}
    /\ cmds' = <<>> /\ drawing' = FALSE
    /\ UNCHANGED screenRect

Next ==
    \/ \E s \in Sizes : BeginFrame(s)
    \/ Invalidate \/ EndFrame
    \/ \E r \in Areas : SetClip(r) \/ \E c \in Colors : Draw(r, c)
    \/ \E f \in Font : FreeFont(f)

Spec == Init /\ [][Next]_cacheVars

---------------------------------------------------------------------------
(* Properties *)

\* The window shows what painting every command everywhere would show: a cell whose
\* hash did not change needs no paint, and painting a rectangle twice, or a rectangle
\* grown by a merge, spoils nothing, through clips, resizes and lost windows.
PictureTrue == pic = whole

=============================================================================
