-------------------------------- MODULE Pty ---------------------------------
(***************************************************************************)
(* The terminal pane of the studio: the pseudo-terminal of                 *)
(* studio/src/api/pty.c and the view that drives it once a frame,          *)
(* studio/data/core/terminalview.lua.                                      *)
(*                                                                         *)
(* The child and the kernel are external: the child writes, reads, exits   *)
(* or is hung up, and an exited child keeps its pid until it is reaped;    *)
(* afterwards the pid may belong to another process.  Output and input are *)
(* counted, in chunks.                                                     *)
(* Bounds: MaxOut and MaxIn chunks, Room the capacity of each direction,   *)
(* Drain reads a frame (256 in the view).                                  *)
(***************************************************************************)
EXTENDS Integers

CONSTANTS MaxOut, MaxIn, Room, Drain

VARIABLES child,    \* "none", "running", "zombie", "reaped"
          stranger, \* another process has the pid
          output,   \* written by the child and not read
          input,    \* written to the child and not read
          handle,   \* pty_handle: [open, exited], or None
          view,     \* [dead, closed]
          written, keyed, \* history: all output, and all input asked for
          hit       \* history: a signal went to a stranger

pvars == <<child, stranger, output, input, handle, view, written, keyed, hit>>

None == [open |-> FALSE, exited |-> FALSE, freed |-> TRUE]

Init == /\ child = "none" /\ stranger = FALSE /\ output = 0 /\ input = 0
        /\ handle = None /\ view = [dead |-> FALSE, closed |-> FALSE]
        /\ written = 0 /\ keyed = 0 /\ hit = FALSE

KeepHistory == UNCHANGED <<written, keyed>>
-----------------------------------------------------------------------------
(* f_open: forkpty, or its failure, which leaves a dead view.               *)
Open ==
  /\ child = "none" /\ ~view.dead
  /\ \/ child' = "running" /\ handle' = [open |-> TRUE, exited |-> FALSE, freed |-> FALSE]
        /\ UNCHANGED view
     \/ view' = [view EXCEPT !.dead = TRUE] /\ UNCHANGED <<child, handle>>
  /\ UNCHANGED <<stranger, output, input, hit>> /\ KeepHistory

(* reap: the pid is given back only when waitpid returned it.               *)
ReapForgets(h) == h
Reap(h) == IF child = "zombie" /\ ~h.exited THEN [h EXCEPT !.exited = TRUE] ELSE h
ReapedNever(h) == child
Reaped(h) == IF child = "zombie" /\ ~h.exited THEN "reaped" ELSE child

(* f_read: what is there, nothing, or the end once the child side is gone.  *)
Readable == handle.open /\ output > 0

(* One frame of the view: it reaps first, and a child that is gone ends the *)
(* frame; else it reads a bounded number of times.                          *)
Update ==
  /\ ~view.dead /\ ~view.closed /\ ~handle.freed
  /\ handle' = Reap(handle) /\ child' = Reaped(handle)
  /\ IF handle'.exited
     THEN view' = [view EXCEPT !.dead = TRUE] /\ UNCHANGED output
     ELSE /\ output' = IF Readable THEN IF output < Drain THEN 0 ELSE output - Drain
                                  ELSE output
          /\ UNCHANGED view
  /\ UNCHANGED <<stranger, input, hit>> /\ KeepHistory

(* TerminalView:send: the view drops what f_write did not take.             *)
Send ==
  /\ ~view.dead /\ ~view.closed /\ handle.open /\ keyed < MaxIn
  /\ \E n \in 1 .. MaxIn - keyed :
       /\ keyed' = keyed + n
       /\ input' = IF child # "running" THEN input
                   ELSE IF input + n < Room THEN input + n ELSE Room
  /\ UNCHANGED <<child, stranger, output, handle, view, written, hit>>

(* pty_close, by the view's close and again by the collection of its        *)
(* handle: the master is closed, a child not reaped yet is hung up and      *)
(* reaped if it is gone already.                                            *)
PtyClose ==
  /\ hit' = (hit \/ (~handle.exited /\ stranger))
  /\ IF handle.exited THEN handle' = [handle EXCEPT !.open = FALSE] /\ child' = child
     ELSE handle' = [Reap(handle) EXCEPT !.open = FALSE] /\ child' = Reaped(handle)
Close ==
  /\ ~view.closed /\ ~handle.freed /\ view' = [view EXCEPT !.closed = TRUE]
  /\ PtyClose
  /\ UNCHANGED <<stranger, output, input>> /\ KeepHistory
Gc ==
  /\ view.closed /\ ~handle.freed
  /\ hit' = (hit \/ (~handle.exited /\ stranger))
  /\ child' = (IF handle.exited THEN child ELSE Reaped(handle)) /\ handle' = None
  /\ UNCHANGED <<stranger, output, input, view>> /\ KeepHistory
-----------------------------------------------------------------------------
(* The child, external.  With the master closed it has nobody to write to.  *)
ChildWrites ==
  /\ child = "running" /\ handle.open /\ written < MaxOut /\ output < Room
  /\ written' = written + 1 /\ output' = output + 1
  /\ UNCHANGED <<child, stranger, input, handle, view, keyed, hit>>
ChildReads ==
  /\ child = "running" /\ input > 0 /\ input' = input - 1
  /\ UNCHANGED <<child, stranger, output, handle, view, hit>> /\ KeepHistory
ChildExits ==
  /\ child = "running" /\ child' = "zombie"
  /\ UNCHANGED <<stranger, output, input, handle, view, hit>> /\ KeepHistory
PidReused ==
  /\ child = "reaped" /\ ~stranger /\ stranger' = TRUE
  /\ UNCHANGED <<child, output, input, handle, view, hit>> /\ KeepHistory

Next == \/ Open \/ Update \/ Send \/ Close \/ Gc
        \/ ChildWrites \/ ChildReads \/ ChildExits \/ PidReused
Spec == Init /\ [][Next]_pvars
FairSpec == Spec /\ WF_pvars(Update)
-----------------------------------------------------------------------------
(* The hang-up of a pane never goes to a process that got the pid of a      *)
(* child reaped before, whichever of a frame, a close and a collection      *)
(* reaped it.                                                               *)
KillsOwn == ~hit
=============================================================================
