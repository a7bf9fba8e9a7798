------------------------------ MODULE TermMode ------------------------------
(***************************************************************************)
(* The modes src/src/termctl.c puts the terminal in, and the ways it takes *)
(* them back: tc_shutdown, the exit handler, and the signal handlers.      *)
(* lua/tui.lua shuts the terminal down and starts it again around the      *)
(* user's editor.                                                          *)
(*                                                                         *)
(* tc_init and tc_shutdown are sequences of steps, `pc' being the next     *)
(* one: a signal can come between any two.  The crash reporter of          *)
(* src/src/bogcrash.c is installed before the terminal is.                 *)
(* Bound: MaxInits calls of tc_init.                                       *)
(***************************************************************************)
EXTENDS Integers, FiniteSets

CONSTANT MaxInits

VARIABLES tty,       \* the terminal: raw, nonblock and the modes of its screen
          pc,
          inited, rawActive, onLoop, savedNonblock,
          handler,   \* who gets a fatal and a crash signal
          prevCrash, \* prev_crash
          atExit,    \* atexit handlers registered
          ended,     \* how the process ended
          report,    \* a crash report was written
          early,     \* history: the signal came when the tty was raw and not yet known to be
          inits

mvars == <<tty, pc, inited, rawActive, onLoop, savedNonblock, handler, prevCrash, atExit,
           ended, report, early, inits>>

Cooked == [raw |-> FALSE, nonblock |-> FALSE, screen |-> {}]

Init == /\ tty = Cooked /\ pc = "idle"
        /\ inited = FALSE /\ rawActive = FALSE /\ onLoop = FALSE /\ savedNonblock = FALSE
        /\ handler = [fatal |-> "default", crash |-> "report"]
        /\ prevCrash = "none" /\ atExit = 0
        /\ ended = "no" /\ report = FALSE /\ early = FALSE /\ inits = 0

Running == ended = "no"
Step(from, to) == Running /\ pc = from /\ pc' = to
KeepProcess == UNCHANGED <<ended, report, early>>
KeepSignals == UNCHANGED <<handler, prevCrash, atExit>>

(* restore_tty: the screen always, the line discipline when raw_active.     *)
RestoreScreenOnly(t) == [t EXCEPT !.screen = {}]
Restore(t) == [t EXCEPT !.screen = {}, !.raw = @ /\ ~rawActive]
-----------------------------------------------------------------------------
(* tc_init *)
InitRaw == /\ ~inited /\ inits < MaxInits /\ inits' = inits + 1
           /\ Step("idle", "noteRaw") /\ tty' = [tty EXCEPT !.raw = TRUE]
           /\ UNCHANGED <<inited, rawActive, onLoop, savedNonblock>> /\ KeepSignals /\ KeepProcess
InitNoteRaw == /\ Step("noteRaw", "grid") /\ rawActive' = TRUE
               /\ UNCHANGED <<tty, inited, onLoop, savedNonblock, inits>> /\ KeepSignals /\ KeepProcess
(* No memory for the grid: the line discipline is put back.                 *)
InitGrid ==
  /\ \/ Step("grid", "signals") /\ UNCHANGED <<tty, rawActive>>
     \/ Step("grid", "idle") /\ tty' = Restore(tty) /\ rawActive' = FALSE
  /\ UNCHANGED <<inited, onLoop, savedNonblock, inits>> /\ KeepSignals /\ KeepProcess
(* install_signals *)
InitFatalSignals ==
  /\ Step("signals", "crash") /\ handler' = [handler EXCEPT !.fatal = "termctl"]
  /\ UNCHANGED <<tty, inited, rawActive, onLoop, savedNonblock, prevCrash, atExit, inits>> /\ KeepProcess
InitCrashSignals ==
  /\ Step("crash", "atexit")
  /\ prevCrash' = handler.crash /\ handler' = [handler EXCEPT !.crash = "termctl"]
  /\ UNCHANGED <<tty, inited, rawActive, onLoop, savedNonblock, atExit, inits>> /\ KeepProcess
InitAtExit ==
  /\ Step("atexit", "screen") /\ atExit' = atExit + 1
  /\ UNCHANGED <<tty, inited, rawActive, onLoop, savedNonblock, handler, prevCrash, inits>> /\ KeepProcess
InitScreen ==
  /\ \E mode \in {"alt", "hidden", "paste"} \ tty.screen :
       /\ tty' = [tty EXCEPT !.screen = @ \cup {mode}]
       /\ Step("screen", IF mode = "paste" THEN "inited" ELSE "screen")
       /\ mode # "alt" => "alt" \in tty.screen
       /\ mode = "paste" => "hidden" \in tty.screen
  /\ UNCHANGED <<inited, rawActive, onLoop, savedNonblock, inits>> /\ KeepSignals /\ KeepProcess
InitDone == /\ Step("inited", "idle") /\ inited' = TRUE
            /\ UNCHANGED <<tty, rawActive, onLoop, savedNonblock, inits>> /\ KeepSignals /\ KeepProcess

(* tc_mouse *)
TcMouse == /\ Step("idle", "idle") /\ inited
           /\ \E s \in {tty.screen \cup {"mouse"}, tty.screen \ {"mouse"}} : tty' = [tty EXCEPT !.screen = s]
           /\ UNCHANGED <<inited, rawActive, onLoop, savedNonblock, inits>> /\ KeepSignals /\ KeepProcess

(* tc_attach_loop: the flags are read, then uv_poll_init sets O_NONBLOCK.   *)
(* uv_poll_start does not fail once uv_poll_init has taken the fd.          *)
Attach == /\ Step("idle", "idle") /\ inited /\ ~onLoop
          /\ savedNonblock' = tty.nonblock /\ tty' = [tty EXCEPT !.nonblock = TRUE]
          /\ onLoop' = TRUE
          /\ UNCHANGED <<inited, rawActive, inits>> /\ KeepSignals /\ KeepProcess

(* tc_detach_loop *)
DetachKeepsFlags == onLoop' = FALSE /\ tty' = tty
Detached == /\ onLoop' = FALSE
            /\ tty' = IF onLoop THEN [tty EXCEPT !.nonblock = savedNonblock] ELSE tty
Detach == /\ Step("idle", "idle") /\ onLoop /\ Detached
          /\ UNCHANGED <<inited, rawActive, savedNonblock, inits>> /\ KeepSignals /\ KeepProcess

(* tc_shutdown, by the front end or by the exit handler.                    *)
ShutdownDetach ==
  /\ inited /\ Detached
  /\ \/ Step("idle", "restore") \/ Step("exiting", "exitRestore")
  /\ UNCHANGED <<inited, rawActive, savedNonblock, inits>> /\ KeepSignals /\ KeepProcess
ShutdownScreen ==
  /\ \/ Step("restore", "cook") \/ Step("exitRestore", "exitCook")
  /\ tty' = [Restore(tty) EXCEPT !.raw = tty.raw]
  /\ UNCHANGED <<inited, rawActive, onLoop, savedNonblock, inits>> /\ KeepSignals /\ KeepProcess
ShutdownCook ==
  /\ \/ Step("cook", "shut") \/ Step("exitCook", "exitShut")
  /\ tty' = Restore(tty) /\ rawActive' = FALSE
  /\ UNCHANGED <<inited, onLoop, savedNonblock, inits>> /\ KeepSignals /\ KeepProcess
ShutdownDone ==
  /\ \/ Step("shut", "idle") \/ Step("exitShut", "exiting")
  /\ inited' = FALSE
  /\ UNCHANGED <<tty, rawActive, onLoop, savedNonblock, inits>> /\ KeepSignals /\ KeepProcess
-----------------------------------------------------------------------------
(* exit() runs the handlers of atexit, each a tc_shutdown.                  *)
Exit == /\ Step("idle", "exiting") /\ ended' = "no"
        /\ UNCHANGED <<tty, inited, rawActive, onLoop, savedNonblock, inits, report, early>> /\ KeepSignals
Exited == /\ Step("exiting", "gone") /\ (inited => atExit = 0) /\ ended' = "exit"
          /\ UNCHANGED <<tty, inited, rawActive, onLoop, savedNonblock, inits, report, early>> /\ KeepSignals

Dies(how, ours) ==
  /\ Running /\ ended' = how /\ pc' = "gone"
  /\ early' = (tty.raw /\ ~(rawActive /\ ours))
  /\ UNCHANGED <<inited, onLoop, savedNonblock, inits>> /\ KeepSignals

(* on_signal: put the tty back, then die with the default disposition.      *)
FatalSignal ==
  /\ Dies("signal", handler.fatal = "termctl") /\ report' = FALSE
  /\ IF handler.fatal = "default" THEN UNCHANGED <<tty, rawActive>>
     ELSE tty' = Restore(tty) /\ rawActive' = FALSE

(* on_crash_signal: put the tty back, then call the handler that was there  *)
(* before, which is the crash reporter unless tc_init ran before.           *)
CrashSignal ==
  /\ Dies("crash", handler.crash = "termctl")
  /\ IF handler.crash = "report" THEN UNCHANGED <<tty, rawActive>> /\ report' = TRUE
     ELSE /\ tty' = Restore(tty) /\ rawActive' = FALSE
          /\ report' = (prevCrash = "report")

Next == \/ InitRaw \/ InitNoteRaw \/ InitGrid \/ InitFatalSignals \/ InitCrashSignals
        \/ InitAtExit \/ InitScreen \/ InitDone
        \/ TcMouse \/ Attach \/ Detach
        \/ ShutdownDetach \/ ShutdownScreen \/ ShutdownCook \/ ShutdownDone
        \/ Exit \/ Exited \/ FatalSignal \/ CrashSignal
Spec == Init /\ [][Next]_mvars
-----------------------------------------------------------------------------
(* However the process ends, by itself or by a signal at any step of        *)
(* tc_init, of tc_shutdown or between, the shell finds its screen and its   *)
(* line discipline as they were, and after an exit its blocking reads too.  *)
(* It says nothing of a signal that comes before tc_init has installed its  *)
(* handlers or noted that the tty is raw.                                   *)
TtyRestored ==
  ~Running /\ ~early => /\ tty.screen = {} /\ ~tty.raw
                        /\ ended = "exit" => ~tty.nonblock
=============================================================================
