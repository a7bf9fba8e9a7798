------------------------------- MODULE Voice -------------------------------
(***************************************************************************)
(* Dictation (src/src/lvoice.c): the audio thread that fills the utterance *)
(* buffer, the transcription thread, and the main thread that starts and   *)
(* stops them and takes the events off the loop.  The user interface is    *)
(* the terminal's (src/lua/tui.lua 548-590): it starts when nothing        *)
(* listens, stops when something listens, and on a "final" event stops if  *)
(* it still listens.  A text stands for the length of audio it covers.     *)
(***************************************************************************)
EXTENDS Integers, Sequences

CONSTANTS
    MaxAudio,    \* VOICE_MAX_SAMPLES, in chunks
    MaxStarts,   \* sessions the user starts
    Model        \* the whisper models a session may name

VARIABLES
    running,    \* G.running
    threadUp,   \* G.thread_up: the thread has not been joined
    devices,    \* capture devices open: G.device, and one more for each it replaced
    cap,        \* chunks in G.cap
    ctx,        \* G.ctx: the loaded model, "none" when freed
    cbref,      \* the handler: the session it belongs to, 0 for LUA_NOREF
    partial, final,   \* pending_partial and pending_final, 0 when there is none
    finalText,  \* G.final_text: [set, text]
    async,      \* the async handle was sent and its callback has not run
    tpc, snap, lastN, \* the transcription thread: place, snapshot, last pass
    mpc,        \* the main thread: "ui", "join", "final", "handler", "down"
    start,      \* sessions started
    told        \* texts handed to the handler in this session, with their kind

voiceVars == <<running, threadUp, devices, cap, ctx, cbref, partial, final, finalText,
               async, tpc, snap, lastN, mpc, start, told>>

NoText == [set |-> FALSE, text |-> 0]

Init ==
    /\ running = FALSE /\ threadUp = FALSE /\ devices = 0 /\ cap = 0
    /\ ctx = "none" /\ cbref = 0 /\ partial = 0 /\ final = 0 /\ finalText = NoText
    /\ async = FALSE /\ tpc = "none" /\ snap = 0 /\ lastN = 0
    /\ mpc = "ui" /\ start = 0 /\ told = <<>>

tVars == <<tpc, snap, lastN>>

---------------------------------------------------------------------------
(* The audio thread: capture_cb *)

Capture ==
    /\ devices > (IF mpc = "join" THEN 1 ELSE 0) /\ cap < MaxAudio
    /\ cap' = cap + 1
    /\ UNCHANGED <<running, threadUp, devices, ctx, cbref, partial, final, finalText,
                   async, tVars, mpc, start, told>>

---------------------------------------------------------------------------
(* The transcription thread *)

\* The loop's head: the flag, then the snapshot under the lock.
Look ==
    /\ tpc = "loop"
    /\ IF running THEN tpc' = "looked" /\ snap' = cap ELSE tpc' = "last" /\ UNCHANGED snap
    /\ UNCHANGED <<running, threadUp, devices, cap, ctx, cbref, partial, final, finalText,
                   async, lastN, mpc, start, told>>

\* A partial: whisper over the snapshot, then emit_partial, which replaces a partial
\* that was not delivered yet; or nothing this time round.
Pass ==
    /\ tpc = "looked" /\ tpc' = "loop"
    /\ \/ /\ snap > lastN /\ lastN' = snap
          /\ \/ partial' = snap /\ async' = TRUE
             \/ UNCHANGED <<partial, async>>               \* whisper failed
       \/ UNCHANGED <<lastN, partial, async>>
    /\ UNCHANGED <<running, threadUp, devices, cap, ctx, cbref, final, finalText, snap,
                   mpc, start, told>>

VadClearsFirst ==
    /\ tpc = "looked" /\ snap > 0
    /\ tpc' = "vad" /\ running' = FALSE
    /\ \/ final' = snap /\ async' = TRUE
       \/ UNCHANGED <<final, async>>
    /\ UNCHANGED <<threadUp, devices, cap, ctx, cbref, partial, finalText, snap, lastN,
                   mpc, start, told>>

\* The silence after speech: the final text is posted under the lock ...
VadPost ==
    /\ tpc = "looked" /\ snap > 0
    /\ tpc' = "vad"
    /\ \/ final' = snap /\ async' = TRUE
       \/ UNCHANGED <<final, async>>
    /\ UNCHANGED <<running, threadUp, devices, cap, ctx, cbref, partial, finalText, snap, lastN,
                   mpc, start, told>>

\* ... and only then the flag is cleared.
VadStop ==
    /\ tpc = "vad"
    /\ running' = FALSE /\ tpc' = "exited"
    /\ UNCHANGED <<threadUp, devices, cap, ctx, cbref, partial, final, finalText, async,
                   snap, lastN, mpc, start, told>>

\* The final pass of an explicit stop.
LastPass ==
    /\ tpc = "last" /\ tpc' = "exited"
    /\ snap' = cap
    /\ \/ cap > 0 /\ finalText' = [set |-> TRUE, text |-> cap]
       \/ UNCHANGED finalText
    /\ UNCHANGED <<running, threadUp, devices, cap, ctx, cbref, partial, final, async, lastN,
                   mpc, start, told>>

Thread == Look \/ Pass \/ VadPost \/ VadStop \/ LastPass

---------------------------------------------------------------------------
(* The main thread *)

\* l_start: refused while running is set; otherwise the events of the session before
\* are dropped, and device and thread are opened anew.
Start(m) ==
    /\ mpc = "ui" /\ ~running /\ start < MaxStarts
    /\ ctx' = m                      \* voice_warm_ctx: another model's context is freed
    /\ cap' = 0 /\ finalText' = NoText /\ partial' = 0 /\ final' = 0
    /\ \/ /\ devices' = devices + 1 /\ running' = TRUE /\ threadUp' = TRUE
          /\ cbref' = start + 1 /\ tpc' = "loop"
          /\ snap' = 0 /\ lastN' = 0
       \/ /\ cbref' = 0 /\ UNCHANGED <<devices, running, threadUp, tVars>>  \* no microphone
    /\ start' = start + 1 /\ told' = <<>>
    /\ UNCHANGED <<async, mpc>>

\* l_stop: the device stops, the flag is cleared, the thread is joined (the terminal
\* calls it while something listens, and push-to-talk whenever the key is let go) ...
Stop(where) ==
    /\ mpc = where
    /\ running \/ (where = "ui" /\ threadUp)
    /\ running' = FALSE /\ mpc' = "join"
    /\ UNCHANGED <<threadUp, devices, cap, ctx, cbref, partial, final, finalText, async, tVars,
                   start, told>>

\* ... the device is closed, what was pending is dropped, the text is returned.
Joined ==
    /\ mpc = "join" /\ tpc \in {"none", "exited"}
    /\ threadUp' = FALSE /\ devices' = IF threadUp THEN devices - 1 ELSE devices
    /\ partial' = 0 /\ final' = 0 /\ cbref' = 0 /\ finalText' = NoText
    /\ mpc' = "ui"
    /\ UNCHANGED <<running, cap, ctx, async, tVars, start, told>>

DeliverFinalFirst ==
    /\ mpc = "ui" /\ async
    /\ async' = FALSE
    /\ partial' = 0 /\ final' = 0
    /\ told' = IF cbref = 0 THEN told
               ELSE told \o (IF final # 0 THEN <<[kind |-> "final", text |-> final]>> ELSE <<>>)
                         \o (IF partial # 0 THEN <<[kind |-> "partial", text |-> partial]>> ELSE <<>>)
    /\ UNCHANGED <<running, threadUp, devices, cap, ctx, cbref, finalText, tVars, start, mpc>>

\* voice_async_cb: both pending texts are taken under the lock, the partial is
\* delivered first, the final after it.
Deliver ==
    /\ mpc = "ui" /\ async
    /\ async' = FALSE
    /\ partial' = 0 /\ final' = 0
    /\ told' = IF cbref = 0 THEN told
               ELSE told \o (IF partial # 0 THEN <<[kind |-> "partial", text |-> partial]>> ELSE <<>>)
                         \o (IF final # 0 THEN <<[kind |-> "final", text |-> final]>> ELSE <<>>)
    /\ mpc' = IF final # 0 /\ cbref # 0 THEN "handler" ELSE mpc
    /\ UNCHANGED <<running, threadUp, devices, cap, ctx, cbref, finalText, tVars, start>>

\* The "final" handler of the terminal: the microphone is torn down if it listens.
HandlerEnds ==
    /\ mpc = "handler" /\ ~running
    /\ mpc' = "ui"
    /\ UNCHANGED <<running, threadUp, devices, cap, ctx, cbref, partial, final, finalText, async,
                   tVars, start, told>>

\* boggart_voice_shutdown, from main or from an exit hook: a thread that is up is
\* joined first, then the model is freed.
Shutdown ==
    /\ mpc \in {"ui", "handler"}
    /\ mpc' = "down" /\ running' = FALSE
    /\ UNCHANGED <<threadUp, devices, cap, ctx, cbref, partial, final, finalText, async, tVars,
                   start, told>>

ShutdownFrees ==
    /\ mpc = "down" /\ ctx # "none"
    /\ ctx' = "none"
    /\ UNCHANGED <<running, threadUp, devices, cap, cbref, partial, final, finalText, async,
                   tVars, mpc, start, told>>

ShutdownJoined ==
    /\ mpc = "down" /\ ctx # "none"
    /\ threadUp => tpc \in {"none", "exited"}
    /\ threadUp' = FALSE /\ devices' = IF threadUp THEN devices - 1 ELSE devices
    /\ ctx' = "none" /\ cap' = 0 /\ finalText' = NoText /\ partial' = 0 /\ final' = 0
    /\ UNCHANGED <<running, cbref, async, tVars, mpc, start, told>>

MainRuns == Joined \/ Deliver \/ Stop("handler") \/ HandlerEnds \/ ShutdownJoined

Next ==
    \/ Capture \/ Thread \/ MainRuns
    \/ \E m \in Model : Start(m)
    \/ Stop("ui") \/ Shutdown

Spec == Init /\ [][Next]_voiceVars /\ WF_voiceVars(Thread) /\ WF_voiceVars(MainRuns)

---------------------------------------------------------------------------
(* Properties *)

\* The handler of a session hears texts that grow, the final one last and once,
\* whatever was coalesced and whichever side ended the session.
TextsGrow ==
    \A i, j \in DOMAIN told : i < j =>
        told[i].kind = "partial" /\ told[i].text <= told[j].text

\* A pass runs on a loaded model that nobody frees or replaces under it: a start, which
\* looks at the flag alone, never meets a thread still in a pass, nor does the shutdown.
ModelHeld ==
    /\ tpc \in {"loop", "looked", "vad", "last"} => ctx # "none" /\ threadUp
    /\ mpc = "ui" /\ ~running => tpc \in {"none", "exited"}
=============================================================================
