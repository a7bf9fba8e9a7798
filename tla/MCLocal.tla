------------------------------ MODULE MCLocal ------------------------------
(***************************************************************************)
(* What the process does with the machine it runs on, on one instance: the *)
(* window's picture (Rencache), the project's directories (Dirmonitor),    *)
(* the terminal's screen, keys and modes (TermGrid, TermInput, TermMode),  *)
(* dictation (Voice), the file of keys (Auth), the sound file (Wav) and    *)
(* the streamed reply (TextStream).  They share no state, so every         *)
(* behaviour runs one of them, which `active' names, and leaves the others *)
(* where they begin.                                                       *)
(***************************************************************************)
EXTENDS Integers, Sequences, FiniteSets, TLC

CONSTANTS
  CellsX, CellsY, CellSize, Sizes, Areas, Colors, Font, MaxCmds,   \* of the picture
  Dir, MaxDirty, KernelLimit, MaxChange,                           \* of the directories
  Grids, Styles, Texts, MaxSets, MaxFrames,                        \* of the screen
  Units, MaxKeys, MaxBytes, BufCap,                                \* of the keys
  MaxInits,                                                        \* of the modes
  MaxAudio, MaxStarts, Model,                                      \* of dictation
  Proc, Urls, Numeric, Slots, MaxSlots, Registered, Env, Keys, MaxWrites, MaxReads,  \* of the file of keys
  U32, Files, Rates, Channels, VOICE_SAMPLE_RATE,                  \* of the sound file
  Byte, MaxReply, MaxDelta                                         \* of the reply

VARIABLES
  active,
  screenRect, cells, prev, cmds, drawing, pic, whole, freed,
  disk, read, watches, queue, pending, overflowed, exhausted, todo, towatch, spc, unseen,
  size, back, front, resized, window, screen, flushed, torn, sets, frames,
  wire, closed, typed, inbuf, inlen, eof, pasting, paste, attached, events, cut,
  tty, pc, inited, rawActive, onLoop, savedNonblock, handler, prevCrash, atExit, ended, report,
  early, inits,
  running, threadUp, devices, cap, ctx, cbref, partial, final, finalText, async, tpc, snap,
  lastN, mpc, start, told,
  file, stamps, mem, known, apc, op, tmp, answer, seen, want, writers, raced, failed, reads,
  fsz, off, form, data, wpc,
  reply, held, shown, over

\* Processes differ in nothing but their names.
Symmetry == Permutations(Proc)

\* Windows, rectangles and texts of the picture and of the grid.
MCRect(x, y, w, h) == [x |-> x, y |-> y, w |-> w, h |-> h]
MCSizes == {<<4, 2>>, <<6, 3>>}
MCAreas == {MCRect(0, 0, 6, 3), MCRect(3, -1, 2, 3)}
MCGrids == {<<3, 1>>, <<1, 2>>}
MCTexts == {<<"W", "mark", "a">>, <<"a", "cut", "a">>}

\* Keys: a character of two bytes, alt and a letter, control and an arrow, a click and a
\* paste, each as the bytes a terminal sends and the event they mean.
Key(bytes, event) == [bytes |-> bytes, event |-> event]
Pressed(key, mods, char) == [type |-> "key", key |-> key, mods |-> mods, char |-> char]
MCKeys ==
  {Key(<<195, 169>>, Pressed("char", 0, 233)),
   Key(<<27, 97>>, Pressed("char", 2, 97)),
   Key(<<27, 91, 49, 59, 53, 65>>, Pressed("up", 4, 0)),
   Key(<<27, 91, 60, 48, 59, 51, 59, 50, 77>>, [type |-> "mouse", button |-> 0, mx |-> 2, my |-> 1]),
   Key(<<27, 91, 50, 48, 48, 126, 120, 27, 91, 50, 48, 49, 126>>, [type |-> "paste", text |-> <<120>>])}

MCUrls == {<<"api", "vendor", "com">>}
MCRegistered == {<<"vendor", <<"vendor", "com">>>>}

\* "none" is not the name of a model.
ASSUME ModelAssumption == "none" \notin Model

\* A length, a size, a rate and a number of channels are unsigned numbers.
ASSUME UnsignedAssumption ==
  /\ U32 \in Nat \ {0} /\ Files \subseteq Nat /\ Rates \subseteq Nat /\ Channels \subseteq Nat
  /\ VOICE_SAMPLE_RATE \in Nat \ {0}

\* Bytes are numbers below 256, at most MaxDelta of them in a delta.
ASSUME ByteAssumption == Byte \subseteq 0 .. 255 /\ MaxDelta \in Nat

Picture == INSTANCE Rencache
Dirs == INSTANCE Dirmonitor
Grid == INSTANCE TermGrid WITH Sizes <- Grids
Typing == INSTANCE TermInput
Tty == INSTANCE TermMode
Dictation == INSTANCE Voice
KeyFile == INSTANCE Auth WITH pc <- apc
Sound == INSTANCE Wav WITH Sizes <- Files
Stream == INSTANCE TextStream WITH MaxBytes <- MaxReply, whole <- reply, pending <- held, flushed <- over

pictureVars == <<screenRect, cells, prev, cmds, drawing, pic, whole, freed>>
dirsVars == <<disk, read, watches, queue, pending, overflowed, exhausted, todo, towatch, spc, unseen>>
gridVars == <<size, back, front, resized, window, screen, flushed, torn, sets, frames>>
keysVars == <<wire, closed, typed, inbuf, inlen, eof, pasting, paste, attached, events, cut>>
ttyVars == <<tty, pc, inited, rawActive, onLoop, savedNonblock, handler, prevCrash, atExit,
            ended, report, early, inits>>
voiceVars == <<running, threadUp, devices, cap, ctx, cbref, partial, final, finalText, async,
              tpc, snap, lastN, mpc, start, told>>
authVars == <<file, stamps, mem, known, apc, op, tmp, answer, seen, want, writers, raced, failed, reads>>
wavVars == <<fsz, off, form, data, wpc>>
streamVars == <<reply, held, shown, over>>

OnPicture == active = "picture" /\ UNCHANGED <<active, dirsVars, gridVars, keysVars, ttyVars, voiceVars, authVars, wavVars, streamVars>>
OnDirs == active = "dirs" /\ UNCHANGED <<active, pictureVars, gridVars, keysVars, ttyVars, voiceVars, authVars, wavVars, streamVars>>
OnGrid == active = "grid" /\ UNCHANGED <<active, pictureVars, dirsVars, keysVars, ttyVars, voiceVars, authVars, wavVars, streamVars>>
OnKeys == active = "keys" /\ UNCHANGED <<active, pictureVars, dirsVars, gridVars, ttyVars, voiceVars, authVars, wavVars, streamVars>>
OnTty == active = "tty" /\ UNCHANGED <<active, pictureVars, dirsVars, gridVars, keysVars, voiceVars, authVars, wavVars, streamVars>>
OnVoice == active = "voice" /\ UNCHANGED <<active, pictureVars, dirsVars, gridVars, keysVars, ttyVars, authVars, wavVars, streamVars>>
\* Once two saves of the key file overlap nothing is promised of it, and the run ends there.
OnAuth == active = "auth" /\ ~raced /\ UNCHANGED <<active, pictureVars, dirsVars, gridVars, keysVars, ttyVars, voiceVars, wavVars, streamVars>>
OnWav == active = "wav" /\ UNCHANGED <<active, pictureVars, dirsVars, gridVars, keysVars, ttyVars, voiceVars, authVars, streamVars>>
OnStream == active = "stream" /\ UNCHANGED <<active, pictureVars, dirsVars, gridVars, keysVars, ttyVars, voiceVars, authVars, wavVars>>

Begun == /\ Picture!Init /\ Dirs!Init /\ Grid!Init /\ Typing!Init /\ Tty!Init
         /\ Dictation!Init /\ KeyFile!Init /\ Sound!Init /\ Stream!Init
         /\ active # "grid" => size = (CHOOSE s \in Grids : TRUE)

Init == /\ active \in {"picture", "dirs", "grid", "keys", "tty", "voice", "auth", "wav", "stream"}
        /\ Begun

Next ==
  \/ \E s \in Sizes : OnPicture /\ Picture!BeginFrame(s)
  \/ OnPicture /\ Picture!Invalidate
  \/ OnPicture /\ Picture!EndFrame
  \/ \E r \in Areas : \/ OnPicture /\ Picture!SetClip(r)
                      \/ \E c \in Colors : OnPicture /\ Picture!Draw(r, c)
  \/ \E f \in Font : OnPicture /\ Picture!FreeFont(f)
  \/ OnDirs /\ Dirs!Scanner
  \/ \E d \in Dir : OnDirs /\ Dirs!Change(d)
  \/ OnGrid /\ \E p \in DOMAIN back, st \in Styles, ch \in Grid!Glyphs : Grid!TcSet(p, ch, st)
  \/ OnGrid /\ \E p \in DOMAIN back, st \in Styles, text \in Texts : Grid!TcPuts(p, text, st)
  \/ OnGrid /\ Grid!TcClear
  \/ OnGrid /\ Grid!TcFlush
  \/ OnGrid /\ Grid!Resize
  \/ OnGrid /\ Grid!PollResize
  \/ OnKeys /\ Typing!Type
  \/ OnKeys /\ Typing!Close
  \/ OnKeys /\ Typing!OnStdinReadable
  \/ OnKeys /\ Typing!TcPollAttached
  \/ OnKeys /\ Typing!TcPoll
  \/ OnKeys /\ Typing!Attach
  \/ OnKeys /\ Typing!Detach
  \/ OnTty /\ Tty!InitRaw
  \/ OnTty /\ Tty!InitNoteRaw
  \/ OnTty /\ Tty!InitGrid
  \/ OnTty /\ Tty!InitFatalSignals
  \/ OnTty /\ Tty!InitCrashSignals
  \/ OnTty /\ Tty!InitAtExit
  \/ OnTty /\ Tty!InitScreen
  \/ OnTty /\ Tty!InitDone
  \/ OnTty /\ Tty!TcMouse
  \/ OnTty /\ Tty!Attach
  \/ OnTty /\ Tty!Detach
  \/ OnTty /\ Tty!ShutdownDetach
  \/ OnTty /\ Tty!ShutdownScreen
  \/ OnTty /\ Tty!ShutdownCook
  \/ OnTty /\ Tty!ShutdownDone
  \/ OnTty /\ Tty!Exit
  \/ OnTty /\ Tty!Exited
  \/ OnTty /\ Tty!FatalSignal
  \/ OnTty /\ Tty!CrashSignal
  \/ OnVoice /\ Dictation!Capture
  \/ OnVoice /\ Dictation!Thread
  \/ OnVoice /\ Dictation!MainRuns
  \/ \E m \in Model : OnVoice /\ Dictation!Start(m)
  \/ OnVoice /\ Dictation!Stop("ui")
  \/ OnVoice /\ Dictation!Shutdown
  \/ \E p \in Proc : \/ OnAuth /\ KeyFile!BeginRead(p)
                     \/ OnAuth /\ KeyFile!BeginWrite(p)
                     \/ OnAuth /\ KeyFile!LoadStat(p)
                     \/ OnAuth /\ KeyFile!LoadRead(p)
                     \/ OnAuth /\ KeyFile!Resolve(p)
                     \/ OnAuth /\ KeyFile!Answer(p)
                     \/ OnAuth /\ KeyFile!Return(p)
                     \/ OnAuth /\ KeyFile!Apply(p)
                     \/ OnAuth /\ KeyFile!Rename(p)
                     \/ OnAuth /\ KeyFile!SaveFails(p)
                     \/ OnAuth /\ KeyFile!Restat(p)
  \/ OnWav /\ Sound!FmtChunk
  \/ OnWav /\ Sound!DataChunk
  \/ OnWav /\ Sound!OtherChunk
  \/ OnWav /\ Sound!Walked
  \/ OnWav /\ Sound!Decoded
  \/ \E delta \in Stream!Deltas : OnStream /\ Stream!Feed(delta)
  \/ OnStream /\ Stream!Flush

vars == <<active, pictureVars, dirsVars, gridVars, keysVars, ttyVars, voiceVars, authVars, wavVars,
          streamVars>>

Spec == Init /\ [][Next]_vars

-----------------------------------------------------------------------------
(* Properties *)

\* The window shows what painting every frame whole would show (rencache.c).
PictureTrue == active = "picture" => Picture!PictureTrue

\* A change in a watched directory is not forgotten (dirmonitor.c, init.lua).
SeenChangesKept == active = "dirs" => Dirs!SeenChangesKept

\* After a flush the terminal shows the grid (termctl.c).
ScreenTrue == active = "grid" => Grid!ScreenTrue

\* The keys typed are the events returned (termctl.c).
KeysTrue == active = "keys" => Typing!KeysTrue

\* However the process ends, the terminal is given back as it was (termctl.c).
TtyRestored == active = "tty" => Tty!TtyRestored

\* Dictation: texts reach the handler of their session and no other, and the model in use is
\* not freed (lvoice.c).
VoiceTrue == active = "voice" => Dictation!TextsGrow /\ Dictation!ModelHeld

\* Answers are fresh, and saves that do not overlap add up (lauth.c).
AuthTrue == active = "auth" => KeyFile!AnswersFresh /\ KeyFile!SavesAddUp

\* No sample is read outside the file (lvoice.c).
FramesInside == active = "wav" => Sound!FramesInside

\* The reply is shown whole, and its strings come back (lua/api.lua, ljson.c).
StreamTrue == active = "stream" => Stream!StreamWhole /\ Stream!StringsReturn
=============================================================================
