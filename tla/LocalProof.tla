----------------------------- MODULE LocalProof -----------------------------
(***************************************************************************)
(* What the process does with the machine it runs on is right for every    *)
(* value of the constants: the terminal is given back, no sample is read   *)
(* outside a sound file, dictation hands over growing texts and keeps its  *)
(* model, the file of keys loses no save and gives fresh answers, no       *)
(* change of a watched directory is forgotten, and a streamed reply is     *)
(* shown whole and its strings parse back.                                 *)
(***************************************************************************)
EXTENDS MCLocal, TLAPS, SequenceTheorems, WellFoundedInduction

---------------------------------------------------------------------------
(* The one that runs goes on alone                                          *)

LEMMA ActiveStays == [Next]_vars => active' = active
BY SMTT(30) DEF Next, vars, OnPicture, OnDirs, OnGrid, OnKeys, OnTty, OnVoice, OnAuth, OnWav, OnStream

LEMMA TtyRuns == ASSUME active = "tty", [Next]_vars PROVE [Tty!Next]_ttyVars
BY SMTT(30) DEF Next, vars, OnPicture, OnDirs, OnGrid, OnKeys, OnTty, OnVoice, OnAuth, OnWav, OnStream, Tty!Next

LEMMA WavRuns == ASSUME active = "wav", [Next]_vars PROVE [Sound!Next]_wavVars
BY SMTT(30) DEF Next, vars, OnPicture, OnDirs, OnGrid, OnKeys, OnTty, OnVoice, OnAuth, OnWav, OnStream, Sound!Next

LEMMA StreamRuns == ASSUME active = "stream", [Next]_vars PROVE [Stream!Next]_streamVars
BY DEF Next, vars, OnPicture, OnDirs, OnGrid, OnKeys, OnTty, OnVoice, OnAuth, OnWav, OnStream, Stream!Next, streamVars

---------------------------------------------------------------------------
(* The terminal's modes                                                     *)

Modes == [raw : BOOLEAN, nonblock : BOOLEAN, screen : SUBSET {"alt", "hidden", "paste", "mouse"}]
Handlers == [fatal : {"default", "termctl"}, crash : {"report", "termctl"}]

TtyTypeOK == /\ tty \in Modes /\ handler \in Handlers
          /\ inited \in BOOLEAN /\ rawActive \in BOOLEAN /\ onLoop \in BOOLEAN
          /\ savedNonblock \in BOOLEAN /\ atExit \in Nat

(* What has been done to the terminal follows from the step that is next,   *)
(* and the handlers are there before the screen is touched.                 *)
Guarded == tty.screen # {} => handler.fatal = "termctl" /\ handler.crash = "termctl"
Blocking == tty.nonblock => onLoop /\ ~savedNonblock
IsCooked == ~tty.raw /\ ~tty.nonblock /\ tty.screen = {}
OffLoop == ~onLoop /\ ~tty.nonblock
Ready == handler.fatal = "termctl" /\ handler.crash = "termctl" /\ atExit > 0

Starting == {"noteRaw", "grid", "signals", "crash", "atexit"}
Showing == {"screen", "inited"}

Stages ==
  /\ pc \in {"idle", "exiting"} /\ ~inited => IsCooked /\ ~onLoop
  /\ pc \in {"idle", "exiting"} /\ inited => rawActive /\ Ready
  /\ pc \in Starting => ~inited /\ OffLoop /\ tty.screen = {}
  /\ pc \in (Starting \ {"noteRaw"}) => rawActive
  /\ pc \in {"crash", "atexit"} => handler.fatal = "termctl"
  /\ pc = "atexit" => handler.crash = "termctl"
  /\ pc \in Showing => ~inited /\ OffLoop /\ rawActive /\ Ready
  /\ pc \in {"restore", "exitRestore"} => OffLoop /\ rawActive
  /\ pc \in {"cook", "exitCook"} => OffLoop /\ rawActive /\ tty.screen = {}
  /\ pc \in {"shut", "exitShut"} => ~onLoop /\ IsCooked

ModeInv ==
  /\ TtyTypeOK /\ Guarded /\ Tty!TtyRestored
  /\ Tty!Running => Stages /\ Blocking /\ (onLoop => ~savedNonblock)

LEMMA ModeInit == Tty!Init => ModeInv
<1> SUFFICES ASSUME Tty!Init PROVE ModeInv
  OBVIOUS
<1>1. tty \in Modes /\ IsCooked
  BY DEF Tty!Init, Modes, Tty!Cooked, IsCooked
<1>2. handler \in Handlers
  BY DEF Tty!Init, Handlers
<1>3. TtyTypeOK /\ Guarded /\ Blocking
  BY <1>1, <1>2 DEF Tty!Init, TtyTypeOK, Guarded, Blocking, IsCooked
<1>4. Stages
  BY <1>1 DEF Tty!Init, Stages, Starting, Showing
<1> QED BY <1>1, <1>3, <1>4 DEF Tty!Init, ModeInv, Tty!TtyRestored, Tty!Running

(* Each step of tc_init finds the terminal as the steps before left it.     *)
LEMMA InitSteps ==
  ASSUME ModeInv,
         Tty!InitRaw \/ Tty!InitNoteRaw \/ Tty!InitGrid \/ Tty!InitFatalSignals \/ Tty!InitCrashSignals
         \/ Tty!InitAtExit \/ Tty!InitScreen \/ Tty!InitDone
  PROVE  ModeInv'
<1> USE DEF ModeInv, Tty!KeepProcess, Tty!KeepSignals, Tty!Step, Tty!Running
<1>1. CASE Tty!InitRaw
  BY <1>1 DEF Tty!InitRaw, TtyTypeOK, Modes, Handlers, Guarded, Tty!TtyRestored, Stages, Blocking, IsCooked,
              OffLoop, Ready, Starting, Showing
<1>2. CASE Tty!InitNoteRaw
  BY <1>2 DEF Tty!InitNoteRaw, TtyTypeOK, Guarded, Tty!TtyRestored, Stages, Blocking, IsCooked,
              OffLoop, Ready, Starting, Showing
<1>3. CASE Tty!InitGrid
  BY <1>3 DEF Tty!InitGrid, Tty!Restore, TtyTypeOK, Modes, Guarded, Tty!TtyRestored, Stages, Blocking, IsCooked,
              OffLoop, Ready, Starting, Showing
<1>4. CASE Tty!InitFatalSignals
  BY <1>4 DEF Tty!InitFatalSignals, TtyTypeOK, Handlers, Guarded, Tty!TtyRestored, Stages, Blocking, IsCooked,
              OffLoop, Ready, Starting, Showing
<1>5. CASE Tty!InitCrashSignals
  BY <1>5 DEF Tty!InitCrashSignals, TtyTypeOK, Handlers, Guarded, Tty!TtyRestored, Stages, Blocking, IsCooked,
              OffLoop, Ready, Starting, Showing
<1>6. CASE Tty!InitAtExit
  BY <1>6 DEF Tty!InitAtExit, TtyTypeOK, Guarded, Tty!TtyRestored, Stages, Blocking, IsCooked,
              OffLoop, Ready, Starting, Showing
<1>7. CASE Tty!InitScreen
  <2>1. PICK mode \in {"alt", "hidden", "paste"} :
          /\ tty' = [tty EXCEPT !.screen = @ \cup {mode}]
          /\ Tty!Step("screen", IF mode = "paste" THEN "inited" ELSE "screen")
    BY <1>7 DEF Tty!InitScreen
  <2>2. /\ tty' \in Modes
        /\ tty'.raw = tty.raw /\ tty'.nonblock = tty.nonblock
    BY <2>1 DEF TtyTypeOK, Modes
  <2>3. pc \in Showing /\ pc' \in Showing
    BY <2>1 DEF Showing
  <2> QED BY <1>7, <2>2, <2>3 DEF Tty!InitScreen, TtyTypeOK, Guarded, Tty!TtyRestored, Stages, Blocking,
              OffLoop, Ready, Starting, Showing
<1>8. CASE Tty!InitDone
  BY <1>8 DEF Tty!InitDone, TtyTypeOK, Guarded, Tty!TtyRestored, Stages, Blocking, IsCooked,
              OffLoop, Ready, Starting, Showing
<1> QED BY <1>1, <1>2, <1>3, <1>4, <1>5, <1>6, <1>7, <1>8

(* The terminal in use, and attached to the loop.                           *)
LEMMA UseSteps ==
  ASSUME ModeInv, Tty!TcMouse \/ Tty!Attach \/ Tty!Detach
  PROVE  ModeInv'
<1> USE DEF ModeInv, Tty!KeepProcess, Tty!KeepSignals, Tty!Step, Tty!Running
<1>1. CASE Tty!TcMouse
  BY <1>1 DEF Tty!TcMouse, TtyTypeOK, Modes, Handlers, Guarded, Tty!TtyRestored, Stages, Blocking,
              Ready, Starting, Showing
<1>2. CASE Tty!Attach
  BY <1>2 DEF Tty!Attach, TtyTypeOK, Modes, Handlers, Guarded, Tty!TtyRestored, Stages, Blocking,
              Ready, Starting, Showing
<1>3. CASE Tty!Detach
  BY <1>3 DEF Tty!Detach, Tty!Detached, TtyTypeOK, Modes, Handlers, Guarded, Tty!TtyRestored, Stages, Blocking,
              IsCooked, Ready, Starting, Showing
<1> QED BY <1>1, <1>2, <1>3

(* tc_shutdown: the flags, the screen, the line discipline, in this order.  *)
LEMMA ShutdownSteps ==
  ASSUME ModeInv, Tty!ShutdownDetach \/ Tty!ShutdownScreen \/ Tty!ShutdownCook \/ Tty!ShutdownDone \/ Tty!Exit
  PROVE  ModeInv'
<1> USE DEF ModeInv, Tty!KeepProcess, Tty!KeepSignals, Tty!Step, Tty!Running
<1>1. CASE Tty!ShutdownDetach
  BY <1>1 DEF Tty!ShutdownDetach, Tty!Detached, TtyTypeOK, Modes, Handlers, Guarded, Tty!TtyRestored, Stages,
              Blocking, OffLoop, Ready, Starting, Showing
<1>2. CASE Tty!ShutdownScreen
  BY <1>2 DEF Tty!ShutdownScreen, Tty!Restore, TtyTypeOK, Modes, Guarded, Tty!TtyRestored, Stages,
              Blocking, OffLoop, Ready, Starting, Showing
<1>3. CASE Tty!ShutdownCook
  BY <1>3 DEF Tty!ShutdownCook, Tty!Restore, TtyTypeOK, Modes, Guarded, Tty!TtyRestored, Stages,
              Blocking, OffLoop, IsCooked, Ready, Starting, Showing
<1>4. CASE Tty!ShutdownDone
  BY <1>4 DEF Tty!ShutdownDone, TtyTypeOK, Guarded, Tty!TtyRestored, Stages,
              Blocking, OffLoop, IsCooked, Ready, Starting, Showing
<1>5. CASE Tty!Exit
  BY <1>5 DEF Tty!Exit, TtyTypeOK, Guarded, Tty!TtyRestored, Stages,
              Blocking, OffLoop, IsCooked, Ready, Starting, Showing
<1> QED BY <1>1, <1>2, <1>3, <1>4, <1>5

(* The ends of the process: what the terminal is then is what TtyRestored   *)
(* speaks of, and nothing runs afterwards.                                  *)
LEMMA EndSteps ==
  ASSUME ModeInv, Tty!Exited \/ Tty!FatalSignal \/ Tty!CrashSignal
  PROVE  ModeInv'
<1>1. CASE Tty!Exited
  <2>1. ~inited
    BY <1>1 DEF Tty!Exited, Tty!Step, ModeInv, Tty!Running, Stages, Ready
  <2>2. IsCooked
    BY <1>1, <2>1 DEF Tty!Exited, Tty!Step, ModeInv, Tty!Running, Stages
  <2> QED BY <1>1, <2>2 DEF Tty!Exited, Tty!Step, Tty!KeepSignals, ModeInv, Tty!Running, TtyTypeOK, Guarded, Tty!TtyRestored, IsCooked
<1>2. CASE Tty!FatalSignal
  <2>1. CASE handler.fatal = "default"
    BY <1>2, <2>1 DEF Tty!FatalSignal, Tty!Dies, Tty!KeepSignals, ModeInv, Tty!Running, TtyTypeOK, Guarded, Tty!TtyRestored
  <2>2. CASE handler.fatal # "default"
    <3>1. handler.fatal = "termctl"
      BY <2>2 DEF ModeInv, TtyTypeOK, Handlers
    <3> QED BY <1>2, <2>2, <3>1 DEF Tty!FatalSignal, Tty!Dies, Tty!KeepSignals, Tty!Restore, ModeInv, Tty!Running, TtyTypeOK,
                Modes, Guarded, Tty!TtyRestored
  <2> QED BY <2>1, <2>2
<1>3. CASE Tty!CrashSignal
  <2>1. CASE handler.crash = "report"
    BY <1>3, <2>1 DEF Tty!CrashSignal, Tty!Dies, Tty!KeepSignals, ModeInv, Tty!Running, TtyTypeOK, Guarded, Tty!TtyRestored
  <2>2. CASE handler.crash # "report"
    <3>1. handler.crash = "termctl"
      BY <2>2 DEF ModeInv, TtyTypeOK, Handlers
    <3> QED BY <1>3, <2>2, <3>1 DEF Tty!CrashSignal, Tty!Dies, Tty!KeepSignals, Tty!Restore, ModeInv, Tty!Running, TtyTypeOK,
                Modes, Guarded, Tty!TtyRestored
  <2> QED BY <2>1, <2>2
<1> QED BY <1>1, <1>2, <1>3

LEMMA ModeStep == ModeInv /\ [Tty!Next]_ttyVars => ModeInv'
<1> SUFFICES ASSUME ModeInv, [Tty!Next]_ttyVars PROVE ModeInv'
  OBVIOUS
<1>1. CASE UNCHANGED ttyVars
  BY <1>1 DEF ttyVars, ModeInv, TtyTypeOK, Guarded, Tty!TtyRestored, Tty!Running, Stages, Blocking, IsCooked,
              OffLoop, Ready, Starting, Showing
<1> QED BY <1>1, InitSteps, UseSteps, ShutdownSteps, EndSteps DEF Tty!Next

(* However the process ends, the shell finds its terminal as it was         *)
(* (termctl.c, tc_init, tc_shutdown and the signal handlers).               *)
THEOREM TtyGivenBack == Spec => []TtyRestored
<1> DEFINE Inv == active = "tty" => ModeInv
<1>1. Init => Inv
  BY ModeInit DEF Init, Begun
<1>2. Inv /\ [Next]_vars => Inv'
  BY ActiveStays, TtyRuns, ModeStep
<1>3. Inv => TtyRestored
  BY DEF ModeInv, TtyRestored
<1> QED BY <1>1, <1>2, <1>3, PTL DEF Spec

---------------------------------------------------------------------------
(* The sound file                                                           *)

(* The data that was found lies in the file, and a form that is decoded has *)
(* frames.                                                                  *)
WavTypeOK == /\ fsz \in Nat /\ off \in Nat
          /\ form \in Sound!Forms \cup {Sound!NoForm}
          /\ data \in [at : Nat, len : Nat]
InFile == data.at + data.len <= fsz \/ data = [at |-> 0, len |-> 0]
Decodable == wpc \in {"decode", "resample"} =>
           data.at # 0 /\ form.rate # 0 /\ Sound!FrameBytes # 0 /\ Sound!Frames # 0
WavInv == WavTypeOK /\ InFile /\ Decodable

---------------------------------------------------------------------------
(* Division *)

LEMMA Division ==
  ASSUME NEW x \in Nat, NEW c \in Nat \ {0}
  PROVE  /\ x \div c \in Nat /\ x % c \in 0 .. c - 1
         /\ x = c * (x \div c) + (x % c)
BY SMT

LEMMA WholeFrames ==
  ASSUME NEW x \in Nat, NEW c \in Nat \ {0}
  PROVE  x \div c \in Nat /\ (x \div c) * c <= x
<1> DEFINE q == x \div c
<1>1. q \in Nat /\ x % c \in 0 .. c - 1 /\ x = c * q + (x % c)
  BY Division
<1> HIDE DEF q
<1>2. c * q \in Nat /\ c * q = q * c
  BY <1>1
<1>3. q * c <= x
  BY <1>1, <1>2
<1> QED BY <1>1, <1>3 DEF q

(* A product that is less than another times c is less than it in the       *)
(* quotient by c.                                                           *)
LEMMA Quotient ==
  ASSUME NEW x \in Nat, NEW c \in Nat \ {0}, NEW b \in Nat, x < b * c
  PROVE  x \div c < b
<1> DEFINE q == x \div c
<1>1. q \in Nat /\ q * c <= x
  BY WholeFrames
<1> HIDE DEF q
<1>2. CASE q >= b
  <2>1. PICK d \in Nat : q = b + d
    BY <1>1, <1>2
  <2>2. q * c = b * c + d * c /\ d * c \in Nat /\ b * c \in Nat /\ q * c \in Nat
    BY <1>1, <2>1
  <2> QED BY <1>1, <2>2
<1> QED BY <1>1, <1>2 DEF q

(* The frame before the i-th of n resampled ones.                           *)
LEMMA SourceInside ==
  ASSUME NEW f \in Nat \ {0}, NEW s \in Nat \ {0}, NEW r \in Nat \ {0}, NEW n \in Nat,
         n = (f * s) \div r, NEW i \in Nat, i < n \/ i = 0
  PROVE  (i * r) \div s < f
<1>1. f * s \in Nat \ {0} /\ i * r \in Nat
  BY SMT
<1>2. n * r <= f * s
  BY <1>1, WholeFrames
<1>3. i * r < f * s
  <2>1. CASE i = 0
    BY <1>1, <2>1
  <2>2. CASE i < n
    <3> DEFINE d == n - i
    <3>1. d \in Nat \ {0} /\ n = i + d
      BY <2>2
    <3> HIDE DEF d
    <3>2. n * r = i * r + d * r /\ d * r \in Nat \ {0} /\ n * r \in Nat
      BY <3>1
    <3> QED BY <1>1, <1>2, <3>2
  <2> QED BY <2>1, <2>2
<1> QED BY <1>1, <1>3, Quotient

---------------------------------------------------------------------------
LEMMA WavInit == Sound!Init => WavInv
BY UnsignedAssumption DEF Sound!Init, WavInv, WavTypeOK, InFile, Decodable, Sound!HEADER

(* The walk goes forward.                                                   *)
LEMMA Walks ==
  ASSUME WavInv, NEW cklen \in Nat, Sound!Advance(cklen) PROVE off' \in Nat
<1> DEFINE more == Sound!HEADER + cklen + (cklen % 2)
<1>1. more \in Nat
  BY DEF Sound!HEADER
<1> HIDE DEF more
<1>2. more % U32 \in Nat
  BY <1>1, UnsignedAssumption
<1> QED BY <1>2 DEF Sound!Advance, WavInv, WavTypeOK, Sound!HEADER, more

LEMMA WavStep == WavInv /\ [Sound!Next]_wavVars => WavInv'
<1> SUFFICES ASSUME WavInv, [Sound!Next]_wavVars PROVE WavInv'
  OBVIOUS
<1>0. U32 \in Nat
  BY UnsignedAssumption
<1>1. CASE Sound!FmtChunk
  <2>1. PICK cklen \in Nat : Sound!Advance(cklen)
    BY <1>0, <1>1 DEF Sound!FmtChunk, Sound!FMT
  <2>2. off' \in Nat
    BY <2>1, Walks
  <2> QED BY <1>1, <2>2 DEF Sound!FmtChunk, Sound!Here, WavInv, WavTypeOK, InFile, Decodable
<1>2. CASE Sound!DataChunk
  <2>1. PICK cklen \in Nat : Sound!Advance(cklen) /\ data' = Sound!Present(cklen)
    BY <1>0, <1>2 DEF Sound!DataChunk
  <2>2. off' \in Nat
    BY <2>1, Walks
  <2>3. data' \in [at : Nat, len : Nat] /\ data'.at + data'.len <= fsz
    BY <1>2, <2>1 DEF Sound!DataChunk, Sound!Here, Sound!Present, WavInv, WavTypeOK, Sound!HEADER
  <2> QED BY <1>2, <2>2, <2>3 DEF Sound!DataChunk, Sound!Here, WavInv, WavTypeOK, InFile, Decodable
<1>3. CASE Sound!OtherChunk
  <2>1. PICK cklen \in Nat : Sound!Advance(cklen)
    BY <1>0, <1>3 DEF Sound!OtherChunk
  <2>2. off' \in Nat
    BY <2>1, Walks
  <2> QED BY <1>3, <2>2 DEF Sound!OtherChunk, Sound!Here, WavInv, WavTypeOK, InFile, Decodable
<1>4. CASE Sound!Walked
  <2>1. UNCHANGED <<fsz, off, form, data, Sound!FrameBytes, Sound!Frames>>
    BY <1>4 DEF Sound!Walked, Sound!FrameBytes, Sound!Frames
  <2>2. wpc' = "decode" => data.at # 0 /\ form.rate # 0 /\ Sound!Frames # 0
    BY <1>4 DEF Sound!Walked
  <2>3. Sound!Frames # 0 => Sound!FrameBytes # 0
    BY DEF Sound!Frames
  <2>4. wpc' \in {"refused", "decode"}
    BY <1>4 DEF Sound!Walked
  <2> QED BY <2>1, <2>2, <2>3, <2>4 DEF WavInv, WavTypeOK, InFile, Decodable
<1>5. CASE Sound!Decoded
  <2>1. UNCHANGED <<fsz, off, form, data, Sound!FrameBytes, Sound!Frames>> /\ wpc = "decode"
    BY <1>5 DEF Sound!Decoded, Sound!FrameBytes, Sound!Frames
  <2> QED BY <2>1 DEF WavInv, WavTypeOK, InFile, Decodable
<1>6. CASE UNCHANGED wavVars
  <2>1. UNCHANGED <<fsz, off, form, data, Sound!FrameBytes, Sound!Frames, wpc>>
    BY <1>6 DEF wavVars, Sound!FrameBytes, Sound!Frames
  <2> QED BY <2>1 DEF WavInv, WavTypeOK, InFile, Decodable
<1> QED BY <1>1, <1>2, <1>3, <1>4, <1>5, <1>6 DEF Sound!Next

(* What is decoded and resampled is inside, by the invariant alone.         *)
LEMMA InsideFile == ASSUME WavInv PROVE Sound!FramesInside
<1>1. SUFFICES ASSUME wpc \in {"decode", "resample"} PROVE Sound!FramesInside
  BY DEF Sound!FramesInside
<1>2. data.at \in Nat /\ data.len \in Nat /\ data.at + data.len <= fsz /\ fsz \in Nat
  BY <1>1 DEF WavInv, WavTypeOK, InFile, Decodable
<1>3. form.bits \div 8 \in Nat /\ form.channels \in Nat /\ form.rate \in Nat \ {0}
  <2>1. form \in Sound!Forms \cup {Sound!NoForm} /\ form.rate # 0
    BY <1>1 DEF WavInv, WavTypeOK, Decodable
  <2>2. form \in Sound!Forms
    BY <2>1 DEF Sound!NoForm
  <2>3. form.bits \in {8, 16, 32} /\ form.channels \in Nat /\ form.rate \in Nat
    BY <2>2, UnsignedAssumption DEF Sound!Forms
  <2>4. form.bits \div 8 \in Nat
    BY <2>3, WholeFrames
  <2> QED BY <2>1, <2>3, <2>4
<1>4. Sound!FrameBytes \in Nat \ {0} /\ Sound!Frames # 0
  BY <1>1, <1>3 DEF Sound!FrameBytes, WavInv, Decodable
<1>5. Sound!Frames = data.len \div Sound!FrameBytes
  BY <1>4 DEF Sound!Frames
<1>6. Sound!Frames \in Nat \ {0} /\ Sound!Frames * Sound!FrameBytes <= data.len
  BY <1>2, <1>4, <1>5, WholeFrames
<1>7. data.at + Sound!Frames * Sound!FrameBytes <= fsz
  <2>1. Sound!Frames * Sound!FrameBytes \in Int
    BY <1>4, <1>6
  <2> QED BY <1>2, <1>6, <2>1
<1>8. ASSUME NEW i \in 0 .. Sound!OutFrames - 1 PROVE Sound!Source(i) < Sound!Frames /\ Sound!After(i) < Sound!Frames
  <2> DEFINE n == (Sound!Frames * VOICE_SAMPLE_RATE) \div form.rate
  <2>1. VOICE_SAMPLE_RATE \in Nat \ {0}
    BY UnsignedAssumption
  <2>2. Sound!Frames * VOICE_SAMPLE_RATE \in Nat
    BY <1>6, <2>1
  <2>3. n \in Nat
    BY <1>3, <2>2, WholeFrames
  <2>4. i \in Nat /\ (i < n \/ i = 0)
    BY <1>8, <2>3 DEF Sound!OutFrames
  <2>5. Sound!Source(i) < Sound!Frames
    <3> HIDE DEF n
    <3>1. n = (Sound!Frames * VOICE_SAMPLE_RATE) \div form.rate
      BY DEF n
    <3> QED BY <1>3, <1>6, <2>1, <2>3, <2>4, <3>1, SourceInside DEF Sound!Source
  <2>6. Sound!Source(i) \in Nat
    <3>1. i * form.rate \in Nat
      BY <1>3, <2>4
    <3> QED BY <2>1, <3>1, WholeFrames DEF Sound!Source
  <2> HIDE DEF n
  <2> QED BY <1>6, <2>5, <2>6 DEF Sound!After
<1> QED BY <1>7, <1>8 DEF Sound!FramesInside

(* Whatever the headers of a file say, the frames that are decoded lie in   *)
(* the file and resampling takes each sample from one of them (lvoice.c,    *)
(* wav_load_f32_mono16k).                                                   *)
THEOREM DecodesInside == Spec => []FramesInside
<1> DEFINE Inv == active = "wav" => WavInv
<1>1. Init => Inv
  BY WavInit DEF Init, Begun
<1>2. Inv /\ [Next]_vars => Inv'
  BY ActiveStays, WavRuns, WavStep
<1>3. Inv => FramesInside
  BY InsideFile DEF FramesInside
<1> QED BY <1>1, <1>2, <1>3, PTL DEF Spec

---------------------------------------------------------------------------
(* Dictation                                                                *)

(* Texts that grow, and only the last of them a final one.                  *)
Growing(texts) ==
  \A i, j \in DOMAIN texts : i < j => texts[i].kind = "partial" /\ texts[i].text <= texts[j].text
AllUnder(texts, n) == \A i \in DOMAIN texts : texts[i].kind = "partial" /\ texts[i].text <= n
PartialsUnder(texts, n) == \A i \in DOMAIN texts : texts[i].kind = "partial" => texts[i].text <= n
Closed(texts) == \E i \in DOMAIN texts : texts[i].kind = "final"
Heard == Seq([kind : {"partial", "final"}, text : Nat])
Transcribing == {"loop", "looked", "vad", "last"}
Gone == {"none", "exited"}

VoiceTypes ==
  /\ tpc \in Transcribing \cup Gone /\ threadUp \in BOOLEAN /\ running \in BOOLEAN
  /\ cap \in Nat /\ snap \in Nat /\ lastN \in Nat /\ partial \in Nat /\ final \in Nat
VoiceTypeOK == VoiceTypes /\ told \in Heard

(* The model is there and the thread is waited for as long as it works; and *)
(* where l_start and the end of the handler look at the flag alone, a flag  *)
(* that is down says that the thread is through.                            *)
Attended ==
  /\ tpc \in Transcribing => ctx # "none" /\ threadUp = TRUE
  /\ mpc \in {"ui", "handler"} /\ running = FALSE => tpc \in Gone

(* What was told, what is pending and what a pass has covered follow one    *)
(* another; a final text is the thread's last word, on its way or told.     *)
TextsOrdered ==
  /\ tpc \in Transcribing => lastN <= snap /\ snap <= cap
  /\ partial <= lastN
  /\ PartialsUnder(told, lastN)
  /\ partial # 0 => AllUnder(told, partial)
  /\ final # 0 => tpc \in {"vad", "exited"} /\ lastN <= final /\ AllUnder(told, final)
  /\ Closed(told) => partial = 0 /\ final = 0 /\ tpc \in {"vad", "exited"}
  /\ Growing(told)

VoiceInv == VoiceTypeOK /\ Attended /\ TextsOrdered

LEMMA VoiceRuns == ASSUME active = "voice", [Next]_vars PROVE [Dictation!Next]_voiceVars
BY DEF Next, vars, OnPicture, OnDirs, OnGrid, OnKeys, OnTty, OnVoice, OnAuth, OnWav, OnStream, Dictation!Next

(* A text that covers what was told before it may follow it.                *)
LEMMA OneMore ==
  ASSUME NEW texts \in Heard,
         NEW k \in {"partial", "final"}, NEW n \in Nat, AllUnder(texts, n), Growing(texts)
  PROVE  LET more == texts \o <<[kind |-> k, text |-> n]>> IN
         /\ more \in Heard
         /\ Growing(more)
         /\ DOMAIN more = DOMAIN texts \cup {Len(texts) + 1}
         /\ \A i \in DOMAIN texts : more[i] = texts[i]
         /\ more[Len(texts) + 1] = [kind |-> k, text |-> n]
<1> DEFINE more == texts \o <<[kind |-> k, text |-> n]>>
<1>1. more \in Heard
  BY DEF Heard
<1>2. /\ DOMAIN more = DOMAIN texts \cup {Len(texts) + 1}
      /\ \A i \in DOMAIN texts : more[i] = texts[i]
      /\ more[Len(texts) + 1] = [kind |-> k, text |-> n]
  BY DEF Heard
<1> HIDE DEF more
<1>3. \A i \in DOMAIN texts : i \in Nat /\ i <= Len(texts)
  BY DEF Heard
<1>4. Growing(more)
  <2> SUFFICES ASSUME NEW i \in DOMAIN more, NEW j \in DOMAIN more, i < j
               PROVE  more[i].kind = "partial" /\ more[i].text <= more[j].text
    BY DEF Growing
  <2>1. i \in DOMAIN texts
    BY <1>2, <1>3
  <2>2. more[i].kind = "partial" /\ more[i].text <= n
    BY <1>2, <2>1 DEF AllUnder
  <2>3. CASE j \in DOMAIN texts
    BY <1>2, <2>1, <2>3 DEF Growing
  <2>4. CASE j = Len(texts) + 1
    BY <1>2, <2>2, <2>4
  <2> QED BY <2>3, <2>4, <1>2
<1> QED BY <1>1, <1>2, <1>4 DEF more

LEMMA NothingHeard ==
  /\ <<>> \in Heard /\ Growing(<<>>) /\ ~Closed(<<>>)
  /\ \A n \in Nat : AllUnder(<<>>, n) /\ PartialsUnder(<<>>, n)
BY DEF Heard, Growing, Closed, AllUnder, PartialsUnder

(* While no final text was told, what was told is under all that follows.   *)
LEMMA Covers ==
  ASSUME NEW texts \in Heard, NEW n \in Nat, NEW k \in Nat, k <= n, PartialsUnder(texts, k)
  PROVE  PartialsUnder(texts, n) /\ (~Closed(texts) => AllUnder(texts, n))
<1>1. \A i \in DOMAIN texts : texts[i].kind \in {"partial", "final"} /\ texts[i].text \in Nat
  <2> DEFINE Text == [kind : {"partial", "final"}, text : Nat]
  <2>1. \A i \in DOMAIN texts : texts[i] \in Text
    <3>1. texts \in Seq(Text)
      BY DEF Heard
    <3> HIDE DEF Text
    <3> QED BY <3>1, ElementOfSeq
  <2> QED BY <2>1
<1> QED BY <1>1 DEF PartialsUnder, Closed, AllUnder

LEMMA VoiceInit == Dictation!Init => VoiceInv
<1> SUFFICES ASSUME Dictation!Init PROVE VoiceInv
  OBVIOUS
<1>1. told = <<>> /\ lastN = 0 /\ partial = 0 /\ final = 0
  BY DEF Dictation!Init
<1>2. told \in Heard /\ Growing(told) /\ ~Closed(told) /\ PartialsUnder(told, lastN)
  BY <1>1, NothingHeard
<1>3. VoiceTypes
  <2>1. /\ tpc = "none" /\ running = FALSE /\ threadUp = FALSE
        /\ cap = 0 /\ snap = 0 /\ lastN = 0 /\ partial = 0 /\ final = 0
    BY DEF Dictation!Init
  <2> QED BY <2>1 DEF VoiceTypes, Gone
<1>4. Attended
  BY <1>1, <1>2 DEF Dictation!Init, Attended, Transcribing, Gone
<1>5. TextsOrdered
  BY <1>1, <1>2 DEF Dictation!Init, TextsOrdered, Transcribing, Gone
<1> QED BY <1>2, <1>3, <1>4, <1>5 DEF VoiceInv, VoiceTypeOK

(* The audio thread and the transcription thread.                           *)
LEMMA ThreadSteps ==
  ASSUME VoiceInv, Dictation!Capture \/ Dictation!Thread
  PROVE  VoiceInv'
<1> USE DEF VoiceInv, VoiceTypeOK, VoiceTypes, Attended, TextsOrdered, Transcribing, Gone, Dictation!tVars
<1>1. CASE Dictation!Capture
  BY <1>1 DEF Dictation!Capture
<1>2. CASE Dictation!Look
  BY <1>2 DEF Dictation!Look
<1>3. CASE Dictation!Pass
  <2>1. ~Closed(told) /\ PartialsUnder(told, lastN) /\ lastN <= snap
    BY <1>3 DEF Dictation!Pass
  <2>2. PartialsUnder(told, snap) /\ AllUnder(told, snap)
    BY <2>1, Covers
  <2> QED BY <1>3, <2>1, <2>2 DEF Dictation!Pass
<1>4. CASE Dictation!VadPost
  <2>1. ~Closed(told) /\ PartialsUnder(told, lastN) /\ lastN <= snap
    BY <1>4 DEF Dictation!VadPost
  <2>2. AllUnder(told, snap)
    BY <2>1, Covers
  <2> QED BY <1>4, <2>1, <2>2 DEF Dictation!VadPost
<1>5. CASE Dictation!VadStop
  BY <1>5 DEF Dictation!VadStop
<1>6. CASE Dictation!LastPass
  BY <1>6 DEF Dictation!LastPass
<1> QED BY <1>1, <1>2, <1>3, <1>4, <1>5, <1>6 DEF Dictation!Thread

(* The main thread starts, stops and shuts down.                            *)
LEMMA SessionSteps ==
  ASSUME VoiceInv,
         \/ \E m \in Model : Dictation!Start(m)
         \/ Dictation!Stop("ui") \/ Dictation!Stop("handler") \/ Dictation!Joined
         \/ Dictation!HandlerEnds \/ Dictation!Shutdown \/ Dictation!ShutdownJoined
  PROVE  VoiceInv'
<1> USE DEF VoiceInv, VoiceTypeOK, VoiceTypes, Attended, TextsOrdered, Transcribing, Gone, Dictation!tVars
<1>1. CASE \E m \in Model : Dictation!Start(m)
  <2>1. told' = <<>> /\ lastN' \in Nat /\ partial' = 0 /\ final' = 0
    BY <1>1 DEF Dictation!Start
  <2>2. (told' \in Heard /\ Growing(told') /\ ~Closed(told') /\ PartialsUnder(told', lastN'))
    BY <2>1, NothingHeard
  <2>3. VoiceTypeOK' /\ Attended'
    <3>1. VoiceTypes'
      <4>1. /\ tpc' = tpc \/ tpc' = "loop"
            /\ running' = running \/ running' = TRUE
            /\ threadUp' = threadUp \/ threadUp' = TRUE
            /\ snap' = snap \/ snap' = 0
            /\ lastN' = lastN \/ lastN' = 0
            /\ cap' = 0 /\ partial' = 0 /\ final' = 0
        BY <1>1 DEF Dictation!Start
      <4>2. running' \in BOOLEAN /\ threadUp' \in BOOLEAN
        BY <4>1, Zenon
      <4>3. tpc' \in Transcribing \cup Gone
        BY <4>1
      <4>4. cap' \in Nat /\ snap' \in Nat /\ lastN' \in Nat /\ partial' \in Nat /\ final' \in Nat
        BY <4>1
      <4> QED BY <4>2, <4>3, <4>4, Zenon
    <3>2. Attended'
      BY <1>1, ModelAssumption DEF Dictation!Start
    <3> QED BY <2>2, <3>1, <3>2
  <2>4. TextsOrdered'
    BY <1>1, <2>1, <2>2, <2>3 DEF Dictation!Start
  <2> QED BY <2>3, <2>4
<1>2. CASE Dictation!Stop("ui")
  BY <1>2 DEF Dictation!Stop
<1>3. CASE Dictation!Stop("handler")
  BY <1>3 DEF Dictation!Stop
<1>4. CASE Dictation!Joined
  <2>1. VoiceTypeOK'
    BY <1>4 DEF Dictation!Joined
  <2>2. Attended'
    BY <1>4 DEF Dictation!Joined
  <2>3. TextsOrdered'
    BY <1>4 DEF Dictation!Joined
  <2> QED BY <2>1, <2>2, <2>3
<1>5. CASE Dictation!HandlerEnds
  BY <1>5 DEF Dictation!HandlerEnds
<1>6. CASE Dictation!Shutdown
  BY <1>6 DEF Dictation!Shutdown
<1>7. CASE Dictation!ShutdownJoined
  <2>1. VoiceTypeOK'
    BY <1>7 DEF Dictation!ShutdownJoined
  <2>2. Attended'
    BY <1>7 DEF Dictation!ShutdownJoined
  <2>3. TextsOrdered'
    BY <1>7 DEF Dictation!ShutdownJoined
  <2> QED BY <2>1, <2>2, <2>3
<1> QED BY <1>1, <1>2, <1>3, <1>4, <1>5, <1>6, <1>7

(* The loop hands over what is pending, the partial text before the final.  *)
LEMMA DeliverStep == ASSUME VoiceInv, Dictation!Deliver PROVE VoiceInv'
<1> DEFINE first == IF partial # 0 THEN <<[kind |-> "partial", text |-> partial]>> ELSE <<>>
           second == IF final # 0 THEN <<[kind |-> "final", text |-> final]>> ELSE <<>>
           half == told \o first
<1>1. Attended'
  BY DEF VoiceInv, VoiceTypeOK, VoiceTypes, Attended, Dictation!Deliver, Dictation!tVars, Transcribing, Gone
<1>2. UNCHANGED <<tpc, running, threadUp, cap, snap, lastN>> /\ partial' = 0 /\ final' = 0
  BY DEF Dictation!Deliver, Dictation!tVars
<1>3. CASE told' = told
  BY <1>1, <1>2, <1>3 DEF VoiceInv, VoiceTypeOK, VoiceTypes, TextsOrdered
<1>4. CASE told' # told
  <2>1. told' = half \o second /\ told \in Heard
    BY <1>4 DEF Dictation!Deliver, VoiceInv, VoiceTypeOK, VoiceTypes
  <2>2. /\ half \in Heard /\ Growing(half)
        /\ PartialsUnder(half, lastN)
        /\ final # 0 => AllUnder(half, final)
        /\ Closed(half) => final = 0 /\ tpc \in {"vad", "exited"}
    <3>1. CASE partial = 0
      <4>1. half = told
        BY <2>1, <3>1
      <4> QED BY <2>1, <4>1 DEF VoiceInv, TextsOrdered
    <3>2. CASE partial # 0
      <4>1. half = told \o <<[kind |-> "partial", text |-> partial]>> /\ partial \in Nat /\ AllUnder(told, partial)
            /\ Growing(told)
        BY <3>2 DEF VoiceInv, VoiceTypeOK, VoiceTypes, TextsOrdered
      <4> HIDE DEF half
      <4>2. /\ half \in Heard /\ Growing(half)
            /\ DOMAIN half = DOMAIN told \cup {Len(told) + 1}
            /\ \A i \in DOMAIN told : half[i] = told[i]
            /\ half[Len(told) + 1] = [kind |-> "partial", text |-> partial]
        BY <2>1, <4>1, OneMore
      <4>3. AllUnder(half, partial)
        BY <4>1, <4>2 DEF AllUnder
      <4>4. /\ partial <= lastN /\ lastN \in Nat /\ partial \in Nat /\ final \in Nat
            /\ final # 0 => lastN <= final
        BY DEF VoiceInv, VoiceTypeOK, VoiceTypes, TextsOrdered
      <4>5. ~Closed(half) /\ PartialsUnder(half, partial)
        BY <4>3 DEF AllUnder, Closed, PartialsUnder
      <4>6. PartialsUnder(half, lastN)
        BY <4>2, <4>4, <4>5, Covers
      <4>7. final # 0 => AllUnder(half, final)
        BY <4>2, <4>4, <4>5, <4>6, Covers
      <4> QED BY <4>2, <4>5, <4>6, <4>7
    <3> QED BY <3>1, <3>2
  <2>3. /\ told' \in Heard /\ Growing(told')
        /\ PartialsUnder(told', lastN)
        /\ Closed(told') => tpc \in {"vad", "exited"}
    <3> HIDE DEF half
    <3>1. CASE final = 0
      <4>1. told' = half
        BY <2>1, <2>2, <3>1
      <4> QED BY <2>2, <4>1
    <3>2. CASE final # 0
      <4>1. told' = half \o <<[kind |-> "final", text |-> final]>> /\ final \in Nat
        BY <2>1, <3>2 DEF VoiceInv, VoiceTypeOK, VoiceTypes
      <4>2. /\ told' \in Heard /\ Growing(told')
            /\ DOMAIN told' = DOMAIN half \cup {Len(half) + 1}
            /\ \A i \in DOMAIN half : told'[i] = half[i]
            /\ told'[Len(half) + 1] = [kind |-> "final", text |-> final]
        BY <2>2, <3>2, <4>1, OneMore
      <4>3. tpc \in {"vad", "exited"}
        BY <3>2 DEF VoiceInv, TextsOrdered
      <4>4. PartialsUnder(told', lastN)
        BY <2>2, <4>2 DEF PartialsUnder
      <4> QED BY <4>2, <4>3, <4>4
    <3> QED BY <3>1, <3>2
  <2>4. VoiceTypeOK'
    BY <1>2, <2>3 DEF VoiceInv, VoiceTypeOK, VoiceTypes
  <2>5. TextsOrdered'
    BY <1>2, <2>3 DEF VoiceInv, VoiceTypeOK, VoiceTypes, TextsOrdered
  <2> QED BY <1>1, <2>4, <2>5 DEF VoiceInv
<1> QED BY <1>3, <1>4

LEMMA VoiceStep == VoiceInv /\ [Dictation!Next]_voiceVars => VoiceInv'
<1> SUFFICES ASSUME VoiceInv, [Dictation!Next]_voiceVars PROVE VoiceInv'
  OBVIOUS
<1>1. CASE UNCHANGED voiceVars
  BY <1>1 DEF voiceVars, VoiceInv, VoiceTypeOK, VoiceTypes, Attended, TextsOrdered
<1> QED BY <1>1, ThreadSteps, SessionSteps, DeliverStep DEF Dictation!Next, Dictation!MainRuns, Dictation!Thread

(* Whatever the threads interleave, the handler of a session hears growing  *)
(* texts with the final one last, and a pass runs on a model nobody frees   *)
(* (lvoice.c, l_start, l_stop, voice_async_cb, boggart_voice_shutdown).     *)
THEOREM VoiceHeld == Spec => []VoiceTrue
<1> DEFINE Inv == active = "voice" => VoiceInv
<1>1. Init => Inv
  BY VoiceInit DEF Init, Begun
<1>2. Inv /\ [Next]_vars => Inv'
  BY ActiveStays, VoiceRuns, VoiceStep
<1>3. Inv => VoiceTrue
  BY DEF VoiceInv, Attended, TextsOrdered, Growing, VoiceTrue, Dictation!TextsGrow, Dictation!ModelHeld,
         Transcribing, Gone
<1> QED BY <1>1, <1>2, <1>3, PTL DEF Spec

---------------------------------------------------------------------------
(* The file of keys                                                         *)

Whole(d) == d = [keys |-> d.keys, base |-> d.base]
Reading == {"stat", "read", "apply", "answered"}
Places == {"idle", "rename", "restat"} \cup Reading

AuthTypeOK ==
  /\ stamps \in Nat /\ file = [stamp |-> stamps, data |-> file.data]
  /\ Whole(file.data) /\ KeyFile!Written(file.data) = file.data
  /\ stamps = 0 => file.data = KeyFile!EmptyData
  /\ DOMAIN mem = Proc /\ DOMAIN known = Proc /\ DOMAIN apc = Proc /\ DOMAIN op = Proc
  /\ DOMAIN tmp = Proc /\ DOMAIN answer = Proc /\ DOMAIN seen = Proc
  /\ writers \subseteq Proc

(* Where process p is in its operation, and what it remembers of the file.  *)
Operating(p) ==
  /\ apc[p] \in Places
  /\ p \in writers <=> KeyFile!IsWrite(op[p])
  /\ apc[p] \in {"idle", "answered"} => p \notin writers
  /\ apc[p] \in {"rename", "restat"} => p \in writers
  /\ op[p].do = "has_key" => op[p] = [do |-> "has_key", slot |-> op[p].slot]
  /\ known[p] \in Int /\ known[p] <= stamps /\ Whole(mem[p])
  /\ apc[p] = "stat" /\ p \in writers => known[p] = -1

(* A stamp that is known vouches for the copy, but for what a save that     *)
(* goes on has changed; and the copy a reader asks is one it could have     *)
(* found in the file.                                                       *)
Fresh(p) ==
  /\ known[p] = stamps /\ apc[p] \notin {"read", "rename", "restat"} => KeyFile!Written(mem[p]) = file.data
  /\ apc[p] = "apply" /\ p \notin writers => KeyFile!Written(mem[p]) \in seen[p]
  /\ apc[p] = "answered" => \E d \in seen[p] : answer[p] = KeyFile!Ask(op[p], d)

(* A save starts from the file, and the file stays as it is until then.     *)
Saving(p) ==
  /\ apc[p] = "apply" /\ p \in writers => mem[p] = file.data
  /\ apc[p] = "rename" => /\ tmp[p] = KeyFile!Written(mem[p])
                          /\ tmp[p] = KeyFile!Written(KeyFile!Change(op[p], file.data))
  /\ apc[p] = "restat" => KeyFile!Written(mem[p]) = file.data

AuthAt(p) ==
  /\ Operating(p)
  /\ apc[p] \in Reading /\ p \notin writers => file.data \in seen[p]
  /\ Saving(p)
  /\ ~failed => Fresh(p)

AuthInv ==
  ~raced =>
    /\ AuthTypeOK /\ file.data = want
    /\ \A p, q \in writers : p = q
    /\ \A p \in Proc : AuthAt(p)

---------------------------------------------------------------------------
(* The file as it is written is as it was, but for the keys that are unset. *)

LEMMA WrittenIsWhole ==
  ASSUME NEW d, Whole(d)
  PROVE  /\ Whole(KeyFile!Written(d))
         /\ KeyFile!Written(KeyFile!Written(d)) = KeyFile!Written(d)
         /\ KeyFile!Written(d).base = d.base
         /\ \A s : KeyFile!KeyOf(KeyFile!Written(d), s) = KeyFile!KeyOf(d, s)
<1> DEFINE set == {s \in DOMAIN d.keys : d.keys[s] # KeyFile!Unset}
           w == [s \in set |-> d.keys[s]]
<1>1. KeyFile!Written(d) = [keys |-> w, base |-> d.base]
  BY DEF KeyFile!Written, Whole
<1>2. {s \in DOMAIN w : w[s] # KeyFile!Unset} = set
  OBVIOUS
<1>3. [s \in {s \in DOMAIN w : w[s] # KeyFile!Unset} |-> w[s]] = w
  BY <1>2
<1>4. \A s : (IF s \in DOMAIN w THEN w[s] ELSE KeyFile!Unset) = (IF s \in DOMAIN d.keys THEN d.keys[s] ELSE KeyFile!Unset)
  OBVIOUS
<1> HIDE DEF w
<1>5. KeyFile!Written([keys |-> w, base |-> d.base]) = [keys |-> w, base |-> d.base]
  BY <1>3 DEF KeyFile!Written
<1>6. \A s : KeyFile!KeyOf([keys |-> w, base |-> d.base], s) = KeyFile!KeyOf(d, s)
  BY <1>4 DEF KeyFile!KeyOf
<1> QED BY <1>1, <1>5, <1>6 DEF Whole

LEMMA EmptyIsWhole == Whole(KeyFile!EmptyData) /\ KeyFile!Written(KeyFile!EmptyData) = KeyFile!EmptyData
<1> DEFINE w == [s \in {s \in DOMAIN <<>> : <<>>[s] # KeyFile!Unset} |-> <<>>[s]]
<1>1. w = <<>>
  <2>1. DOMAIN <<>> = {}
    OBVIOUS
  <2>2. {s \in DOMAIN <<>> : <<>>[s] # KeyFile!Unset} = {}
    BY <2>1
  <2> QED BY <2>1, <2>2
<1>2. KeyFile!EmptyData = [keys |-> <<>>, base |-> KeyFile!NoUrl]
  BY DEF KeyFile!EmptyData
<1>3. KeyFile!Written([keys |-> <<>>, base |-> KeyFile!NoUrl]) = [keys |-> w, base |-> KeyFile!NoUrl]
  BY DEF KeyFile!Written
<1> QED BY <1>1, <1>2, <1>3 DEF Whole

LEMMA ChangeIsWhole ==
  ASSUME NEW o, NEW d, Whole(d)
  PROVE  Whole(KeyFile!Change(o, d)) /\ (KeyFile!Refused(o, d) => KeyFile!Change(o, d) = d)
BY EmptyIsWhole DEF Whole, KeyFile!Change, KeyFile!Refused, KeyFile!SetKey

LEMMA AskWritten ==
  ASSUME NEW o, NEW d, Whole(d)
  PROVE  KeyFile!Ask(o, KeyFile!Written(d)) = KeyFile!Ask(o, d)
<1>1. KeyFile!Written(d).base = d.base /\ \A s : KeyFile!KeyOf(KeyFile!Written(d), s) = KeyFile!KeyOf(d, s)
  BY WrittenIsWhole
<1>2. \A s : KeyFile!KeyIn(KeyFile!Written(d), s) = KeyFile!KeyIn(d, s)
  BY <1>1 DEF KeyFile!KeyIn
<1>3. KeyFile!Current(KeyFile!Written(d)) = KeyFile!Current(d)
  BY <1>1 DEF KeyFile!Current
<1>4. \A u, s : KeyFile!Header(KeyFile!Written(d), u, s) = KeyFile!Header(d, u, s)
  BY <1>2, <1>3, SMTT(30) DEF KeyFile!Header
<1> QED BY <1>1, <1>2, <1>4 DEF KeyFile!Ask

---------------------------------------------------------------------------
LEMMA AuthRuns ==
  ASSUME active = "auth", [Next]_vars
  PROVE  (~raced /\ KeyFile!Next) \/ UNCHANGED authVars
BY DEF Next, vars, OnPicture, OnDirs, OnGrid, OnKeys, OnTty, OnVoice, OnAuth, OnWav, OnStream, KeyFile!Next

LEMMA AuthInit == KeyFile!Init => AuthInv
<1> SUFFICES ASSUME KeyFile!Init PROVE AuthInv
  OBVIOUS
<1>1. AuthTypeOK /\ file.data = want /\ writers = {}
  BY EmptyIsWhole DEF KeyFile!Init, AuthTypeOK
<1>2. ASSUME NEW p \in Proc PROVE AuthAt(p)
  BY <1>1, EmptyIsWhole DEF KeyFile!Init, AuthAt, Operating, Fresh, Saving, Places, Reading, KeyFile!NoOp, KeyFile!IsWrite
<1> QED BY <1>1, <1>2 DEF AuthInv

LEMMA Operations ==
  /\ \A o \in KeyFile!ReadOps : ~KeyFile!IsWrite(o) /\ (o.do = "has_key" => o = [do |-> "has_key", slot |-> o.slot])
  /\ \A o \in KeyFile!WriteOps : KeyFile!IsWrite(o) /\ o.do # "has_key"
  /\ ~KeyFile!IsWrite(KeyFile!NoOp) /\ KeyFile!NoOp.do # "has_key"
BY DEF KeyFile!ReadOps, KeyFile!WriteOps, KeyFile!IsWrite, KeyFile!NoOp

(* A process another one's step leaves alone.                               *)
LEMMA OtherProcess ==
  ASSUME NEW q, AuthAt(q), ~failed' => ~failed, q \in writers' <=> q \in writers,
         UNCHANGED <<file, stamps, mem[q], known[q], apc[q], op[q], tmp[q], answer[q], seen[q]>>
  PROVE  AuthAt(q)'
BY DEF AuthAt, Operating, Fresh, Saving

Keeping == AuthTypeOK /\ file.data = want /\ (\A p, q \in writers : p = q) /\ (\A p \in Proc : AuthAt(p))

LEMMA BeginReadKeeps ==
  ASSUME Keeping, ~raced, ~raced', NEW p \in Proc, KeyFile!BeginRead(p) PROVE Keeping'
<1>1. AuthTypeOK' /\ file'.data = want' /\ (\A r, q \in writers' : r = q)
  BY ChangeIsWhole, EmptyIsWhole DEF Keeping, KeyFile!BeginRead, KeyFile!To, AuthTypeOK
<1>2. ASSUME NEW q \in Proc, q # p PROVE AuthAt(q)'
  <2>1. AuthAt(q)
    BY DEF Keeping
  <2>2. /\ ~failed' => ~failed
        /\ q \in writers' <=> q \in writers
        /\ UNCHANGED <<file, stamps, mem[q], known[q], apc[q], op[q], tmp[q], answer[q], seen[q]>>
    BY <1>2 DEF Keeping, KeyFile!BeginRead, KeyFile!To, AuthTypeOK
  <2> QED BY <2>1, <2>2, OtherProcess
<1>3. AuthAt(p)'
  <2>1. PICK o \in KeyFile!ReadOps : op'[p] = o
    BY DEF Keeping, KeyFile!BeginRead, AuthTypeOK
  <2>2. ~KeyFile!IsWrite(op'[p]) /\ (op'[p].do = "has_key" => op'[p] = [do |-> "has_key", slot |-> op'[p].slot])
    BY <2>1, Operations
  <2>3. apc[p] = "idle" /\ apc'[p] = "stat" /\ seen'[p] = {file.data} /\ AuthAt(p)
    BY DEF Keeping, KeyFile!BeginRead, KeyFile!To, AuthTypeOK
  <2>4. UNCHANGED <<file, stamps, mem[p], known[p], tmp[p], answer[p], writers, failed>>
    BY DEF KeyFile!BeginRead
  <2> QED BY <2>2, <2>3, <2>4 DEF AuthAt, Operating, Fresh, Saving, Places, Reading
<1> QED BY <1>1, <1>2, <1>3 DEF Keeping

LEMMA BeginWriteKeeps ==
  ASSUME Keeping, ~raced, ~raced', NEW p \in Proc, KeyFile!BeginWrite(p) PROVE Keeping'
<1>1. AuthTypeOK' /\ file'.data = want' /\ (\A r, q \in writers' : r = q)
  BY ChangeIsWhole, EmptyIsWhole DEF Keeping, KeyFile!BeginWrite, KeyFile!To, AuthTypeOK
<1>2. ASSUME NEW q \in Proc, q # p PROVE AuthAt(q)'
  <2>1. AuthAt(q)
    BY DEF Keeping
  <2>2. /\ ~failed' => ~failed
        /\ q \in writers' <=> q \in writers
        /\ UNCHANGED <<file, stamps, mem[q], known[q], apc[q], op[q], tmp[q], answer[q], seen[q]>>
    BY <1>2 DEF Keeping, KeyFile!BeginWrite, KeyFile!To, AuthTypeOK
  <2> QED BY <2>1, <2>2, OtherProcess
<1>3. AuthAt(p)'
  <2>1. PICK o \in KeyFile!WriteOps : op'[p] = o
    BY DEF Keeping, KeyFile!BeginWrite, AuthTypeOK
  <2>2. KeyFile!IsWrite(op'[p]) /\ op'[p].do # "has_key"
    BY <2>1, Operations
  <2>3. apc[p] = "idle" /\ apc'[p] = "stat" /\ known'[p] = -1 /\ p \in writers' /\ AuthAt(p) /\ stamps \in Nat
    BY DEF Keeping, KeyFile!BeginWrite, KeyFile!To, AuthTypeOK
  <2>4. UNCHANGED <<file, stamps, mem[p], tmp[p], answer[p], seen[p], failed>>
    BY DEF KeyFile!BeginWrite
  <2> QED BY <2>2, <2>3, <2>4 DEF AuthAt, Operating, Fresh, Saving, Places, Reading
<1> QED BY <1>1, <1>2, <1>3 DEF Keeping

LEMMA LoadStatKeeps ==
  ASSUME Keeping, ~raced, ~raced', NEW p \in Proc, KeyFile!LoadStat(p) PROVE Keeping'
<1>1. AuthTypeOK' /\ file'.data = want' /\ (\A r, q \in writers' : r = q)
  BY ChangeIsWhole, EmptyIsWhole DEF Keeping, KeyFile!LoadStat, KeyFile!To, AuthTypeOK
<1>2. ASSUME NEW q \in Proc, q # p PROVE AuthAt(q)'
  <2>1. AuthAt(q)
    BY DEF Keeping
  <2>2. /\ ~failed' => ~failed
        /\ q \in writers' <=> q \in writers
        /\ UNCHANGED <<file, stamps, mem[q], known[q], apc[q], op[q], tmp[q], answer[q], seen[q]>>
    BY <1>2 DEF Keeping, KeyFile!LoadStat, KeyFile!To, AuthTypeOK
  <2> QED BY <2>1, <2>2, OtherProcess
<1>3. AuthAt(p)'
  BY ChangeIsWhole, EmptyIsWhole, AskWritten, WrittenIsWhole DEF Keeping, KeyFile!LoadStat, KeyFile!To, AuthTypeOK, AuthAt, Operating, Fresh, Saving, Places, Reading, KeyFile!IsWrite
<1> QED BY <1>1, <1>2, <1>3 DEF Keeping

LEMMA LoadReadKeeps ==
  ASSUME Keeping, ~raced, ~raced', NEW p \in Proc, KeyFile!LoadRead(p) PROVE Keeping'
<1>1. AuthTypeOK' /\ file'.data = want' /\ (\A r, q \in writers' : r = q)
  BY ChangeIsWhole, EmptyIsWhole DEF Keeping, KeyFile!LoadRead, KeyFile!To, AuthTypeOK
<1>2. ASSUME NEW q \in Proc, q # p PROVE AuthAt(q)'
  <2>1. AuthAt(q)
    BY DEF Keeping
  <2>2. /\ ~failed' => ~failed
        /\ q \in writers' <=> q \in writers
        /\ UNCHANGED <<file, stamps, mem[q], known[q], apc[q], op[q], tmp[q], answer[q], seen[q]>>
    BY <1>2 DEF Keeping, KeyFile!LoadRead, KeyFile!To, AuthTypeOK
  <2> QED BY <2>1, <2>2, OtherProcess
<1>3. AuthAt(p)'
  BY ChangeIsWhole, EmptyIsWhole, AskWritten, WrittenIsWhole DEF Keeping, KeyFile!LoadRead, KeyFile!To, AuthTypeOK, AuthAt, Operating, Fresh, Saving, Places, Reading, KeyFile!IsWrite
<1> QED BY <1>1, <1>2, <1>3 DEF Keeping

LEMMA ResolveKeeps ==
  ASSUME Keeping, ~raced, ~raced', NEW p \in Proc, KeyFile!Resolve(p) PROVE Keeping'
<1>1. AuthTypeOK' /\ file'.data = want' /\ (\A r, q \in writers' : r = q)
  BY ChangeIsWhole, EmptyIsWhole DEF Keeping, KeyFile!Resolve, KeyFile!To, AuthTypeOK
<1>2. ASSUME NEW q \in Proc, q # p PROVE AuthAt(q)'
  <2>1. AuthAt(q)
    BY DEF Keeping
  <2>2. /\ ~failed' => ~failed
        /\ q \in writers' <=> q \in writers
        /\ UNCHANGED <<file, stamps, mem[q], known[q], apc[q], op[q], tmp[q], answer[q], seen[q]>>
    BY <1>2 DEF Keeping, KeyFile!Resolve, KeyFile!To, AuthTypeOK
  <2> QED BY <2>1, <2>2, OtherProcess
<1>3. AuthAt(p)'
  BY ChangeIsWhole, EmptyIsWhole, AskWritten, WrittenIsWhole DEF Keeping, KeyFile!Resolve, KeyFile!To, AuthTypeOK, AuthAt, Operating, Fresh, Saving, Places, Reading, KeyFile!IsWrite
<1> QED BY <1>1, <1>2, <1>3 DEF Keeping

LEMMA AnswerKeeps ==
  ASSUME Keeping, ~raced, ~raced', NEW p \in Proc, KeyFile!Answer(p) PROVE Keeping'
<1>1. AuthTypeOK' /\ file'.data = want' /\ (\A r, q \in writers' : r = q)
  BY ChangeIsWhole, EmptyIsWhole DEF Keeping, KeyFile!Answer, KeyFile!To, AuthTypeOK
<1>2. ASSUME NEW q \in Proc, q # p PROVE AuthAt(q)'
  <2>1. AuthAt(q)
    BY DEF Keeping
  <2>2. /\ ~failed' => ~failed
        /\ q \in writers' <=> q \in writers
        /\ UNCHANGED <<file, stamps, mem[q], known[q], apc[q], op[q], tmp[q], answer[q], seen[q]>>
    BY <1>2 DEF Keeping, KeyFile!Answer, KeyFile!To, AuthTypeOK
  <2> QED BY <2>1, <2>2, OtherProcess
<1>3. AuthAt(p)'
  BY ChangeIsWhole, EmptyIsWhole, AskWritten, WrittenIsWhole DEF Keeping, KeyFile!Answer, KeyFile!To, AuthTypeOK, AuthAt, Operating, Fresh, Saving, Places, Reading, KeyFile!IsWrite
<1> QED BY <1>1, <1>2, <1>3 DEF Keeping

LEMMA ReturnKeeps ==
  ASSUME Keeping, ~raced, ~raced', NEW p \in Proc, KeyFile!Return(p) PROVE Keeping'
<1>1. AuthTypeOK' /\ file'.data = want' /\ (\A r, q \in writers' : r = q)
  BY ChangeIsWhole, EmptyIsWhole DEF Keeping, KeyFile!Return, KeyFile!To, AuthTypeOK
<1>2. ASSUME NEW q \in Proc, q # p PROVE AuthAt(q)'
  <2>1. AuthAt(q)
    BY DEF Keeping
  <2>2. /\ ~failed' => ~failed
        /\ q \in writers' <=> q \in writers
        /\ UNCHANGED <<file, stamps, mem[q], known[q], apc[q], op[q], tmp[q], answer[q], seen[q]>>
    BY <1>2 DEF Keeping, KeyFile!Return, KeyFile!To, AuthTypeOK
  <2> QED BY <2>1, <2>2, OtherProcess
<1>3. AuthAt(p)'
  <2>1. ~KeyFile!IsWrite(op'[p]) /\ op'[p].do # "has_key"
    BY Operations DEF Keeping, KeyFile!Return, AuthTypeOK
  <2>2. apc[p] = "answered" /\ apc'[p] = "idle" /\ AuthAt(p)
    BY DEF Keeping, KeyFile!Return, KeyFile!To, AuthTypeOK
  <2>3. UNCHANGED <<file, stamps, mem[p], known[p], tmp[p], writers, failed>>
    BY DEF KeyFile!Return
  <2> QED BY <2>1, <2>2, <2>3 DEF AuthAt, Operating, Fresh, Saving, Places, Reading
<1> QED BY <1>1, <1>2, <1>3 DEF Keeping

LEMMA ApplyKeeps ==
  ASSUME Keeping, ~raced, ~raced', NEW p \in Proc, KeyFile!Apply(p) PROVE Keeping'
<1>1. AuthTypeOK' /\ file'.data = want' /\ (\A r, q \in writers' : r = q)
  BY ChangeIsWhole, EmptyIsWhole DEF Keeping, KeyFile!Apply, KeyFile!To, AuthTypeOK
<1>2. ASSUME NEW q \in Proc, q # p PROVE AuthAt(q)'
  <2>1. AuthAt(q)
    BY DEF Keeping
  <2>2. /\ ~failed' => ~failed
        /\ q \in writers' <=> q \in writers
        /\ UNCHANGED <<file, stamps, mem[q], known[q], apc[q], op[q], tmp[q], answer[q], seen[q]>>
    BY <1>2 DEF Keeping, KeyFile!Apply, KeyFile!To, AuthTypeOK
  <2> QED BY <2>1, <2>2, OtherProcess
<1>3. AuthAt(p)'
  <2> DEFINE new == KeyFile!Change(op[p], mem[p])
  <2>1. /\ apc[p] = "apply" /\ KeyFile!IsWrite(op[p]) /\ mem'[p] = new /\ AuthAt(p)
        /\ UNCHANGED <<file, stamps, known[p], seen[p], failed>>
    BY DEF Keeping, KeyFile!Apply, AuthTypeOK
  <2>2. Whole(new) /\ (KeyFile!Refused(op[p], mem[p]) => new = mem[p]) /\ mem[p] = file.data /\ p \in writers
    BY <2>1, ChangeIsWhole DEF AuthAt, Operating, Saving
  <2>3. KeyFile!Written(file.data) = file.data
    BY DEF Keeping, AuthTypeOK
  <2> HIDE DEF new
  <2>4. CASE KeyFile!Refused(op[p], mem[p])
    <3>1. ~KeyFile!IsWrite(op'[p]) /\ op'[p].do # "has_key"
      BY <2>4, Operations DEF Keeping, KeyFile!Apply, AuthTypeOK
    <3>2. apc' = [apc EXCEPT ![p] = "idle"] /\ DOMAIN apc = Proc /\ writers' = writers \ {p}
      BY <2>4 DEF Keeping, KeyFile!Apply, KeyFile!To, AuthTypeOK
    <3>3. apc'[p] = "idle" /\ p \notin writers'
      BY <3>2
    <3> QED BY <2>1, <2>2, <2>3, <2>4, <3>1, <3>3 DEF AuthAt, Operating, Fresh, Saving, Places, Reading
  <2>5. CASE ~KeyFile!Refused(op[p], mem[p])
    <3>1. apc'[p] = "rename" /\ tmp'[p] = KeyFile!Written(mem'[p]) /\ UNCHANGED <<op, writers>>
      BY <2>5 DEF Keeping, KeyFile!Apply, KeyFile!To, AuthTypeOK
    <3> QED BY <2>1, <2>2, <3>1 DEF AuthAt, Operating, Fresh, Saving, Places, Reading, new
  <2> QED BY <2>4, <2>5
<1> QED BY <1>1, <1>2, <1>3 DEF Keeping

LEMMA SaveFailsKeeps ==
  ASSUME Keeping, ~raced, ~raced', NEW p \in Proc, KeyFile!SaveFails(p) PROVE Keeping'
<1>1. AuthTypeOK' /\ file'.data = want' /\ (\A r, q \in writers' : r = q)
  BY ChangeIsWhole, EmptyIsWhole DEF Keeping, KeyFile!SaveFails, KeyFile!To, AuthTypeOK
<1>2. ASSUME NEW q \in Proc, q # p PROVE AuthAt(q)'
  <2>1. AuthAt(q)
    BY DEF Keeping
  <2>2. /\ ~failed' => ~failed
        /\ q \in writers' <=> q \in writers
        /\ UNCHANGED <<file, stamps, mem[q], known[q], apc[q], op[q], tmp[q], answer[q], seen[q]>>
    BY <1>2 DEF Keeping, KeyFile!SaveFails, KeyFile!To, AuthTypeOK
  <2> QED BY <2>1, <2>2, OtherProcess
<1>3. AuthAt(p)'
  <2>1. ~KeyFile!IsWrite(op'[p]) /\ op'[p].do # "has_key"
    BY Operations DEF Keeping, KeyFile!SaveFails, AuthTypeOK
  <2>2. apc[p] = "rename" /\ apc'[p] = "idle" /\ AuthAt(p) /\ failed' = TRUE /\ p \notin writers'
    BY DEF Keeping, KeyFile!SaveFails, KeyFile!To, AuthTypeOK
  <2>3. UNCHANGED <<file, stamps, mem[p], known[p], tmp[p]>>
    BY DEF KeyFile!SaveFails
  <2> QED BY <2>1, <2>2, <2>3 DEF AuthAt, Operating, Fresh, Saving, Places, Reading
<1> QED BY <1>1, <1>2, <1>3 DEF Keeping

LEMMA RestatKeeps ==
  ASSUME Keeping, ~raced, ~raced', NEW p \in Proc, KeyFile!Restat(p) PROVE Keeping'
<1>1. AuthTypeOK' /\ file'.data = want' /\ (\A r, q \in writers' : r = q)
  BY ChangeIsWhole, EmptyIsWhole DEF Keeping, KeyFile!Restat, KeyFile!To, AuthTypeOK
<1>2. ASSUME NEW q \in Proc, q # p PROVE AuthAt(q)'
  <2>1. AuthAt(q)
    BY DEF Keeping
  <2>2. /\ ~failed' => ~failed
        /\ q \in writers' <=> q \in writers
        /\ UNCHANGED <<file, stamps, mem[q], known[q], apc[q], op[q], tmp[q], answer[q], seen[q]>>
    BY <1>2 DEF Keeping, KeyFile!Restat, KeyFile!To, AuthTypeOK
  <2> QED BY <2>1, <2>2, OtherProcess
<1>3. AuthAt(p)'
  <2>1. ~KeyFile!IsWrite(op'[p]) /\ op'[p].do # "has_key"
    BY Operations DEF Keeping, KeyFile!Restat, AuthTypeOK
  <2>2. apc[p] = "restat" /\ apc'[p] = "idle" /\ AuthAt(p) /\ known'[p] = stamps /\ p \notin writers' /\ stamps \in Nat
    BY DEF Keeping, KeyFile!Restat, KeyFile!To, AuthTypeOK
  <2>3. UNCHANGED <<file, stamps, mem[p], tmp[p], seen[p], failed>>
    BY DEF KeyFile!Restat
  <2> QED BY <2>1, <2>2, <2>3 DEF AuthAt, Operating, Fresh, Saving, Places, Reading
<1> QED BY <1>1, <1>2, <1>3 DEF Keeping

(* The rename makes the saved copy the file, for every process.             *)
LEMMA RenameKeeps ==
  ASSUME Keeping, ~raced, ~raced', NEW p \in Proc, KeyFile!Rename(p) PROVE Keeping'
<1> DEFINE saved == tmp[p]
<1>1. /\ apc[p] = "rename" /\ p \in writers /\ AuthAt(p)
      /\ saved = KeyFile!Written(mem[p]) /\ saved = KeyFile!Written(KeyFile!Change(op[p], want))
  BY DEF Keeping, KeyFile!Rename, AuthAt, Operating, Saving
<1>2. Whole(saved) /\ KeyFile!Written(saved) = saved
  BY <1>1, WrittenIsWhole DEF AuthAt, Operating
<1>3. /\ stamps' = stamps + 1 /\ file' = [stamp |-> stamps + 1, data |-> saved] /\ stamps \in Nat
      /\ apc' = [apc EXCEPT ![p] = "restat"] /\ DOMAIN apc = Proc /\ want' = KeyFile!Written(KeyFile!Change(op[p], want))
      /\ seen' = [q \in Proc |-> IF seen[q] = {} THEN {} ELSE seen[q] \cup {saved}]
      /\ UNCHANGED <<mem, known, op, tmp, answer, writers, failed>>
  BY DEF Keeping, KeyFile!Rename, KeyFile!To, AuthTypeOK
<1>4. AuthTypeOK' /\ file'.data = want' /\ (\A r, q \in writers' : r = q)
  BY <1>1, <1>2, <1>3 DEF Keeping, AuthTypeOK
<1> HIDE DEF saved
<1>5. AuthAt(p)'
  <2>1. apc'[p] = "restat" /\ file'.data = saved /\ stamps' \in Nat /\ stamps <= stamps'
    BY <1>3
  <2>2. Operating(p)'
    BY <1>1, <1>3, <2>1 DEF AuthAt, Operating, Places
  <2>3. Saving(p)' /\ Fresh(p)'
    BY <1>1, <1>3, <2>1 DEF Saving, Fresh
  <2> QED BY <1>1, <1>3, <2>1, <2>2, <2>3 DEF AuthAt, Reading
<1>6. ASSUME NEW q \in Proc, q # p PROVE AuthAt(q)'
  <2>1. AuthAt(q) /\ q \notin writers /\ apc'[q] = apc[q]
    BY <1>1, <1>3, <1>6 DEF Keeping
  <2>2. apc[q] \in Reading => file.data \in seen[q] /\ seen'[q] = seen[q] \cup {saved}
    BY <1>3, <2>1 DEF AuthAt
  <2> QED BY <1>3, <2>1, <2>2 DEF AuthAt, Operating, Fresh, Saving, Places, Reading
<1> QED BY <1>4, <1>5, <1>6 DEF Keeping

LEMMA AuthStep ==
  ASSUME AuthInv, (~raced /\ KeyFile!Next) \/ UNCHANGED authVars
  PROVE  AuthInv'
<1>1. CASE UNCHANGED authVars
  BY <1>1 DEF authVars, AuthInv, AuthTypeOK, AuthAt, Operating, Fresh, Saving
<1>2. CASE ~raced /\ KeyFile!Next
  <2>1. Keeping /\ ~raced
    BY <1>2 DEF AuthInv, Keeping
  <2>2. SUFFICES ASSUME ~raced' PROVE Keeping'
    BY DEF AuthInv, Keeping
  <2> QED BY <1>2, <2>1, <2>2, BeginReadKeeps, BeginWriteKeeps, LoadStatKeeps, LoadReadKeeps, ResolveKeeps,
             AnswerKeeps, ReturnKeeps, ApplyKeeps, RenameKeeps, SaveFailsKeeps, RestatKeeps DEF KeyFile!Next
<1> QED BY <1>1, <1>2

(* However the loads and saves of the processes fall, an answer is what the *)
(* file said while it was asked, and the file holds what the completed      *)
(* saves amount to, as long as no two overlapped (lauth.c, auth_load,       *)
(* auth_save, header_for_locked).                                           *)
THEOREM KeysFresh == Spec => []AuthTrue
<1> DEFINE Inv == active = "auth" => AuthInv
<1>1. Init => Inv
  BY AuthInit DEF Init, Begun
<1>2. Inv /\ [Next]_vars => Inv'
  BY ActiveStays, AuthRuns, AuthStep
<1>3. Inv => AuthTrue
  BY DEF AuthInv, AuthAt, Fresh, AuthTrue, KeyFile!AnswersFresh, KeyFile!SavesAddUp
<1> QED BY <1>1, <1>2, <1>3, PTL DEF Spec

---------------------------------------------------------------------------
(* The project's directories                                                *)

Stale(d) == read[d] # disk[d]
Vouched(d) == d \in queue \/ d \in unseen

(* A pass that will clear what was pending has taken it over: whatever is   *)
(* stale then and no event stands for is still to be read by it.            *)
DirsInv ==
  /\ DOMAIN read = Dir /\ DOMAIN disk = Dir
  /\ queue \subseteq Dir /\ pending \subseteq Dir /\ todo \subseteq Dir
  /\ spc \in {"idle", "refresh", "rebuild", "watch", "poll"}
  /\ spc \in {"idle", "watch"} => todo = {}
  /\ \A d \in Dir : Stale(d) =>
       IF spc \in {"refresh", "rebuild", "watch"} THEN Vouched(d) \/ d \in todo
       ELSE Vouched(d) \/ d \in todo \/ d \in pending \/ overflowed = TRUE

LEMMA DirsRun == ASSUME active = "dirs", [Next]_vars PROVE [Dirs!Next]_dirsVars
BY DEF Next, vars, OnPicture, OnDirs, OnGrid, OnKeys, OnTty, OnVoice, OnAuth, OnWav, OnStream, Dirs!Next

LEMMA DirsInit == Dirs!Init => DirsInv
BY DEF Dirs!Init, DirsInv, Stale, Vouched

(* Whatever the cap leaves out of the dirty set, the overflow stands for.   *)
LEMMA Dirtied ==
  ASSUME NEW due, NEW found \in Dirs!DirtyAdd(due)
  PROVE  found.dirty \subseteq due /\ (found.dirty = due \/ found.over = TRUE)
BY DEF Dirs!DirtyAdd

LEMMA DirsStep == DirsInv /\ [Dirs!Next]_dirsVars => DirsInv'
<1> SUFFICES ASSUME DirsInv, [Dirs!Next]_dirsVars PROVE DirsInv'
  OBVIOUS
<1> USE DEF DirsInv, Stale, Vouched
<1>1. CASE UNCHANGED dirsVars
  BY <1>1 DEF dirsVars
<1>2. ASSUME NEW d \in Dir, Dirs!Change(d) PROVE DirsInv'
  BY <1>2 DEF Dirs!Change
<1>3. CASE Dirs!Check
  <2>1. PICK due \in SUBSET queue : \E found \in Dirs!DirtyAdd(due) :
          /\ queue' = queue \ due
          /\ pending' = pending \cup found.dirty /\ overflowed' = (overflowed \/ found.over)
    BY <1>3 DEF Dirs!Check
  <2>2. PICK found \in Dirs!DirtyAdd(due) :
          /\ queue' = queue \ due
          /\ pending' = pending \cup found.dirty /\ overflowed' = (overflowed \/ found.over)
    BY <2>1
  <2>3. found.dirty \subseteq due /\ (found.dirty = due \/ found.over = TRUE)
    BY Dirtied
  <2>4. overflowed = TRUE \/ found.over = TRUE => overflowed' = TRUE
    BY <2>2
  <2>5. spc = "idle" /\ UNCHANGED <<disk, read, todo, spc, unseen>>
    BY <1>3 DEF Dirs!Check
  <2> QED BY <2>2, <2>3, <2>4, <2>5
<1>4. CASE Dirs!Settle
  BY <1>4 DEF Dirs!Settle
<1>5. CASE Dirs!ReadNext
  <2>1. PICK d \in todo : /\ read' = [read EXCEPT ![d] = disk[d]]
                          /\ unseen' = unseen \ {d} /\ todo' = todo \ {d}
    BY <1>5 DEF Dirs!ReadNext
  <2>2. UNCHANGED <<disk, queue>> /\ pending' \subseteq pending
    BY <1>5 DEF Dirs!ReadNext
  <2>3. CASE todo' # {}
    <3>1. UNCHANGED <<spc, pending, overflowed>>
      BY <1>5, <2>3 DEF Dirs!ReadNext
    <3> QED BY <2>1, <2>2, <2>3, <3>1
  <2>4. CASE todo' = {}
    <3>1. /\ spc = "rebuild" => spc' = "watch"
          /\ spc # "rebuild" => spc' = "idle"
          /\ spc # "refresh" => UNCHANGED <<pending, overflowed>>
      BY <1>5, <2>4 DEF Dirs!ReadNext
    <3>2. \A e \in Dir : read'[e] # disk'[e] => e # d /\ read[e] # disk[e]
      BY <2>1, <2>2
    <3> QED BY <2>1, <2>2, <2>4, <3>1, <3>2
  <2> QED BY <2>3, <2>4
<1>6. CASE Dirs!WatchNext
  BY <1>6 DEF Dirs!WatchNext
<1>7. CASE Dirs!Poll
  BY <1>7 DEF Dirs!Poll
<1> QED BY <1>1, <1>2, <1>3, <1>4, <1>5, <1>6, <1>7 DEF Dirs!Next, Dirs!Scanner

(* Whatever is coalesced, cut off by the cap or interrupted, a directory    *)
(* whose change was seen is read again (dirmonitor.c, dirty_add,            *)
(* f_dirmonitor_check; init.lua, project_scan_thread).                      *)
THEOREM ChangesRead == Spec => []SeenChangesKept
<1> DEFINE Inv == active = "dirs" => DirsInv
<1>1. Init => Inv
  BY DirsInit DEF Init, Begun
<1>2. Inv /\ [Next]_vars => Inv'
  BY ActiveStays, DirsRun, DirsStep
<1>3. Inv => SeenChangesKept
  BY DEF DirsInv, Stale, Vouched, SeenChangesKept, Dirs!SeenChangesKept
<1> QED BY <1>1, <1>2, <1>3, PTL DEF Spec

---------------------------------------------------------------------------
(* Recursion from the end of a text                                         *)

(* A set of numbers that is not empty has a least one.                      *)
LEMMA Least ==
  ASSUME NEW U \in SUBSET Nat, U # {}
  PROVE  \E k \in U : \A j \in U : k <= j
<1> DEFINE R == OpToRel(<, Nat)
<1>1. IsWellFoundedOn(R, Nat)
  BY NatLessThanWellFounded
<1>2. \A j, k \in Nat : j < k => <<j, k>> \in R
  BY DEF OpToRel
<1> HIDE DEF R
<1>3. PICK k \in U : \A j \in U : ~ (<<j, k>> \in R)
  BY <1>1, WFMin
<1>4. ASSUME NEW j \in U PROVE k <= j
  <2>1. j \in Nat /\ k \in Nat /\ ~ (j < k)
    BY <1>2, <1>3
  <2> QED BY <2>1
<1> QED BY <1>4

(* From the end of a text to its beginning: what holds behind the last      *)
(* place, and at a place when it holds at all places behind it, holds       *)
(* everywhere.                                                              *)
LEMMA Backwards ==
  ASSUME NEW n \in Nat, NEW T, n + 1 \in T,
         \A i \in 1..n : (\A j \in i + 1..n + 1 : j \in T) => i \in T
  PROVE  \A i \in 1..n + 1 : i \in T
<1> DEFINE U == {k \in Nat : k <= n /\ (n + 1) - k \notin T}
<1>1. SUFFICES ASSUME NEW i \in 1..n + 1, i \notin T PROVE FALSE
  OBVIOUS
<1>2. (n + 1) - i \in U
  <2>1. (n + 1) - i \in Nat /\ (n + 1) - i <= n /\ (n + 1) - ((n + 1) - i) = i
    OBVIOUS
  <2> QED BY <1>1, <2>1
<1>3. PICK k \in U : \A j \in U : k <= j
  <2>1. U \in SUBSET Nat /\ U # {}
    BY <1>2
  <2> HIDE DEF U
  <2> QED BY <2>1, Least
<1>4. k \in Nat /\ k <= n /\ (n + 1) - k \notin T
  BY <1>3
<1>5. k # 0
  BY <1>4
<1>6. ASSUME NEW j \in ((n + 1) - k) + 1..n + 1 PROVE j \in T
  <2>1. (n + 1) - j \in Nat /\ (n + 1) - j < k /\ (n + 1) - j <= n /\ (n + 1) - ((n + 1) - j) = j
    BY <1>4
  <2>2. (n + 1) - j \notin U
    BY <1>3, <1>4, <2>1
  <2> QED BY <2>1, <2>2
<1>7. (n + 1) - k \in 1..n
  BY <1>4, <1>5
<1> QED BY <1>4, <1>6, <1>7

(* A function may be defined from the end: its value at i made, by a        *)
(* function of its own, of its value at a later place.                      *)
Forward(n, nxt) == \A i \in 1..n : nxt[i] \in i + 1..n + 1
Steps(S, n, g) == \A i \in 1..n : g[i] \in [S -> S]
Computes(f, S, n, v, nxt, g) ==
  f \in [1..n + 1 -> S] /\ f[n + 1] = v /\ \A i \in 1..n : f[i] = g[i][f[nxt[i]]]

LEMMA FromTheEnd ==
  ASSUME NEW S, NEW n \in Nat, NEW v \in S, NEW nxt, NEW g, Forward(n, nxt), Steps(S, n, g)
  PROVE  \E f : Computes(f, S, n, v, nxt, g)
<1> USE DEF Forward, Steps
<1> DEFINE Ends(m) == \E f \in [m..n + 1 -> S] :
                         f[n + 1] = v /\ \A i \in m..n : f[i] = g[i][f[nxt[i]]]
           T == {m \in 1..n + 1 : Ends(m)}
<1>1. n + 1 \in T
  <2> DEFINE f == [i \in n + 1..n + 1 |-> v]
  <2>1. f \in [n + 1..n + 1 -> S] /\ f[n + 1] = v /\ \A i \in n + 1..n : FALSE
    OBVIOUS
  <2> HIDE DEF f
  <2>2. Ends(n + 1)
    BY <2>1
  <2> QED BY <2>2
<1>2. ASSUME NEW m \in 1..n, \A j \in m + 1..n + 1 : j \in T PROVE m \in T
  <2>1. m + 1 \in T
    <3>1. m + 1 \in m + 1..n + 1
      OBVIOUS
    <3> HIDE DEF T
    <3> QED BY <1>2, <3>1
  <2>2. PICK h \in [m + 1..n + 1 -> S] : h[n + 1] = v /\ \A i \in m + 1..n : h[i] = g[i][h[nxt[i]]]
    BY <2>1
  <2> DEFINE w == g[m][h[nxt[m]]]
             f == [i \in m..n + 1 |-> IF i = m THEN w ELSE h[i]]
  <2>3. nxt[m] \in m + 1..n + 1 /\ w \in S
    <3>1. nxt[m] \in m + 1..n + 1
      OBVIOUS
    <3>2. h[nxt[m]] \in S /\ g[m] \in [S -> S]
      BY <3>1
    <3> QED BY <3>1, <3>2
  <2>4. f \in [m..n + 1 -> S] /\ f[m] = w /\ \A i \in m + 1..n + 1 : f[i] = h[i]
    <3> HIDE DEF w
    <3>1. \A i \in m + 1..n + 1 : h[i] \in S
      OBVIOUS
    <3>2. f \in [m..n + 1 -> S]
      BY <2>3, <3>1
    <3> QED BY <3>2
  <2> HIDE DEF f
  <2>5. ASSUME NEW i \in m..n PROVE f[i] = g[i][f[nxt[i]]]
    <3>1. nxt[i] \in i + 1..n + 1 /\ nxt[i] \in m + 1..n + 1 /\ i \in 1..n
      OBVIOUS
    <3>2. f[nxt[i]] = h[nxt[i]]
      BY <2>4, <3>1, Zenon
    <3>3. CASE i = m
      BY <2>4, <3>2, <3>3
    <3>4. CASE i # m
      <4>1. i \in m + 1..n /\ i \in m + 1..n + 1
        BY <3>4
      <4>2. f[i] = h[i] /\ h[i] = g[i][h[nxt[i]]]
        BY <2>2, <2>4, <4>1, Zenon
      <4> QED BY <3>2, <4>2, Zenon
    <3> QED BY <3>3, <3>4
  <2>6. f[n + 1] = v
    <3>1. n + 1 \in m + 1..n + 1
      OBVIOUS
    <3> QED BY <2>2, <2>4, <3>1
  <2>7. Ends(m)
    BY <2>4, <2>5, <2>6
  <2>8. m \in 1..n + 1
    OBVIOUS
  <2> QED BY <2>7, <2>8
<1> HIDE DEF T
<1>3. 1 \in T
  <2>1. \A i \in 1..n + 1 : i \in T
    BY <1>1, <1>2, Backwards
  <2> QED BY <2>1
<1> QED BY <1>3 DEF T, Computes

---------------------------------------------------------------------------
(* The repair of a text                                                     *)

Octet == 0 .. 255
Octets == Seq(Octet)

LEMMA OctetIs == \A c \in 0 .. 255 : c \in Octet /\ c \in Int /\ (c < 128 \/ c >= 128) /\ ~(c < 128 /\ c >= 128)
BY DEF Octet

LEMMA OctetsAre ==
  ASSUME NEW s \in Octets
  PROVE  /\ Len(s) \in Nat /\ DOMAIN s = 1 .. Len(s) /\ s \in Seq(Int)
         /\ \A i \in 1 .. Len(s) : s[i] \in 0 .. 255
<1>1. Len(s) \in Nat /\ DOMAIN s = 1 .. Len(s) /\ s = [i \in 1 .. Len(s) |-> s[i]]
      /\ \A i \in 1 .. Len(s) : s[i] \in Octet
  BY DEF Octets
<1>2. \A i \in 1 .. Len(s) : s[i] \in 0 .. 255 /\ s[i] \in Int
  BY <1>1, OctetIs, Zenon DEF Octet
<1>3. s \in Seq(Int)
  BY <1>1, <1>2
<1> QED BY <1>1, <1>2, <1>3

Conts == 128 .. 191

(* A lead byte asks for one to three more, none of which can be a lead.     *)
LEMMA LeadIs ==
  ASSUME NEW c \in Octet
  PROVE  /\ Stream!Lead(c).len \in {0, 2, 3, 4}
         /\ Stream!Lead(c).len # 0 => c \notin Conts
         /\ \A k \in Nat : \A b \in Octet : Stream!Fits(Stream!Lead(c), k, b) => b \in Conts
<1> USE DEF Octet, Conts
<1>1. Stream!Lead(c).len = 0 \/ c \in 194 .. 244
  BY SMT DEF Stream!Lead, Stream!Ill
<1>2. Stream!Lead(c).len \in {0, 2, 3, 4} /\ Stream!Lead(c).low \in 128 .. 191 /\ Stream!Lead(c).high \in 128 .. 191
  <2>1. CASE c \in 194 .. 223
    <3>1. Stream!Lead(c).len = 2 /\ Stream!Lead(c).low = 128 /\ Stream!Lead(c).high = 191
      BY <2>1 DEF Stream!Lead, Stream!Ill
    <3> QED BY <3>1
  <2>2. CASE c \in (225 .. 239) \ {237}
    <3>1. Stream!Lead(c).len = 3 /\ Stream!Lead(c).low = 128 /\ Stream!Lead(c).high = 191
      BY <2>2 DEF Stream!Lead, Stream!Ill
    <3> QED BY <3>1
  <2>3. CASE c = 224
    <3>1. Stream!Lead(c) = [Stream!Ill EXCEPT !.len = 3, !.low = 160]
      BY <2>3 DEF Stream!Lead
    <3>2. LET l == [Stream!Ill EXCEPT !.len = 3, !.low = 160] IN l.len = 3 /\ l.low = 160 /\ l.high = 191
      BY DEF Stream!Ill
    <3> QED BY <3>1, <3>2
  <2>4. CASE c = 237
    <3>1. Stream!Lead(c) = [Stream!Ill EXCEPT !.len = 3, !.high = 159]
      BY <2>4 DEF Stream!Lead
    <3>2. LET l == [Stream!Ill EXCEPT !.len = 3, !.high = 159] IN l.len = 3 /\ l.low = 128 /\ l.high = 159
      BY DEF Stream!Ill
    <3> QED BY <3>1, <3>2
  <2>5. CASE c = 240
    <3>1. Stream!Lead(c) = [Stream!Ill EXCEPT !.len = 4, !.low = 144]
      BY <2>5 DEF Stream!Lead
    <3>2. LET l == [Stream!Ill EXCEPT !.len = 4, !.low = 144] IN l.len = 4 /\ l.low = 144 /\ l.high = 191
      BY DEF Stream!Ill
    <3> QED BY <3>1, <3>2
  <2>6. CASE c \in 241 .. 243
    <3>1. Stream!Lead(c).len = 4 /\ Stream!Lead(c).low = 128 /\ Stream!Lead(c).high = 191
      BY <2>6 DEF Stream!Lead, Stream!Ill
    <3> QED BY <3>1
  <2>7. CASE c = 244
    <3>1. Stream!Lead(c) = [Stream!Ill EXCEPT !.len = 4, !.high = 143]
      BY <2>7 DEF Stream!Lead
    <3>2. LET l == [Stream!Ill EXCEPT !.len = 4, !.high = 143] IN l.len = 4 /\ l.low = 128 /\ l.high = 143
      BY DEF Stream!Ill
    <3> QED BY <3>1, <3>2
  <2>8. CASE c \notin 194 .. 244
    <3>1. Stream!Lead(c).len = 0 /\ Stream!Lead(c).low = 128 /\ Stream!Lead(c).high = 191
      BY <2>8 DEF Stream!Lead, Stream!Ill
    <3> QED BY <3>1
  <2> QED BY <2>1, <2>2, <2>3, <2>4, <2>5, <2>6, <2>7, <2>8
<1> HIDE DEF Stream!Lead
<1>3. \A k \in Nat : \A b \in Octet : Stream!Fits(Stream!Lead(c), k, b) => b \in Conts
  BY <1>2 DEF Stream!Fits
<1>4. Stream!Lead(c).len # 0 => c \notin Conts
  <2>1. c \in 194 .. 244 => c \notin Conts
    OBVIOUS
  <2> HIDE DEF Octet, Conts
  <2> QED BY <1>1, <2>1, Zenon
<1> HIDE DEF Octet, Conts
<1> QED BY <1>2, <1>3, <1>4, Zenon

(* utf8_seq takes what there is of the text, and one byte of ASCII is one.  *)
Announced(s, i) == Stream!Lead(s[i]).len
Wrong(s, i) == \E k \in 1 .. Announced(s, i) - 1 : i + k <= Len(s) /\ ~Stream!Fits(Stream!Lead(s[i]), k, s[i + k])
Short(s, i) == i + Announced(s, i) - 1 > Len(s)

LEMMA SequenceIs ==
  ASSUME NEW s \in Octets, NEW i \in 1 .. Len(s)
  PROVE  /\ s[i] < 128 => Stream!utf8_seq(s, i).len = 1 /\ Stream!utf8_seq(s, i).cut = FALSE
         /\ s[i] >= 128 /\ (Announced(s, i) = 0 \/ Wrong(s, i)) =>
              Stream!utf8_seq(s, i).len = 0 /\ Stream!utf8_seq(s, i).cut = FALSE
         /\ s[i] >= 128 /\ ~(Announced(s, i) = 0 \/ Wrong(s, i)) /\ Short(s, i) =>
              Stream!utf8_seq(s, i).len = 0 /\ Stream!utf8_seq(s, i).cut = TRUE
         /\ s[i] >= 128 /\ ~(Announced(s, i) = 0 \/ Wrong(s, i)) /\ ~Short(s, i) =>
              Stream!utf8_seq(s, i).len = Announced(s, i) /\ Stream!utf8_seq(s, i).cut = FALSE
         /\ s[i] \in 0 .. 255 /\ Announced(s, i) \in {0, 2, 3, 4}
<1>1. s[i] \in 0 .. 255
  BY OctetsAre
<1>2. Announced(s, i) \in {0, 2, 3, 4}
  <2>1. s[i] \in Octet
    BY <1>1, OctetIs, Zenon
  <2> QED BY <2>1, LeadIs, Zenon DEF Announced
<1>3. Stream!utf8_seq(s, i) =
        CASE s[i] < 128 -> [len |-> 1, cut |-> FALSE]
          [] s[i] >= 128 /\ (Announced(s, i) = 0 \/ Wrong(s, i)) -> [len |-> 0, cut |-> FALSE]
          [] s[i] >= 128 /\ Announced(s, i) # 0 /\ ~Wrong(s, i) /\ Short(s, i) -> [len |-> 0, cut |-> TRUE]
          [] OTHER -> [len |-> Announced(s, i), cut |-> FALSE]
  BY DEF Stream!utf8_seq, Announced, Wrong, Short
<1> HIDE DEF Announced, Wrong, Short, Stream!utf8_seq
<1> DEFINE c == s[i]
           a == Announced(s, i)
           w == Wrong(s, i)
           t == Short(s, i)
           u == Stream!utf8_seq(s, i)
<1>4. c \in 0 .. 255 /\ a \in {0, 2, 3, 4}
      /\ u = CASE c < 128 -> [len |-> 1, cut |-> FALSE]
               [] c >= 128 /\ (a = 0 \/ w) -> [len |-> 0, cut |-> FALSE]
               [] c >= 128 /\ a # 0 /\ ~w /\ t -> [len |-> 0, cut |-> TRUE]
               [] OTHER -> [len |-> a, cut |-> FALSE]
  BY <1>1, <1>2, <1>3
<1> HIDE DEF c, a, w, t, u
<1>6. (c < 128 \/ c >= 128) /\ ~(c < 128 /\ c >= 128)
  <2>1. c \in 0 .. 255
    BY <1>4
  <2> QED BY <2>1, OctetIs, Zenon
<1>5. /\ c < 128 => u.len = 1 /\ u.cut = FALSE
      /\ c >= 128 /\ (a = 0 \/ w) => u.len = 0 /\ u.cut = FALSE
      /\ c >= 128 /\ ~(a = 0 \/ w) /\ t => u.len = 0 /\ u.cut = TRUE
      /\ c >= 128 /\ ~(a = 0 \/ w) /\ ~t => u.len = a /\ u.cut = FALSE
  <2>1. CASE c < 128
    BY <1>4, <1>6, <2>1
  <2>2. CASE c >= 128 /\ (a = 0 \/ w)
    BY <1>4, <1>6, <2>2
  <2>3. CASE c >= 128 /\ ~(a = 0 \/ w) /\ t
    BY <1>4, <1>6, <2>3
  <2>4. CASE c >= 128 /\ ~(a = 0 \/ w) /\ ~t
    BY <1>4, <1>6, <2>4
  <2> QED BY <1>6, <2>1, <2>2, <2>3, <2>4
<1> QED BY <1>4, <1>5, Zenon DEF c, a, w, t, u

LEMMA SequenceInside ==
  ASSUME NEW s \in Octets, NEW i \in 1 .. Len(s)
  PROVE  Stream!utf8_seq(s, i).len \in 0 .. 4 /\ i + Stream!utf8_seq(s, i).len - 1 <= Len(s)
<1> DEFINE n == Stream!utf8_seq(s, i).len
<1>1. Len(s) \in Nat /\ s[i] \in 0 .. 255
  BY OctetsAre
<1>2. n = 0 \/ n = 1 \/ (n = Announced(s, i) /\ ~Short(s, i))
  <2> HIDE DEF n
  <2>1. s[i] < 128 \/ s[i] >= 128
    BY <1>1, OctetIs, Zenon
  <2> QED BY <2>1, SequenceIs, Zenon DEF n
<1>3. Announced(s, i) \in {0, 2, 3, 4}
  BY SequenceIs
<1> HIDE DEF n, Announced
<1>4. n \in 0 .. 4 /\ i + n - 1 <= Len(s)
  BY <1>1, <1>2, <1>3 DEF Short
<1> QED BY <1>4 DEF n

LEMMA BytesAre == \A cp \in Int : Stream!Bytes(cp) \in Seq(Int)
<1> SUFFICES ASSUME NEW cp \in Int PROVE Stream!Bytes(cp) \in Seq(Int)
  OBVIOUS
<1>1. /\ Stream!Cont(cp, 1) \in Int /\ Stream!Cont(cp, 64) \in Int /\ Stream!Cont(cp, 4096) \in Int
      /\ 192 + cp \div 64 \in Int /\ 224 + cp \div 4096 \in Int /\ (240 + cp \div 262144) % 256 \in Int
  BY SMT DEF Stream!Cont
<1>2. \A a, b, c, d \in Int : /\ <<a>> \in Seq(Int) /\ <<a, b>> \in Seq(Int)
                             /\ <<a, b, c>> \in Seq(Int) /\ <<a, b, c, d>> \in Seq(Int)
  OBVIOUS
<1> DEFINE a == 192 + cp \div 64
           b == 224 + cp \div 4096
           d == (240 + cp \div 262144) % 256
           x == Stream!Cont(cp, 1)
           y == Stream!Cont(cp, 64)
           z == Stream!Cont(cp, 4096)
           One == cp < 128
           Two == cp \in 128 .. 2047
           Three == cp \in 2048 .. 65535
<1>3. Stream!Bytes(cp) = CASE One -> <<cp>> [] Two -> <<a, x>> [] Three -> <<b, y, x>> [] OTHER -> <<d, z, y, x>>
  BY DEF Stream!Bytes
<1> HIDE DEF One, Two, Three
<1>4. cp \in Int /\ a \in Int /\ b \in Int /\ d \in Int /\ x \in Int /\ y \in Int /\ z \in Int
  BY <1>1
<1> HIDE DEF a, b, d, x, y, z
<1>5. <<cp>> \in Seq(Int) /\ <<a, x>> \in Seq(Int) /\ <<b, y, x>> \in Seq(Int) /\ <<d, z, y, x>> \in Seq(Int)
  BY <1>2, <1>4
<1>6. \/ Stream!Bytes(cp) = <<cp>> \/ Stream!Bytes(cp) = <<a, x>>
      \/ Stream!Bytes(cp) = <<b, y, x>> \/ Stream!Bytes(cp) = <<d, z, y, x>>
  BY <1>3
<1> QED BY <1>5, <1>6, Zenon

(* What the repair puts for the bytes at i, and where it goes on.           *)
Piece(s, i) == LET n == Stream!utf8_seq(s, i).len
               IN IF n = 0 THEN Stream!Bytes(Stream!Replacement) ELSE SubSeq(s, i, i + n - 1)
After(s, i) == LET n == Stream!utf8_seq(s, i).len IN IF n = 0 THEN i + 1 ELSE i + n

LEMMA PieceIs ==
  ASSUME NEW s \in Octets, NEW i \in 1 .. Len(s)
  PROVE  Piece(s, i) \in Seq(Int) /\ After(s, i) \in i + 1 .. Len(s) + 1
<1> DEFINE n == Stream!utf8_seq(s, i).len
<1>1. n \in 0 .. 4 /\ i + n - 1 <= Len(s) /\ Len(s) \in Nat
  BY SequenceInside DEF Octets
<1>2. Stream!Bytes(Stream!Replacement) \in Seq(Int)
  BY BytesAre DEF Stream!Replacement
<1>3. s \in Seq(Int)
  BY OctetsAre
<1> HIDE DEF n
<1>4. n # 0 => SubSeq(s, i, i + n - 1) \in Seq(Int)
  BY <1>1, <1>3
<1>5. (IF n = 0 THEN Stream!Bytes(Stream!Replacement) ELSE SubSeq(s, i, i + n - 1)) \in Seq(Int)
  BY <1>2, <1>4
<1>6. (IF n = 0 THEN i + 1 ELSE i + n) \in i + 1 .. Len(s) + 1
  BY <1>1
<1> QED BY <1>5, <1>6, Zenon DEF n, Piece, After

(* f holds, for each place of s, what the repair makes of s from there on.  *)
Repairs(f, s) ==
  /\ f \in [1 .. Len(s) + 1 -> Seq(Int)] /\ f[Len(s) + 1] = <<>>
  /\ \A i \in 1 .. Len(s) : f[i] = Piece(s, i) \o f[After(s, i)]

LEMMA HasRepair ==
  ASSUME NEW s \in Octets
  PROVE  \E f : Repairs(f, s)
<1> DEFINE nxt == [i \in 1 .. Len(s) |-> After(s, i)]
           g == [i \in 1 .. Len(s) |-> [x \in Seq(Int) |-> Piece(s, i) \o x]]
<1>1. Len(s) \in Nat
  BY DEF Octets
<1>2. \A i \in 1 .. Len(s) : nxt[i] = After(s, i) /\ nxt[i] \in i + 1 .. Len(s) + 1
  BY PieceIs
<1>3. ASSUME NEW i \in 1 .. Len(s), NEW x \in Seq(Int) PROVE g[i][x] = Piece(s, i) \o x
  OBVIOUS
<1>4. ASSUME NEW i \in 1 .. Len(s) PROVE g[i] \in [Seq(Int) -> Seq(Int)]
  <2>1. Piece(s, i) \in Seq(Int)
    BY PieceIs
  <2>2. \A x \in Seq(Int) : Piece(s, i) \o x \in Seq(Int)
    BY <2>1
  <2> QED BY <2>2
<1>5. <<>> \in Seq(Int)
  OBVIOUS
<1> HIDE DEF nxt, g
<1>6. PICK f : Computes(f, Seq(Int), Len(s), <<>>, nxt, g)
  <2>1. Forward(Len(s), nxt)
    BY <1>2 DEF Forward
  <2>2. Steps(Seq(Int), Len(s), g)
    BY <1>4 DEF Steps
  <2> QED BY <1>1, <1>5, <2>1, <2>2, FromTheEnd, Zenon
<1>7. ASSUME NEW i \in 1 .. Len(s) PROVE f[i] = Piece(s, i) \o f[After(s, i)]
  <2>1. nxt[i] \in 1 .. Len(s) + 1 /\ nxt[i] = After(s, i)
    BY <1>1, <1>2
  <2>2. f[nxt[i]] \in Seq(Int)
    BY <1>6, <2>1 DEF Computes
  <2>3. f[i] = g[i][f[nxt[i]]]
    BY <1>6 DEF Computes
  <2> QED BY <1>3, <2>1, <2>2, <2>3, Zenon
<1>8. Repairs(f, s)
  BY <1>6, <1>7 DEF Repairs, Computes
<1> QED BY <1>8

LEMMA RepairIs ==
  ASSUME NEW s \in Octets
  PROVE  \E f : Repairs(f, s) /\ Stream!to_valid_utf8(s) = f[1]
<1> DEFINE from == CHOOSE f : f = [i \in 1 .. Len(s) + 1 |->
                     IF i > Len(s) THEN <<>>
                     ELSE LET n == Stream!utf8_seq(s, i).len
                          IN IF n = 0 THEN Stream!Bytes(Stream!Replacement) \o f[i + 1]
                             ELSE SubSeq(s, i, i + n - 1) \o f[i + n]]
<1>1. Stream!to_valid_utf8(s) = from[1]
  BY DEF Stream!to_valid_utf8
<1>2. Len(s) \in Nat
  BY DEF Octets
<1>3. PICK h : Repairs(h, s)
  BY HasRepair
<1>4. h = [i \in 1 .. Len(s) + 1 |-> IF i > Len(s) THEN <<>> ELSE Piece(s, i) \o h[After(s, i)]]
  <2>1. h = [i \in 1 .. Len(s) + 1 |-> h[i]]
    BY <1>3 DEF Repairs
  <2>2. ASSUME NEW i \in 1 .. Len(s) + 1
        PROVE  h[i] = IF i > Len(s) THEN <<>> ELSE Piece(s, i) \o h[After(s, i)]
    <3>1. CASE i > Len(s)
      <4>1. i = Len(s) + 1
        BY <1>2, <3>1
      <4> QED BY <1>3, <3>1, <4>1 DEF Repairs
    <3>2. CASE ~(i > Len(s))
      <4>1. i \in 1 .. Len(s)
        BY <1>2, <3>2
      <4> QED BY <1>3, <3>2, <4>1, Zenon DEF Repairs
    <3> QED BY <3>1, <3>2
  <2> QED BY <2>1, <2>2, Zenon
<1>5. ASSUME NEW f, NEW i
      PROVE (LET n == Stream!utf8_seq(s, i).len
             IN IF n = 0 THEN Stream!Bytes(Stream!Replacement) \o f[i + 1] ELSE SubSeq(s, i, i + n - 1) \o f[i + n])
            = Piece(s, i) \o f[After(s, i)]
  BY Zenon DEF Piece, After
<1>6. from = [i \in 1 .. Len(s) + 1 |-> IF i > Len(s) THEN <<>> ELSE Piece(s, i) \o from[After(s, i)]]
  <2> DEFINE IsIt(f) == f = [i \in 1 .. Len(s) + 1 |->
                     IF i > Len(s) THEN <<>>
                     ELSE LET n == Stream!utf8_seq(s, i).len
                          IN IF n = 0 THEN Stream!Bytes(Stream!Replacement) \o f[i + 1]
                             ELSE SubSeq(s, i, i + n - 1) \o f[i + n]]
  <2>1. \A f : IsIt(f) <=> f = [i \in 1 .. Len(s) + 1 |-> IF i > Len(s) THEN <<>> ELSE Piece(s, i) \o f[After(s, i)]]
    BY <1>5
  <2>2. from = CHOOSE f : IsIt(f)
    OBVIOUS
  <2> HIDE DEF from, IsIt
  <2>3. IsIt(h)
    BY <1>4, <2>1
  <2>4. IsIt(from)
    BY <2>2, <2>3, Zenon
  <2> QED BY <2>1, <2>4
<1> HIDE DEF from
<1>7. \A i \in 1 .. Len(s) : from[i] = Piece(s, i) \o from[After(s, i)]
  <2> SUFFICES ASSUME NEW i \in 1 .. Len(s) PROVE from[i] = Piece(s, i) \o from[After(s, i)]
    OBVIOUS
  <2>1. i \in 1 .. Len(s) + 1 /\ ~(i > Len(s))
    BY <1>2
  <2> QED BY <1>6, <2>1
<1>8. from[Len(s) + 1] = <<>>
  <2>1. Len(s) + 1 \in 1 .. Len(s) + 1 /\ Len(s) + 1 > Len(s)
    BY <1>2
  <2> QED BY <1>6, <2>1
<1>9. \A i \in 1 .. Len(s) + 1 : from[i] \in Seq(Int)
  <2> DEFINE T == {i \in 1 .. Len(s) + 1 : from[i] \in Seq(Int)}
  <2>1. Len(s) + 1 \in T
    <3>1. Len(s) + 1 \in 1 .. Len(s) + 1 /\ <<>> \in Seq(Int)
      BY <1>2
    <3> QED BY <1>8, <3>1
  <2>2. ASSUME NEW i \in 1 .. Len(s), \A j \in i + 1 .. Len(s) + 1 : j \in T PROVE i \in T
    <3>1. Piece(s, i) \in Seq(Int) /\ After(s, i) \in i + 1 .. Len(s) + 1
      BY PieceIs
    <3>2. from[After(s, i)] \in Seq(Int)
      BY <2>2, <3>1
    <3>3. from[i] \in Seq(Int)
      <4>1. Piece(s, i) \o from[After(s, i)] \in Seq(Int)
        BY <3>1, <3>2
      <4> QED BY <1>7, <4>1, Zenon
    <3> QED BY <3>3
  <2> HIDE DEF T
  <2>3. \A i \in 1 .. Len(s) + 1 : i \in T
    BY <1>2, <2>1, <2>2, Backwards
  <2> QED BY <2>3 DEF T
<1>10. Repairs(from, s)
  <2>1. from = [i \in 1 .. Len(s) + 1 |-> from[i]]
    BY <1>6
  <2> QED BY <1>7, <1>8, <1>9, <2>1 DEF Repairs
<1> QED BY <1>1, <1>10

(* What utf8_seq sees at a place is the byte and as many behind it as it    *)
(* announces; where these are the same, it says the same.                   *)
Alike(u, i, v, j) ==
  /\ u[i] = v[j]
  /\ \A k \in 1 .. Announced(v, j) - 1 :
       /\ i + k <= Len(u) <=> j + k <= Len(v)
       /\ j + k <= Len(v) => u[i + k] = v[j + k]

LEMMA AlikeSame ==
  ASSUME NEW u \in Octets, NEW v \in Octets, NEW i \in 1 .. Len(u), NEW j \in 1 .. Len(v), Alike(u, i, v, j)
  PROVE  Stream!utf8_seq(u, i).len = Stream!utf8_seq(v, j).len
<1>1. u[i] = v[j] /\ Announced(u, i) = Announced(v, j) /\ Stream!Lead(u[i]) = Stream!Lead(v[j])
  BY DEF Alike, Announced
<1>2. Announced(v, j) \in {0, 2, 3, 4} /\ v[j] \in 0 .. 255 /\ Len(u) \in Nat /\ Len(v) \in Nat
  BY SequenceIs, OctetsAre
<1>3. Wrong(u, i) <=> Wrong(v, j)
  <2>1. ASSUME NEW k \in 1 .. Announced(v, j) - 1
        PROVE  (i + k <= Len(u) /\ ~Stream!Fits(Stream!Lead(u[i]), k, u[i + k]))
               <=> (j + k <= Len(v) /\ ~Stream!Fits(Stream!Lead(v[j]), k, v[j + k]))
    <3>1. i + k <= Len(u) <=> j + k <= Len(v)
      BY DEF Alike
    <3>2. j + k <= Len(v) => u[i + k] = v[j + k]
      BY DEF Alike
    <3> QED BY <1>1, <3>1, <3>2, Zenon
  <2> HIDE DEF Announced
  <2> QED BY <1>1, <2>1, Zenon DEF Wrong
<1>4. Announced(v, j) # 0 => (Short(u, i) <=> Short(v, j))
  <2> SUFFICES ASSUME Announced(v, j) # 0 PROVE Short(u, i) <=> Short(v, j)
    OBVIOUS
  <2> DEFINE a == Announced(v, j)
             k == a - 1
  <2>1. a \in {2, 3, 4} /\ k \in 1 .. a - 1
    BY <1>2
  <2>2. i + k <= Len(u) <=> j + k <= Len(v)
    BY <2>1 DEF Alike
  <2>3. (Short(u, i) <=> ~(i + k <= Len(u))) /\ (Short(v, j) <=> ~(j + k <= Len(v)))
    <3> HIDE DEF a
    <3>1. (i + a - 1 > Len(u) <=> ~(i + k <= Len(u))) /\ (j + a - 1 > Len(v) <=> ~(j + k <= Len(v)))
      BY <1>2, <2>1
    <3> QED BY <1>1, <3>1, Zenon DEF a, Short
  <2> QED BY <2>2, <2>3
<1>5. v[j] < 128 \/ v[j] >= 128
  BY <1>2, OctetIs, Zenon
<1>6. CASE v[j] < 128
  <2>1. Stream!utf8_seq(v, j).len = 1
    BY <1>6, SequenceIs, Zenon
  <2>2. u[i] < 128
    BY <1>1, <1>6, Zenon
  <2>3. Stream!utf8_seq(u, i).len = 1
    BY <2>2, SequenceIs, Zenon
  <2> QED BY <2>1, <2>3, Zenon
<1>7. CASE v[j] >= 128 /\ (Announced(v, j) = 0 \/ Wrong(v, j))
  <2>1. Stream!utf8_seq(v, j).len = 0
    BY <1>7, SequenceIs, Zenon
  <2>2. u[i] >= 128 /\ (Announced(u, i) = 0 \/ Wrong(u, i))
    BY <1>1, <1>3, <1>7, Zenon
  <2>3. Stream!utf8_seq(u, i).len = 0
    BY <2>2, SequenceIs, Zenon
  <2> QED BY <2>1, <2>3, Zenon
<1>8. CASE v[j] >= 128 /\ ~(Announced(v, j) = 0 \/ Wrong(v, j)) /\ Short(v, j)
  <2>1. Stream!utf8_seq(v, j).len = 0
    BY <1>8, SequenceIs, Zenon
  <2>2. u[i] >= 128 /\ ~(Announced(u, i) = 0 \/ Wrong(u, i)) /\ Short(u, i)
    BY <1>1, <1>3, <1>4, <1>8, Zenon
  <2>3. Stream!utf8_seq(u, i).len = 0
    BY <2>2, SequenceIs, Zenon
  <2> QED BY <2>1, <2>3, Zenon
<1>9. CASE v[j] >= 128 /\ ~(Announced(v, j) = 0 \/ Wrong(v, j)) /\ ~Short(v, j)
  <2>1. Stream!utf8_seq(v, j).len = Announced(v, j)
    BY <1>9, SequenceIs, Zenon
  <2>2. u[i] >= 128 /\ ~(Announced(u, i) = 0 \/ Wrong(u, i)) /\ ~Short(u, i)
    BY <1>1, <1>3, <1>4, <1>9, Zenon
  <2>3. Stream!utf8_seq(u, i).len = Announced(u, i)
    BY <2>2, SequenceIs, Zenon
  <2> QED BY <1>1, <2>1, <2>3, Zenon
<1> QED BY <1>5, <1>6, <1>7, <1>8, <1>9

LEMMA TogetherIs ==
  ASSUME NEW a \in Octets, NEW b \in Octets
  PROVE  /\ a \o b \in Octets /\ Len(a \o b) = Len(a) + Len(b)
         /\ \A i \in 1 .. Len(a) : (a \o b)[i] = a[i]
         /\ \A j \in 1 .. Len(b) : (a \o b)[Len(a) + j] = b[j]
<1>1. a \o b \in Octets /\ Len(a \o b) = Len(a) + Len(b)
  BY ConcatProperties DEF Octets
<1>2. Len(a) \in Nat /\ Len(b) \in Nat
  BY OctetsAre
<1>3. \A i \in 1 .. Len(a) + Len(b) : (a \o b)[i] = IF i <= Len(a) THEN a[i] ELSE b[i - Len(a)]
  BY ConcatProperties DEF Octets
<1>4. ASSUME NEW i \in 1 .. Len(a) PROVE (a \o b)[i] = a[i]
  <2>1. i \in 1 .. Len(a) + Len(b) /\ i <= Len(a)
    BY <1>2
  <2> QED BY <1>3, <2>1, Zenon
<1>5. ASSUME NEW j \in 1 .. Len(b) PROVE (a \o b)[Len(a) + j] = b[j]
  <2>1. Len(a) + j \in 1 .. Len(a) + Len(b) /\ ~(Len(a) + j <= Len(a)) /\ (Len(a) + j) - Len(a) = j
    BY <1>2
  <2>2. (a \o b)[Len(a) + j] = b[(Len(a) + j) - Len(a)]
    BY <1>3, <2>1, Zenon
  <2> QED BY <2>1, <2>2, Zenon
<1> QED BY <1>1, <1>4, <1>5

(* Where b follows a, what is seen in b is what is seen of b alone.         *)
LEMMA BehindSame ==
  ASSUME NEW a \in Octets, NEW b \in Octets, NEW j \in 1 .. Len(b)
  PROVE  /\ Piece(a \o b, Len(a) + j) = Piece(b, j)
         /\ After(a \o b, Len(a) + j) = Len(a) + After(b, j)
<1> DEFINE u == a \o b
           i == Len(a) + j
           n == Stream!utf8_seq(b, j).len
<1>1. Len(a) \in Nat /\ Len(b) \in Nat /\ u \in Octets /\ Len(u) = Len(a) + Len(b)
      /\ \A k \in 1 .. Len(b) : u[Len(a) + k] = b[k]
  BY TogetherIs, OctetsAre
<1>2. i \in 1 .. Len(u)
  BY <1>1
<1>3. n \in 0 .. 4 /\ j + n - 1 <= Len(b)
  BY SequenceInside
<1>4. Announced(b, j) \in {0, 2, 3, 4}
  BY SequenceIs
<1> HIDE DEF u, n
<1>5. Alike(u, i, b, j)
  <2>1. u[i] = b[j]
    BY <1>1
  <2>2. ASSUME NEW k \in 1 .. Announced(b, j) - 1
        PROVE  (i + k <= Len(u) <=> j + k <= Len(b)) /\ (j + k <= Len(b) => u[i + k] = b[j + k])
    <3>1. k \in Nat
      BY <1>4
    <3>2. (i + k <= Len(u) <=> j + k <= Len(b)) /\ i + k = Len(a) + (j + k)
      BY <1>1, <3>1
    <3>3. j + k <= Len(b) => j + k \in 1 .. Len(b)
      BY <1>1, <3>1
    <3> QED BY <1>1, <3>2, <3>3
  <2> HIDE DEF i
  <2> QED BY <2>1, <2>2 DEF Alike
<1>6. Stream!utf8_seq(u, i).len = n
  BY <1>1, <1>2, <1>5, AlikeSame DEF n
<1>7. n # 0 => SubSeq(u, i, i + n - 1) = SubSeq(b, j, j + n - 1)
  <2> SUFFICES ASSUME n # 0 PROVE SubSeq(u, i, i + n - 1) = SubSeq(b, j, j + n - 1)
    OBVIOUS
  <2>1. i \in Len(a) + 1 .. Len(a) + Len(b) /\ i + n - 1 \in Len(a) + 1 .. Len(a) + Len(b)
        /\ i - Len(a) = j /\ (i + n - 1) - Len(a) = j + n - 1
    BY <1>1, <1>3
  <2>2. a \in Seq(Octet) /\ b \in Seq(Octet)
    BY DEF Octets
  <2>3. SubSeq(a \o b, i, i + n - 1) = SubSeq(b, i - Len(a), (i + n - 1) - Len(a))
    <3> HIDE DEF i
    <3> QED BY <2>1, <2>2, SubSeqOfConcat2
  <2> QED BY <2>1, <2>3, Zenon DEF u
<1>8. Piece(u, i) = Piece(b, j)
  <2>1. Piece(u, i) = IF n = 0 THEN Stream!Bytes(Stream!Replacement) ELSE SubSeq(u, i, i + n - 1)
    BY <1>6, Zenon DEF Piece
  <2>2. Piece(b, j) = IF n = 0 THEN Stream!Bytes(Stream!Replacement) ELSE SubSeq(b, j, j + n - 1)
    BY Zenon DEF Piece, n
  <2>3. CASE n = 0
    BY <2>1, <2>2, <2>3, Zenon
  <2>4. CASE n # 0
    BY <1>7, <2>1, <2>2, <2>4, Zenon
  <2> QED BY <2>3, <2>4
<1>9. After(u, i) = Len(a) + After(b, j)
  <2>1. After(u, i) = IF n = 0 THEN i + 1 ELSE i + n
    BY <1>6, Zenon DEF After
  <2>2. After(b, j) = IF n = 0 THEN j + 1 ELSE j + n
    BY Zenon DEF After, n
  <2> QED BY <1>1, <1>3, <2>1, <2>2
<1> QED BY <1>8, <1>9 DEF u

(* The repair goes through the seam of a and b where it would not have seen *)
(* a's bytes otherwise without b.                                           *)
Seam(a, b) == \A i \in 1 .. Len(a) : Stream!utf8_seq(a \o b, i).len = Stream!utf8_seq(a, i).len

LEMMA BeforeSame ==
  ASSUME NEW a \in Octets, NEW b \in Octets, Seam(a, b), NEW i \in 1 .. Len(a)
  PROVE  Piece(a \o b, i) = Piece(a, i) /\ After(a \o b, i) = After(a, i)
<1> DEFINE n == Stream!utf8_seq(a, i).len
<1>1. n \in 0 .. 4 /\ i + n - 1 <= Len(a) /\ Len(a) \in Nat
  BY SequenceInside, OctetsAre
<1>2. Stream!utf8_seq(a \o b, i).len = n
  BY DEF Seam
<1>3. n # 0 => SubSeq(a \o b, i, i + n - 1) = SubSeq(a, i, i + n - 1)
  <2> HIDE DEF n
  <2>1. n # 0 => i + n - 1 \in 1 .. Len(a)
    BY <1>1
  <2>2. a \in Seq(Octet) /\ b \in Seq(Octet)
    BY DEF Octets
  <2> QED BY <2>1, <2>2, SubSeqOfConcat1
<1> HIDE DEF n
<1>4. Piece(a \o b, i) = IF n = 0 THEN Stream!Bytes(Stream!Replacement) ELSE SubSeq(a \o b, i, i + n - 1)
  BY <1>2, Zenon DEF Piece
<1>5. Piece(a, i) = IF n = 0 THEN Stream!Bytes(Stream!Replacement) ELSE SubSeq(a, i, i + n - 1)
  BY Zenon DEF Piece, n
<1>6. Piece(a \o b, i) = Piece(a, i)
  <2>1. CASE n = 0
    BY <1>4, <1>5, <2>1, Zenon
  <2>2. CASE n # 0
    BY <1>3, <1>4, <1>5, <2>2, Zenon
  <2> QED BY <2>1, <2>2
<1>7. After(a \o b, i) = After(a, i)
  BY <1>2, Zenon DEF After, n
<1> QED BY <1>6, <1>7

LEMMA SeamJoins ==
  ASSUME NEW a \in Octets, NEW b \in Octets, Seam(a, b)
  PROVE  Stream!to_valid_utf8(a \o b) = Stream!to_valid_utf8(a) \o Stream!to_valid_utf8(b)
<1> DEFINE u == a \o b
           l == Len(a)
           m == Len(b)
<1>1. l \in Nat /\ m \in Nat /\ u \in Octets /\ Len(u) = l + m
  BY TogetherIs, OctetsAre
<1>2. PICK f : Repairs(f, a) /\ Stream!to_valid_utf8(a) = f[1]
  BY RepairIs
<1>3. PICK h : Repairs(h, b) /\ Stream!to_valid_utf8(b) = h[1]
  BY RepairIs
<1>4. PICK r : Repairs(r, u) /\ Stream!to_valid_utf8(u) = r[1]
  BY <1>1, RepairIs
<1>5. \A j \in 1 .. m + 1 : r[l + j] = h[j]
  <2> DEFINE T == {j \in 1 .. m + 1 : r[l + j] = h[j]}
  <2>1. m + 1 \in T
    <3>1. m + 1 \in 1 .. m + 1 /\ l + (m + 1) = (l + m) + 1
      BY <1>1
    <3>2. r[(l + m) + 1] = <<>> /\ h[m + 1] = <<>>
      BY <1>1, <1>3, <1>4 DEF Repairs
    <3> QED BY <3>1, <3>2
  <2>2. ASSUME NEW j \in 1 .. m, \A k \in j + 1 .. m + 1 : k \in T PROVE j \in T
    <3>1. l + j \in 1 .. Len(u) /\ j \in 1 .. m + 1
      BY <1>1
    <3>2. r[l + j] = Piece(u, l + j) \o r[After(u, l + j)]
      BY <1>4, <3>1, Zenon DEF Repairs
    <3>3. h[j] = Piece(b, j) \o h[After(b, j)]
      BY <1>3, Zenon DEF Repairs
    <3>4. Piece(u, l + j) = Piece(b, j) /\ After(u, l + j) = l + After(b, j)
      BY BehindSame
    <3>5. After(b, j) \in j + 1 .. m + 1
      BY PieceIs
    <3>6. r[l + After(b, j)] = h[After(b, j)]
      BY <2>2, <3>5
    <3>7. r[l + j] = h[j]
      BY <3>2, <3>3, <3>4, <3>6, Zenon
    <3> QED BY <3>1, <3>7
  <2> HIDE DEF T
  <2>3. \A j \in 1 .. m + 1 : j \in T
    <3> HIDE DEF m
    <3> QED BY <1>1, <2>1, <2>2, Backwards
  <2> QED BY <2>3 DEF T
<1>6. h[1] \in Seq(Int) /\ r[l + 1] = h[1]
  <2>1. 1 \in 1 .. m + 1
    BY <1>1
  <2> QED BY <1>3, <1>5, <2>1 DEF Repairs
<1>7. \A i \in 1 .. l + 1 : r[i] = f[i] \o h[1]
  <2> DEFINE T == {i \in 1 .. l + 1 : r[i] = f[i] \o h[1]}
  <2>1. l + 1 \in T
    <3>1. l + 1 \in 1 .. l + 1
      BY <1>1
    <3>2. f[l + 1] = <<>>
      BY <1>2 DEF Repairs
    <3>3. <<>> \o h[1] = h[1]
      BY <1>6, ConcatEmptySeq
    <3>4. r[l + 1] = f[l + 1] \o h[1]
      BY <1>6, <3>2, <3>3, Zenon
    <3> QED BY <3>1, <3>4
  <2>2. ASSUME NEW i \in 1 .. l, \A k \in i + 1 .. l + 1 : k \in T PROVE i \in T
    <3>1. i \in 1 .. Len(u) /\ i \in 1 .. l + 1
      BY <1>1
    <3>2. r[i] = Piece(u, i) \o r[After(u, i)]
      BY <1>4, <3>1, Zenon DEF Repairs
    <3>3. f[i] = Piece(a, i) \o f[After(a, i)]
      BY <1>2, Zenon DEF Repairs
    <3>4. Piece(u, i) = Piece(a, i) /\ After(u, i) = After(a, i)
      BY BeforeSame
    <3>5. After(a, i) \in i + 1 .. l + 1 /\ Piece(a, i) \in Seq(Int)
      BY PieceIs
    <3>6. r[After(a, i)] = f[After(a, i)] \o h[1]
      BY <2>2, <3>5
    <3>7. f[After(a, i)] \in Seq(Int)
      <4>1. After(a, i) \in 1 .. l + 1
        BY <1>1, <3>5
      <4> QED BY <1>2, <4>1 DEF Repairs
    <3>8. (Piece(a, i) \o f[After(a, i)]) \o h[1] = Piece(a, i) \o (f[After(a, i)] \o h[1])
      <4> DEFINE p == Piece(a, i)
                 q == f[After(a, i)]
                 t == h[1]
      <4>1. p \in Seq(Int) /\ q \in Seq(Int) /\ t \in Seq(Int)
        BY <1>6, <3>5, <3>7
      <4> HIDE DEF p, q, t
      <4>2. (p \o q) \o t = p \o (q \o t)
        BY <4>1, ConcatAssociative, SMTT(30)
      <4> QED BY <4>2, Zenon DEF p, q, t
    <3>9. r[i] = f[i] \o h[1]
      BY <3>2, <3>3, <3>4, <3>6, <3>8, Zenon
    <3> QED BY <3>1, <3>9
  <2> HIDE DEF T
  <2>3. \A i \in 1 .. l + 1 : i \in T
    <3> HIDE DEF l
    <3> QED BY <1>1, <2>1, <2>2, Backwards
  <2> QED BY <2>3 DEF T
<1>8. r[1] = f[1] \o h[1]
  <2>1. 1 \in 1 .. l + 1
    BY <1>1
  <2> QED BY <1>7, <2>1
<1> QED BY <1>2, <1>3, <1>4, <1>8, Zenon DEF u

---------------------------------------------------------------------------
(* Where utf8_safe_len cuts                                                 *)

LEMMA ContIs == \A c \in 0 .. 255 : Stream!IsCont(c) <=> c \in 128 .. 191
BY SMT DEF Stream!IsCont

LEMMA LastLeadIs ==
  ASSUME NEW s \in Octets
  PROVE  LET l == Stream!LastLead(s, 3) IN
         /\ l = 0 \/ (l \in 1 .. Len(s) /\ ~Stream!IsCont(s[l]))
         /\ \A i \in 1 .. Len(s) :
              i > Len(s) - 3 /\ ~Stream!IsCont(s[i])
              /\ (\A j \in 1 .. Len(s) : j > i => Stream!IsCont(s[j])) => l = i
<1> DEFINE l == Stream!LastLead(s, 3)
           leads == {i \in 1 .. Len(s) : i > Len(s) - 3 /\ ~Stream!IsCont(s[i])}
           Last(i) == i \in leads /\ \A j \in leads : j <= i
<1>1. l = IF leads = {} THEN 0 ELSE CHOOSE i \in leads : \A j \in leads : j <= i
  BY DEF Stream!LastLead
<1>2. Len(s) \in Nat
  BY OctetsAre
<1>3. leads # {} => \E i \in leads : \A j \in leads : j <= i
  <2> SUFFICES ASSUME leads # {} PROVE \E i \in leads : \A j \in leads : j <= i
    OBVIOUS
  <2> DEFINE U == {k \in Nat : k <= Len(s) /\ Len(s) - k \in leads}
  <2>1. U \in SUBSET Nat /\ U # {}
    <3>1. PICK i : i \in leads
      OBVIOUS
    <3>2. Len(s) - i \in Nat /\ Len(s) - i <= Len(s) /\ Len(s) - (Len(s) - i) = i
      BY <1>2, <3>1
    <3>3. Len(s) - i \in U
      BY <3>1, <3>2
    <3> QED BY <3>3
  <2>2. PICK k \in U : \A j \in U : k <= j
    <3> HIDE DEF U
    <3> QED BY <2>1, Least
  <2>3. ASSUME NEW j \in leads PROVE j <= Len(s) - k
    <3>1. Len(s) - j \in Nat /\ Len(s) - j <= Len(s) /\ Len(s) - (Len(s) - j) = j
      BY <1>2
    <3>2. Len(s) - j \in U
      BY <3>1
    <3>3. k <= Len(s) - j
      BY <2>2, <3>2
    <3> QED BY <1>2, <2>2, <3>1, <3>3
  <2> QED BY <2>2, <2>3
<1>4. leads # {} => l \in leads /\ \A j \in leads : j <= l
  <2> HIDE DEF leads, l
  <2> QED BY <1>1, <1>3
<1>5. leads = {} => l = 0
  BY <1>1
<1> HIDE DEF l
<1>6. l = 0 \/ (l \in 1 .. Len(s) /\ ~Stream!IsCont(s[l]))
  BY <1>4, <1>5
<1>7. ASSUME NEW i \in 1 .. Len(s), i > Len(s) - 3, ~Stream!IsCont(s[i]),
             \A j \in 1 .. Len(s) : j > i => Stream!IsCont(s[j])
      PROVE  l = i
  <2>1. i \in leads
    BY <1>7
  <2>2. l \in 1 .. Len(s) /\ i <= l /\ ~Stream!IsCont(s[l])
    BY <1>4, <2>1
  <2>3. ~(l > i)
    BY <1>7, <2>2
  <2> QED BY <1>2, <2>2, <2>3
<1> QED BY <1>6, <1>7 DEF l

(* The bytes of a lead that fit are continuations, and the lead is none.    *)
LEMMA LeadFits ==
  /\ \A c \in Octet : Stream!IsCont(c) <=> c \in Conts
  /\ \A c \in Octet : Stream!Lead(c).len # 0 => c \notin Conts
  /\ \A c \in Octet : \A k \in Nat : \A b \in Octet : Stream!Fits(Stream!Lead(c), k, b) => b \in Conts
<1>1. \A c \in Octet : Stream!IsCont(c) <=> c \in Conts
  BY ContIs DEF Conts, Octet
<1> QED BY <1>1, LeadIs

LEMMA FitsCont ==
  ASSUME NEW s \in Octets, NEW i \in 1 .. Len(s), Announced(s, i) # 0
  PROVE  /\ ~Stream!IsCont(s[i])
         /\ \A k \in 1 .. Announced(s, i) - 1 : \A b \in 0 .. 255 :
              Stream!Fits(Stream!Lead(s[i]), k, b) => Stream!IsCont(b)
<1> DEFINE w == s[i]
<1>1. w \in Octet
  BY OctetsAre, OctetIs, Zenon
<1>2. Announced(s, i) = Stream!Lead(w).len
  BY DEF Announced
<1> HIDE DEF w
<1>4. ~Stream!IsCont(w)
  <2>1. w \notin Conts
    BY <1>1, <1>2, LeadFits, Zenon
  <2> QED BY <1>1, <2>1, LeadFits, Zenon
<1>5. ASSUME NEW k \in 1 .. Announced(s, i) - 1, NEW b \in 0 .. 255, Stream!Fits(Stream!Lead(w), k, b)
      PROVE  Stream!IsCont(b)
  <2>1. k \in Nat
    <3>1. Announced(s, i) \in {0, 2, 3, 4}
      BY SequenceIs
    <3> HIDE DEF Announced
    <3> QED BY <3>1
  <2>2. b \in Octet
    BY OctetIs, Zenon
  <2>3. b \in Conts
    BY <1>1, <1>5, <2>1, <2>2, LeadFits, Zenon
  <2> QED BY <2>2, <2>3, LeadFits, Zenon
<1> QED BY <1>4, <1>5 DEF w

(* No text that follows changes what is seen before the cut.                *)
LEMMA SafeSeam ==
  ASSUME NEW s \in Octets, NEW t \in Octets
  PROVE  LET n == Stream!SafeLen(s)
             a == SubSeq(s, 1, n)
             r == SubSeq(s, n + 1, Len(s))
         IN /\ a \in Octets /\ r \in Octets
            /\ a \o (r \o t) = s \o t
            /\ Seam(a, r \o t)
<1> DEFINE n == Stream!SafeLen(s)
           l == Stream!LastLead(s, 3)
           a == SubSeq(s, 1, n)
           r == SubSeq(s, n + 1, Len(s))
           u == s \o t
<1>1. Len(s) \in Nat /\ (\A i \in 1 .. Len(s) : s[i] \in 0 .. 255)
      /\ u \in Octets /\ Len(u) = Len(s) + Len(t) /\ Len(t) \in Nat /\ \A i \in 1 .. Len(s) : u[i] = s[i]
  BY OctetsAre, TogetherIs
<1>2. n = IF l # 0 /\ Stream!utf8_seq(s, l).cut THEN l - 1 ELSE Len(s)
  BY DEF Stream!SafeLen
<1>3. l = 0 \/ (l \in 1 .. Len(s) /\ ~Stream!IsCont(s[l]))
  BY LastLeadIs
<1> HIDE DEF l, n
<1>4. n \in 0 .. Len(s) /\ (n = Len(s) \/ (n + 1 \in 1 .. Len(s) /\ ~Stream!IsCont(s[n + 1])))
  <2>1. CASE l # 0 /\ Stream!utf8_seq(s, l).cut
    <3>1. n = l - 1 /\ l \in 1 .. Len(s)
      BY <1>2, <1>3, <2>1
    <3>2. n \in 0 .. Len(s) /\ n + 1 = l
      BY <1>1, <3>1
    <3> QED BY <1>3, <2>1, <3>1, <3>2
  <2>2. CASE ~(l # 0 /\ Stream!utf8_seq(s, l).cut)
    BY <1>1, <1>2, <2>2
  <2> QED BY <2>1, <2>2
<1>5. s \in Seq(Octet) /\ t \in Seq(Octet) /\ \A i \in 1 .. Len(s) : s[i] \in Octet
  BY <1>1, OctetIs DEF Octets
<1>6. a \in Seq(Octet) /\ Len(a) = n /\ \A i \in 1 .. n : a[i] = s[i]
  <2>1. \A i \in 1 .. n : s[i] \in Octet
    BY <1>1, <1>4, <1>5
  <2>2. n \in Int /\ 1 \in Int
    BY <1>4
  <2>3. /\ SubSeq(s, 1, n) \in Seq(Octet)
        /\ Len(SubSeq(s, 1, n)) = IF 1 <= n THEN n - 1 + 1 ELSE 0
        /\ \A i \in 1 .. n - 1 + 1 : SubSeq(s, 1, n)[i] = s[1 + i - 1]
    BY <2>1, <2>2, SubSeqProperties
  <2>4. Len(a) = n
    BY <1>4, <2>3
  <2>5. ASSUME NEW i \in 1 .. n PROVE a[i] = s[i]
    <3>1. i \in 1 .. n - 1 + 1 /\ 1 + i - 1 = i
      BY <1>4
    <3> QED BY <2>3, <3>1
  <2> QED BY <2>3, <2>4, <2>5
<1>7. r \in Seq(Octet)
  <2>1. \A i \in n + 1 .. Len(s) : s[i] \in Octet
    BY <1>1, <1>4, <1>5
  <2>2. n + 1 \in Int /\ Len(s) \in Int
    BY <1>1, <1>4
  <2> QED BY <2>1, <2>2, SubSeqProperties
<1>8. a \o r = s
  <2>1. 1 \in 1 .. Len(s) + 1 /\ n \in 1 - 1 .. Len(s) /\ Len(s) \in n .. Len(s)
    BY <1>1, <1>4
  <2>2. a \o r = SubSeq(s, 1, Len(s))
    BY <1>5, <2>1, ConcatAdjacentSubSeq
  <2> QED BY <1>5, <2>2, SubSeqFull
<1> HIDE DEF a, r
<1>9. a \o (r \o t) = u
  <2>1. a \in Seq(Octet) /\ r \in Seq(Octet) /\ t \in Seq(Octet)
    BY <1>5, <1>6, <1>7
  <2>2. \A x, y, z \in Seq(Octet) : (x \o y) \o z = x \o (y \o z)
    BY ConcatAssociative
  <2>3. (a \o r) \o t = a \o (r \o t)
    BY <2>1, <2>2, Zenon
  <2> QED BY <1>8, <2>3, Zenon DEF u
<1>10. a \in Octets /\ r \in Octets
  BY <1>6, <1>7 DEF Octets
<1> HIDE DEF u
<1>11. ASSUME NEW i \in 1 .. Len(a) PROVE Stream!utf8_seq(u, i).len = Stream!utf8_seq(a, i).len
  <2>1. i \in 1 .. n /\ i \in 1 .. Len(s) /\ i \in 1 .. Len(u) /\ a[i] = s[i] /\ u[i] = s[i] /\ s[i] \in 0 .. 255
    BY <1>1, <1>4, <1>6
  <2> DEFINE m == Announced(s, i)
  <2>2. Announced(u, i) = m /\ Announced(a, i) = m /\ m \in {0, 2, 3, 4}
        /\ Stream!Lead(u[i]) = Stream!Lead(s[i]) /\ Stream!Lead(a[i]) = Stream!Lead(s[i])
    BY <2>1, SequenceIs DEF Announced
  <2>3. \A k \in 1 .. m - 1 : i + k <= n =>
          /\ i + k <= Len(s) /\ i + k <= Len(a) /\ i + k <= Len(u)
          /\ a[i + k] = s[i + k] /\ u[i + k] = s[i + k] /\ s[i + k] \in 0 .. 255
    <3> SUFFICES ASSUME NEW k \in 1 .. m - 1, i + k <= n
                 PROVE  /\ i + k <= Len(s) /\ i + k <= Len(a) /\ i + k <= Len(u)
                        /\ a[i + k] = s[i + k] /\ u[i + k] = s[i + k] /\ s[i + k] \in 0 .. 255
      OBVIOUS
    <3>1. k \in Nat
      BY <2>2
    <3> HIDE DEF m
    <3>2. i + k \in 1 .. n /\ i + k \in 1 .. Len(s) /\ i + k <= Len(a) /\ i + k <= Len(u)
      BY <1>1, <1>4, <1>6, <2>1, <3>1
    <3> QED BY <1>1, <1>6, <3>2
  <2> HIDE DEF m
  <2>4. s[i] < 128 \/ s[i] >= 128
    BY <2>1, OctetIs, Zenon
  <2>5. CASE s[i] < 128
    <3>1. u[i] < 128 /\ a[i] < 128
      BY <2>1, <2>5, Zenon
    <3>2. Stream!utf8_seq(u, i).len = 1
      BY <1>1, <2>1, <3>1, SequenceIs, Zenon
    <3>3. Stream!utf8_seq(a, i).len = 1
      BY <1>10, <2>1, <3>1, SequenceIs, Zenon
    <3> QED BY <3>2, <3>3, Zenon
  <2>6. CASE s[i] >= 128 /\ m = 0
    <3>1. u[i] >= 128 /\ a[i] >= 128 /\ Announced(u, i) = 0 /\ Announced(a, i) = 0
      BY <2>1, <2>2, <2>6, Zenon
    <3>2. Stream!utf8_seq(u, i).len = 0
      BY <1>1, <2>1, <3>1, SequenceIs, Zenon
    <3>3. Stream!utf8_seq(a, i).len = 0
      BY <1>10, <2>1, <3>1, SequenceIs, Zenon
    <3> QED BY <3>2, <3>3, Zenon
  <2>7. CASE m # 0 /\ i + m - 1 <= n
    <3>1. ASSUME NEW k \in 1 .. m - 1
          PROVE  (i + k <= Len(u) <=> i + k <= Len(a)) /\ (i + k <= Len(a) => u[i + k] = a[i + k])
      <4>1. i + k <= n
        BY <1>4, <2>1, <2>2, <2>7
      <4> QED BY <2>3, <4>1
    <3>2. Alike(u, i, a, i)
      BY <2>1, <2>2, <3>1 DEF Alike
    <3> QED BY <1>1, <1>10, <2>1, <3>2, AlikeSame
  <2>8. CASE s[i] >= 128 /\ m # 0 /\ i + m - 1 > n
    <3>1. Short(a, i)
      BY <1>6, <2>2, <2>8 DEF Short
    <3>2. Stream!utf8_seq(a, i).len = 0
      BY <1>10, <2>1, <2>2, <2>8, <3>1, SequenceIs
    <3>3. /\ ~Stream!IsCont(s[i])
          /\ \A k \in 1 .. m - 1 : \A b \in 0 .. 255 : Stream!Fits(Stream!Lead(s[i]), k, b) => Stream!IsCont(b)
      BY <2>1, <2>8, FitsCont DEF m
    <3>4. CASE n # Len(s)
      <4> DEFINE k == n + 1 - i
      <4>1. k \in 1 .. m - 1 /\ i + k = n + 1 /\ n + 1 \in 1 .. Len(s) /\ i + k <= Len(u)
        BY <1>1, <1>4, <2>1, <2>2, <2>8, <3>4
      <4>2. s[n + 1] \in 0 .. 255 /\ u[n + 1] = s[n + 1] /\ ~Stream!IsCont(s[n + 1])
        BY <1>1, <1>4, <3>4
      <4> HIDE DEF k
      <4>3. ~Stream!Fits(Stream!Lead(u[i]), k, u[i + k])
        BY <2>2, <3>3, <4>1, <4>2
      <4>4. Wrong(u, i)
        BY <2>2, <4>1, <4>3 DEF Wrong
      <4>5. Stream!utf8_seq(u, i).len = 0
        BY <1>1, <2>1, <2>8, <4>4, SequenceIs
      <4> QED BY <3>2, <4>5
    <3>5. CASE n = Len(s)
      <4>1. CASE Wrong(s, i)
        <5>1. PICK k \in 1 .. m - 1 : i + k <= Len(s) /\ ~Stream!Fits(Stream!Lead(s[i]), k, s[i + k])
          BY <4>1 DEF Wrong, m
        <5>2. i + k <= Len(u) /\ u[i + k] = s[i + k]
          BY <2>3, <3>5, <5>1
        <5>3. Wrong(u, i)
          BY <2>2, <5>1, <5>2 DEF Wrong
        <5>4. Stream!utf8_seq(u, i).len = 0
          BY <1>1, <2>1, <2>8, <5>3, SequenceIs
        <5> QED BY <3>2, <5>4
      <4>2. CASE ~Wrong(s, i)
        <5>1. Short(s, i)
          BY <2>8, <3>5 DEF Short, m
        <5>2. Stream!utf8_seq(s, i).cut = TRUE
          BY <2>1, <2>8, <4>2, <5>1, SequenceIs DEF m
        <5>3. i > Len(s) - 3
          BY <1>1, <2>1, <2>2, <2>8, <3>5
        <5>4. ASSUME NEW j \in 1 .. Len(s), j > i PROVE Stream!IsCont(s[j])
          <6> DEFINE k == j - i
          <6>1. k \in 1 .. m - 1 /\ i + k = j /\ j <= Len(s)
            BY <1>1, <2>1, <2>2, <2>8, <3>5, <5>4
          <6> HIDE DEF k
          <6>2. Stream!Fits(Stream!Lead(s[i]), k, s[j])
            BY <4>2, <6>1 DEF Wrong, m
          <6> QED BY <1>1, <3>3, <6>1, <6>2
        <5>5. l = i
          BY <2>1, <3>3, <5>3, <5>4, LastLeadIs DEF l
        <5>6. n = i - 1
          BY <1>2, <2>1, <5>2, <5>5
        <5> QED BY <1>1, <2>1, <3>5, <5>6
      <4> QED BY <4>1, <4>2
    <3> QED BY <3>4, <3>5
  <2> QED BY <2>1, <2>2, <2>4, <2>5, <2>6, <2>7, <2>8, <1>4
<1>12. Seam(a, r \o t)
  BY <1>9, <1>11 DEF Seam
<1> QED BY <1>9, <1>10, <1>12 DEF a, r, n, u

---------------------------------------------------------------------------
(* The reply on its way to the display                                      *)

LEMMA RepairSeq ==
  /\ \A s \in Octets : Stream!to_valid_utf8(s) \in Seq(Int)
  /\ <<>> \in Octets /\ Stream!to_valid_utf8(<<>>) = <<>>
<1>1. ASSUME NEW s \in Octets PROVE Stream!to_valid_utf8(s) \in Seq(Int)
  <2>1. PICK f : Repairs(f, s) /\ Stream!to_valid_utf8(s) = f[1]
    BY RepairIs
  <2>2. 1 \in 1 .. Len(s) + 1
    BY OctetsAre
  <2> QED BY <2>1, <2>2 DEF Repairs
<1>2. <<>> \in Octets
  BY DEF Octets
<1>3. Stream!to_valid_utf8(<<>>) = <<>>
  <2>1. PICK f : Repairs(f, <<>>) /\ Stream!to_valid_utf8(<<>>) = f[1]
    BY <1>2, RepairIs
  <2>2. Len(<<>>) + 1 = 1
    OBVIOUS
  <2>3. f[Len(<<>>) + 1] = <<>>
    BY <2>1 DEF Repairs
  <2> QED BY <2>1, <2>2, <2>3
<1> QED BY <1>1, <1>2, <1>3

LEMMA OctetsJoin ==
  ASSUME NEW a \in Octets, NEW b \in Octets, NEW d \in Octets
  PROVE  a \o b \in Octets /\ (a \o b) \o d = a \o (b \o d) /\ a \o <<>> = a
BY ConcatProperties, ConcatAssociative, ConcatEmptySeq DEF Octets

(* While the reply comes in, what was shown and what is held back are, with *)
(* whatever is still to come, the whole repaired.                           *)
StreamInv ==
  /\ reply \in Octets /\ held \in Octets /\ shown \in Seq(Int) /\ over \in BOOLEAN
  /\ over = TRUE => held = <<>> /\ shown = Stream!to_valid_utf8(reply)
  /\ over = FALSE => \A t \in Octets : shown \o Stream!to_valid_utf8(held \o t) = Stream!to_valid_utf8(reply \o t)

LEMMA StreamInit == Stream!Init => StreamInv
<1> SUFFICES ASSUME Stream!Init PROVE StreamInv
  OBVIOUS
<1>1. reply = <<>> /\ held = <<>> /\ shown = <<>> /\ over = FALSE
  BY DEF Stream!Init
<1>2. ASSUME NEW t \in Octets PROVE <<>> \o Stream!to_valid_utf8(<<>> \o t) = Stream!to_valid_utf8(<<>> \o t)
  <2>1. Stream!to_valid_utf8(<<>> \o t) \in Seq(Int)
    BY RepairSeq, OctetsJoin
  <2> QED BY <2>1, ConcatEmptySeq
<1>3. <<>> \in Octets /\ <<>> \in Seq(Int)
  BY RepairSeq
<1> QED BY <1>1, <1>2, <1>3 DEF StreamInv

LEMMA DeltasAre == Stream!Deltas \subseteq Octets
<1> SUFFICES ASSUME NEW delta \in Stream!Deltas PROVE delta \in Octets
  OBVIOUS
<1>1. PICK n \in 1 .. MaxDelta : delta \in [1 .. n -> Byte]
  BY DEF Stream!Deltas
<1>2. n \in Nat /\ \A i \in 1 .. n : delta[i] \in Byte
  BY <1>1, ByteAssumption
<1>3. \A i \in 1 .. n : delta[i] \in Octet
  BY <1>2, ByteAssumption DEF Octet
<1>4. delta = [i \in 1 .. n |-> delta[i]]
  BY <1>1
<1>5. delta \in Seq(Octet)
  BY <1>2, <1>3, <1>4
<1> QED BY <1>5 DEF Octets

LEMMA FeedKeeps ==
  ASSUME StreamInv, NEW delta \in Stream!Deltas, Stream!Feed(delta)
  PROVE  StreamInv'
<1> DEFINE V(x) == Stream!to_valid_utf8(x)
           s == held \o delta
           n == Stream!SafeLen(s)
           a == SubSeq(s, 1, n)
           r == SubSeq(s, n + 1, Len(s))
<1>1. /\ over = FALSE /\ over' = FALSE /\ reply' = reply \o delta
      /\ held' = r /\ shown' = shown \o V(a)
  BY DEF Stream!Feed, StreamInv
<1>2. reply \in Octets /\ held \in Octets /\ shown \in Seq(Int) /\ delta \in Octets
  BY DeltasAre DEF StreamInv
<1>3. s \in Octets /\ reply \o delta \in Octets
  BY <1>2, OctetsJoin
<1>4. ASSUME NEW t \in Octets
      PROVE  a \in Octets /\ r \in Octets /\ a \o (r \o t) = s \o t /\ Seam(a, r \o t)
  <2> HIDE DEF s
  <2> QED BY <1>3, SafeSeam
<1> HIDE DEF a, r, n, V
<1>5. a \in Octets /\ r \in Octets
  BY <1>4, RepairSeq
<1>6. V(a) \in Seq(Int)
  BY <1>5, RepairSeq DEF V
<1>7. ASSUME NEW t \in Octets PROVE (shown \o V(a)) \o V(r \o t) = V((reply \o delta) \o t)
  <2>1. r \o t \in Octets /\ delta \o t \in Octets
    BY <1>2, <1>5, OctetsJoin
  <2>2. V(r \o t) \in Seq(Int)
    BY <2>1, RepairSeq DEF V
  <2>3. V(s \o t) = V(a) \o V(r \o t)
    <3>1. V(a \o (r \o t)) = V(a) \o V(r \o t)
      BY <1>4, <1>5, <2>1, SeamJoins DEF V
    <3>2. a \o (r \o t) = s \o t
      BY <1>4
    <3> QED BY <3>1, <3>2, Zenon
  <2>4. \A x, y, z \in Seq(Int) : (x \o y) \o z = x \o (y \o z)
    BY ConcatAssociative
  <2>5. (shown \o V(a)) \o V(r \o t) = shown \o (V(a) \o V(r \o t))
    BY <1>2, <1>6, <2>2, <2>4, Zenon
  <2>9. \A x, y, z \in Octets : (x \o y) \o z = x \o (y \o z)
    BY ConcatAssociative DEF Octets
  <2>6. s \o t = held \o (delta \o t)
    BY <1>2, <2>9, Zenon DEF s
  <2>7. (reply \o delta) \o t = reply \o (delta \o t)
    BY <1>2, <2>9, Zenon
  <2>8. shown \o V(held \o (delta \o t)) = V(reply \o (delta \o t))
    BY <1>1, <2>1 DEF StreamInv, V
  <2> QED BY <2>3, <2>5, <2>6, <2>7, <2>8, Zenon
<1>8. shown' \in Seq(Int)
  BY <1>1, <1>2, <1>6
<1> QED BY <1>1, <1>3, <1>5, <1>7, <1>8, Zenon DEF StreamInv, V

LEMMA FlushKeeps == ASSUME StreamInv, Stream!Flush PROVE StreamInv'
<1>1. /\ over = FALSE /\ over' = TRUE /\ shown' = shown \o Stream!to_valid_utf8(held)
      /\ held' = <<>> /\ reply' = reply
  BY DEF Stream!Flush, StreamInv
<1>2. reply \in Octets /\ held \in Octets /\ shown \in Seq(Int) /\ <<>> \in Octets
  BY RepairSeq DEF StreamInv
<1>3. shown \o Stream!to_valid_utf8(held \o <<>>) = Stream!to_valid_utf8(reply \o <<>>)
  BY <1>1, <1>2 DEF StreamInv
<1>4. held \o <<>> = held /\ reply \o <<>> = reply
  BY <1>2, OctetsJoin
<1>5. shown' = Stream!to_valid_utf8(reply)
  BY <1>1, <1>3, <1>4, Zenon
<1>6. shown' \in Seq(Int)
  BY <1>2, <1>5, RepairSeq
<1> QED BY <1>1, <1>2, <1>5, <1>6, Zenon DEF StreamInv

LEMMA StreamStep == StreamInv /\ [Stream!Next]_streamVars => StreamInv'
<1> SUFFICES ASSUME StreamInv, [Stream!Next]_streamVars PROVE StreamInv'
  OBVIOUS
<1>1. CASE UNCHANGED streamVars
  BY <1>1 DEF streamVars, StreamInv
<1> QED BY <1>1, FeedKeeps, FlushKeeps DEF Stream!Next

LEMMA StreamIsWhole == StreamInv => Stream!StreamWhole
<1> SUFFICES ASSUME StreamInv PROVE shown \o Stream!to_valid_utf8(held) = Stream!to_valid_utf8(reply)
  BY DEF Stream!StreamWhole
<1>1. reply \in Octets /\ held \in Octets /\ <<>> \in Octets /\ shown \in Seq(Int)
  BY RepairSeq DEF StreamInv
<1>2. CASE over = TRUE
  <2>1. held = <<>> /\ shown = Stream!to_valid_utf8(reply)
    BY <1>2 DEF StreamInv
  <2>2. Stream!to_valid_utf8(held) = <<>>
    BY <2>1, RepairSeq
  <2>3. shown \o <<>> = shown
    BY <1>1, ConcatEmptySeq
  <2> QED BY <2>1, <2>2, <2>3, Zenon
<1>3. CASE over = FALSE
  <2>1. shown \o Stream!to_valid_utf8(held \o <<>>) = Stream!to_valid_utf8(reply \o <<>>)
    BY <1>1, <1>3 DEF StreamInv
  <2>2. held \o <<>> = held /\ reply \o <<>> = reply
    BY <1>1, OctetsJoin
  <2> QED BY <2>1, <2>2, Zenon
<1> QED BY <1>2, <1>3 DEF StreamInv

---------------------------------------------------------------------------
(* A string that is parsed                                                  *)

(* The value of four digits, when they are there.                           *)
LEMMA HexIs ==
  ASSUME NEW s \in Octets, NEW i \in Nat \ {0}
  PROVE  Stream!Hex4(s, i) \in Int /\ (Stream!Hex4(s, i) # -1 => i + 3 <= Len(s))
<1>1. Len(s) \in Nat /\ \A k \in 1 .. Len(s) : s[k] \in 0 .. 255
  BY OctetsAre
<1>2. \A c \in Octet : Stream!HexValue(c) \in Int
  BY DEF Stream!HexValue, Octet
<1>3. \A k \in 1 .. Len(s) : Stream!HexValue(s[k]) \in Int
  BY <1>1, <1>2, OctetIs, Zenon
<1> DEFINE Bad == i + 3 > Len(s) \/ \E k \in i .. i + 3 : k <= Len(s) /\ Stream!HexValue(s[k]) = -1
           h == ((Stream!HexValue(s[i]) * 16 + Stream!HexValue(s[i+1])) * 16 + Stream!HexValue(s[i+2])) * 16 + Stream!HexValue(s[i+3])
<1>4. Stream!Hex4(s, i) = IF Bad THEN -1 ELSE h
  BY DEF Stream!Hex4
<1>5. ~Bad => i + 3 <= Len(s)
  BY <1>1
<1>6. ~Bad => h \in Int
  <2>1. SUFFICES ASSUME ~Bad PROVE h \in Int
    OBVIOUS
  <2>2. i \in 1 .. Len(s) /\ i + 1 \in 1 .. Len(s) /\ i + 2 \in 1 .. Len(s) /\ i + 3 \in 1 .. Len(s)
    BY <1>1, <1>5, <2>1
  <2>3. \A x, y, z, w \in Int : ((x * 16 + y) * 16 + z) * 16 + w \in Int
    OBVIOUS
  <2> QED BY <1>3, <2>2, <2>3, Zenon
<1> HIDE DEF Bad, h
<1> QED BY <1>4, <1>5, <1>6

(* An escape ends in the text and stands for bytes.                         *)
LEMMA UnicodeIs ==
  ASSUME NEW s \in Octets, NEW i \in 1 .. Len(s)
  PROVE  LET e == Stream!UnicodeEscape(s, i) IN
         e.bytes \in Seq(Int) /\ e.used \in Nat /\ i + e.used <= Len(s) + 1
<1> DEFINE e == Stream!UnicodeEscape(s, i)
           n == Stream!Hex4(s, i + 2)
           low == IF i + 7 <= Len(s) /\ s[i+6] = Stream!Backslash /\ s[i+7] = Stream!LetterU THEN Stream!Hex4(s, i + 8) ELSE -1
           High == n \in 55296 .. 56319
           Paired == low \in 56320 .. 57343
           Lone == n \in 56320 .. 57343
           cp == 65536 + (n - 55296) * 1024 + low - 56320
<1>1. Len(s) \in Nat /\ i + 2 \in Nat \ {0} /\ i + 8 \in Nat \ {0}
  BY OctetsAre
<1>2. n \in Int /\ (n # -1 => (i + 2) + 3 <= Len(s))
  BY <1>1, HexIs
<1>3. low \in Int /\ (low # -1 => (i + 8) + 3 <= Len(s))
  <2>1. Stream!Hex4(s, i + 8) \in Int /\ (Stream!Hex4(s, i + 8) # -1 => (i + 8) + 3 <= Len(s))
    BY <1>1, HexIs
  <2> HIDE DEF Stream!Hex4
  <2> QED BY <2>1
<1>4. e = CASE n = -1 -> Stream!Escaped(0, <<>>)
            [] High /\ Paired -> Stream!Escaped(12, Stream!Bytes(cp))
            [] (High /\ ~Paired) \/ Lone -> Stream!Escaped(6, Stream!Bytes(Stream!Replacement))
            [] OTHER -> Stream!Escaped(6, Stream!Bytes(n))
  BY DEF Stream!UnicodeEscape
<1>5. Paired => low # -1
  <2>1. -1 \notin 56320 .. 57343
    OBVIOUS
  <2> HIDE DEF low
  <2> QED BY <2>1
<1> HIDE DEF e, n, low, High, Paired, Lone
<1>6. cp \in Int
  BY <1>2, <1>3
<1> HIDE DEF cp
<1>7. /\ Stream!Bytes(cp) \in Seq(Int) /\ Stream!Bytes(n) \in Seq(Int) /\ <<>> \in Seq(Int)
      /\ Stream!Bytes(Stream!Replacement) \in Seq(Int)
  <2>1. Stream!Replacement \in Int
    BY DEF Stream!Replacement
  <2>2. <<>> \in Seq(Int)
    OBVIOUS
  <2> QED BY <1>2, <1>6, <2>1, <2>2, BytesAre, Zenon
<1>8. CASE n = -1
  <2>1. e = Stream!Escaped(0, <<>>)
    <3>1. ~High /\ ~Lone
      BY <1>8 DEF High, Lone
    <3> QED BY <1>4, <1>8, <3>1
  <2> QED BY <1>1, <1>7, <2>1 DEF Stream!Escaped, e
<1>9. CASE n # -1
  <2>1. \/ e = Stream!Escaped(12, Stream!Bytes(cp)) /\ Paired
        \/ e = Stream!Escaped(6, Stream!Bytes(Stream!Replacement))
        \/ e = Stream!Escaped(6, Stream!Bytes(n))
    BY <1>4, <1>9
  <2> QED BY <1>1, <1>2, <1>3, <1>5, <1>7, <1>9, <2>1 DEF Stream!Escaped, e
<1> QED BY <1>8, <1>9

LEMMA EscapeIs ==
  ASSUME NEW s \in Octets, NEW i \in 1 .. Len(s)
  PROVE  LET e == Stream!Escape(s, i) IN
         e.bytes \in Seq(Int) /\ e.used \in Nat /\ i + e.used <= Len(s) + 1
<1> DEFINE x == Stream!Escape(s, i)
           c == s[i + 1]
           IsPlain == c \in {Stream!Plain[k] : k \in 1 .. 3}
           IsLetter == \E k \in 1 .. 5 : Stream!Escapes[k][2] = c
           b == Stream!Escapes[CHOOSE k \in 1 .. 5 : Stream!Escapes[k][2] = c][1]
<1>1. Len(s) \in Nat
  BY OctetsAre
<1>2. x = CASE i = Len(s) -> Stream!Escaped(0, <<>>)
            [] i < Len(s) /\ IsPlain -> Stream!Escaped(2, <<c>>)
            [] i < Len(s) /\ IsLetter -> Stream!Escaped(2, <<b>>)
            [] i < Len(s) /\ c = Stream!LetterU -> Stream!UnicodeEscape(s, i)
            [] OTHER -> Stream!Escaped(0, <<>>)
  BY Zenon DEF Stream!Escape
<1>3. i < Len(s) => c \in Int
  <2>1. i < Len(s) => i + 1 \in 1 .. Len(s)
    BY <1>1
  <2> QED BY <2>1, OctetsAre, OctetIs, Zenon
<1>4. IsLetter => b \in Int
  <2>1. \A k \in 1 .. 5 : Stream!Escapes[k][1] \in Int
    BY DEF Stream!Escapes
  <2>2. IsLetter => (CHOOSE k \in 1 .. 5 : Stream!Escapes[k][2] = c) \in 1 .. 5
    OBVIOUS
  <2> QED BY <2>1, <2>2, Zenon
<1> HIDE DEF x, c, IsPlain, IsLetter, b
<1>5. \A z \in Int : <<z>> \in Seq(Int)
  OBVIOUS
<1>6. \/ x = Stream!Escaped(0, <<>>)
      \/ i < Len(s) /\ x = Stream!Escaped(2, <<c>>)
      \/ i < Len(s) /\ IsLetter /\ x = Stream!Escaped(2, <<b>>)
      \/ x = Stream!UnicodeEscape(s, i)
  BY <1>2
<1>7. CASE x = Stream!Escaped(0, <<>>)
  BY <1>1, <1>7 DEF Stream!Escaped, x
<1>8. CASE i < Len(s) /\ x = Stream!Escaped(2, <<c>>)
  <2>1. <<c>> \in Seq(Int)
    BY <1>3, <1>5, <1>8
  <2> QED BY <1>1, <1>8, <2>1 DEF Stream!Escaped, x
<1>9. CASE i < Len(s) /\ IsLetter /\ x = Stream!Escaped(2, <<b>>)
  <2>1. <<b>> \in Seq(Int)
    BY <1>4, <1>5, <1>9
  <2> QED BY <1>1, <1>9, <2>1 DEF Stream!Escaped, x
<1>10. CASE x = Stream!UnicodeEscape(s, i)
  BY <1>10, UnicodeIs, Zenon DEF x
<1> QED BY <1>6, <1>7, <1>8, <1>9, <1>10

(* What parsing makes of the place i, with x for what is behind it, and     *)
(* where it goes on.                                                        *)
Parsed == [end : Nat, bytes : Seq(Int)]
Malformed == [end |-> 0, bytes |-> <<>>]
ReadOne(s, i, x) ==
  IF s[i] = Stream!Quote THEN [end |-> i + 1, bytes |-> <<>>]
  ELSE IF s[i] # Stream!Backslash THEN [x EXCEPT !.bytes = <<s[i]>> \o @]
  ELSE IF Stream!Escape(s, i).used = 0 THEN Malformed
  ELSE [x EXCEPT !.bytes = Stream!Escape(s, i).bytes \o @]
Onward(s, i) ==
  IF s[i] # Stream!Backslash \/ Stream!Escape(s, i).used = 0 THEN i + 1 ELSE i + Stream!Escape(s, i).used

LEMMA ReadIs ==
  ASSUME NEW s \in Octets, NEW i \in 1 .. Len(s)
  PROVE  /\ Onward(s, i) \in i + 1 .. Len(s) + 1
         /\ \A x \in Parsed : ReadOne(s, i, x) \in Parsed
<1>1. Len(s) \in Nat /\ <<s[i]>> \in Seq(Int)
  <2>1. Len(s) \in Nat /\ s[i] \in Int
    BY OctetsAre, OctetIs, Zenon
  <2> QED BY <2>1
<1> DEFINE e == Stream!Escape(s, i)
<1>2. e.bytes \in Seq(Int) /\ e.used \in Nat /\ i + e.used <= Len(s) + 1
  BY EscapeIs
<1> HIDE DEF e
<1>3. Onward(s, i) = IF s[i] # Stream!Backslash \/ e.used = 0 THEN i + 1 ELSE i + e.used
  BY DEF Onward, e
<1>4. Onward(s, i) \in i + 1 .. Len(s) + 1
  BY <1>1, <1>2, <1>3
<1>5. ASSUME NEW x \in Parsed PROVE ReadOne(s, i, x) \in Parsed
  <2>1. ReadOne(s, i, x) = IF s[i] = Stream!Quote THEN [end |-> i + 1, bytes |-> <<>>]
                           ELSE IF s[i] # Stream!Backslash THEN [x EXCEPT !.bytes = <<s[i]>> \o @]
                           ELSE IF e.used = 0 THEN Malformed
                           ELSE [x EXCEPT !.bytes = e.bytes \o @]
    BY DEF ReadOne, e
  <2>2. \A b \in Seq(Int) : [x EXCEPT !.bytes = b \o @] \in Parsed
    <3>1. \A v \in Seq(Int) : [x EXCEPT !.bytes = v] \in Parsed
      BY DEF Parsed
    <3>2. x.bytes \in Seq(Int)
      BY DEF Parsed
    <3>3. \A b \in Seq(Int) : b \o x.bytes \in Seq(Int)
      BY <3>2, ConcatProperties
    <3> QED BY <3>1, <3>3, Zenon
  <2>3. [end |-> i + 1, bytes |-> <<>>] \in Parsed /\ Malformed \in Parsed
    BY DEF Parsed, Malformed
  <2>4. [x EXCEPT !.bytes = <<s[i]>> \o @] \in Parsed /\ [x EXCEPT !.bytes = e.bytes \o @] \in Parsed
    BY <1>1, <1>2, <2>2, Zenon
  <2> QED BY <2>1, <2>3, <2>4, Zenon
<1> QED BY <1>4, <1>5

(* f holds, for each place of s, what parsing makes of s from there on.     *)
Reads(f, s) ==
  /\ f \in [1 .. Len(s) + 1 -> Parsed] /\ f[Len(s) + 1] = Malformed
  /\ \A i \in 1 .. Len(s) : f[i] = ReadOne(s, i, f[Onward(s, i)])

LEMMA HasRead ==
  ASSUME NEW s \in Octets
  PROVE  \E f : Reads(f, s)
<1> DEFINE nxt == [i \in 1 .. Len(s) |-> Onward(s, i)]
           g == [i \in 1 .. Len(s) |-> [x \in Parsed |-> ReadOne(s, i, x)]]
<1>1. Len(s) \in Nat
  BY DEF Octets
<1>2. \A i \in 1 .. Len(s) : nxt[i] = Onward(s, i) /\ nxt[i] \in i + 1 .. Len(s) + 1
  BY ReadIs
<1>3. ASSUME NEW i \in 1 .. Len(s), NEW x \in Parsed PROVE g[i][x] = ReadOne(s, i, x)
  OBVIOUS
<1>4. ASSUME NEW i \in 1 .. Len(s) PROVE g[i] \in [Parsed -> Parsed]
  <2>1. \A x \in Parsed : ReadOne(s, i, x) \in Parsed
    BY ReadIs
  <2> QED BY <2>1
<1>5. Malformed \in Parsed
  BY DEF Malformed, Parsed
<1> HIDE DEF nxt, g
<1>6. PICK f : Computes(f, Parsed, Len(s), Malformed, nxt, g)
  <2>1. Forward(Len(s), nxt)
    BY <1>2 DEF Forward
  <2>2. Steps(Parsed, Len(s), g)
    BY <1>4 DEF Steps
  <2> QED BY <1>1, <1>5, <2>1, <2>2, FromTheEnd, Zenon
<1>7. ASSUME NEW i \in 1 .. Len(s) PROVE f[i] = ReadOne(s, i, f[Onward(s, i)])
  <2>1. nxt[i] \in 1 .. Len(s) + 1 /\ nxt[i] = Onward(s, i)
    BY <1>1, <1>2
  <2>2. f[nxt[i]] \in Parsed
    BY <1>6, <2>1 DEF Computes
  <2>3. f[i] = g[i][f[nxt[i]]]
    BY <1>6 DEF Computes
  <2> QED BY <1>3, <2>1, <2>2, <2>3, Zenon
<1>8. Reads(f, s)
  BY <1>6, <1>7 DEF Reads, Computes
<1> QED BY <1>8

LEMMA ParseIs ==
  ASSUME NEW s \in Octets
  PROVE  \E f : Reads(f, s) /\ Stream!DecString(s) = f[2]
<1> DEFINE Body(f, i) ==
             CASE i > Len(s) -> [end |-> 0, bytes |-> <<>>]
               [] i <= Len(s) /\ s[i] = Stream!Quote -> [end |-> i + 1, bytes |-> <<>>]
               [] i <= Len(s) /\ s[i] = Stream!Backslash ->
                    LET e == Stream!Escape(s, i) IN
                    IF e.used = 0 THEN [end |-> 0, bytes |-> <<>>]
                    ELSE [f[i + e.used] EXCEPT !.bytes = e.bytes \o @]
               [] OTHER -> [f[i + 1] EXCEPT !.bytes = <<s[i]>> \o @]
           IsIt(f) == f = [i \in 1 .. Len(s) + 1 |-> Body(f, i)]
           from == CHOOSE f : IsIt(f)
<1>1. Stream!DecString(s) = from[2]
  BY DEF Stream!DecString
<1>2. Len(s) \in Nat
  BY DEF Octets
<1>3. PICK h : Reads(h, s)
  BY HasRead
<1>4. ASSUME NEW f, NEW i \in 1 .. Len(s)
      PROVE  Body(f, i) = ReadOne(s, i, f[Onward(s, i)])
  <2>1. ~(i > Len(s)) /\ i <= Len(s)
    BY <1>2
  <2>2. Stream!Quote # Stream!Backslash
    BY DEF Stream!Quote, Stream!Backslash
  <2>3. CASE s[i] = Stream!Quote
    BY <2>1, <2>2, <2>3 DEF ReadOne
  <2>4. CASE s[i] # Stream!Quote /\ s[i] # Stream!Backslash
    BY <2>1, <2>4 DEF ReadOne, Onward
  <2>5. CASE s[i] = Stream!Backslash
    <3>1. Body(f, i) = LET e == Stream!Escape(s, i) IN
                    IF e.used = 0 THEN [end |-> 0, bytes |-> <<>>]
                    ELSE [f[i + e.used] EXCEPT !.bytes = e.bytes \o @]
      BY <2>1, <2>2, <2>5
    <3>2. ReadOne(s, i, f[Onward(s, i)]) =
            IF Stream!Escape(s, i).used = 0 THEN Malformed
            ELSE [f[Onward(s, i)] EXCEPT !.bytes = Stream!Escape(s, i).bytes \o @]
      BY <2>2, <2>5, Zenon DEF ReadOne
    <3>3. Stream!Escape(s, i).used # 0 => Onward(s, i) = i + Stream!Escape(s, i).used
      BY <2>5, Zenon DEF Onward
    <3> HIDE DEF Body
    <3> QED BY <3>1, <3>2, <3>3, Zenon DEF Malformed
  <2> QED BY <2>3, <2>4, <2>5
<1>5. \A f : Body(f, Len(s) + 1) = Malformed
  <2>1. Len(s) + 1 > Len(s)
    BY <1>2
  <2> QED BY <2>1 DEF Malformed
<1> HIDE DEF Body
<1>6. IsIt(h)
  <2>1. h = [i \in 1 .. Len(s) + 1 |-> h[i]]
    BY <1>3 DEF Reads
  <2>2. ASSUME NEW i \in 1 .. Len(s) + 1 PROVE h[i] = Body(h, i)
    <3>1. CASE i = Len(s) + 1
      BY <1>3, <1>5, <3>1 DEF Reads
    <3>2. CASE i # Len(s) + 1
      <4>1. i \in 1 .. Len(s)
        BY <1>2, <3>2
      <4> QED BY <1>3, <1>4, <4>1, Zenon DEF Reads
    <3> QED BY <3>1, <3>2
  <2> QED BY <2>1, <2>2, Zenon
<1>7. IsIt(from)
  <2> HIDE DEF IsIt
  <2> QED BY <1>6, Zenon
<1>8. from = [i \in 1 .. Len(s) + 1 |-> Body(from, i)]
  BY <1>7, Zenon
<1> HIDE DEF from, IsIt
<1>9. \A i \in 1 .. Len(s) : from[i] = ReadOne(s, i, from[Onward(s, i)])
  <2> SUFFICES ASSUME NEW i \in 1 .. Len(s) PROVE from[i] = ReadOne(s, i, from[Onward(s, i)])
    OBVIOUS
  <2>1. i \in 1 .. Len(s) + 1
    BY <1>2
  <2> QED BY <1>4, <1>8, <2>1, Zenon
<1>10. from[Len(s) + 1] = Malformed
  <2>1. Len(s) + 1 \in 1 .. Len(s) + 1
    BY <1>2
  <2> QED BY <1>5, <1>8, <2>1
<1>11. \A i \in 1 .. Len(s) + 1 : from[i] \in Parsed
  <2> DEFINE T == {i \in 1 .. Len(s) + 1 : from[i] \in Parsed}
  <2>1. Len(s) + 1 \in T
    <3>1. Len(s) + 1 \in 1 .. Len(s) + 1 /\ Malformed \in Parsed
      BY <1>2 DEF Malformed, Parsed
    <3> QED BY <1>10, <3>1
  <2>2. ASSUME NEW i \in 1 .. Len(s), \A j \in i + 1 .. Len(s) + 1 : j \in T PROVE i \in T
    <3>1. Onward(s, i) \in i + 1 .. Len(s) + 1 /\ \A x \in Parsed : ReadOne(s, i, x) \in Parsed
      BY ReadIs
    <3>2. from[Onward(s, i)] \in Parsed
      BY <2>2, <3>1
    <3>3. from[i] \in Parsed
      BY <1>9, <3>1, <3>2, Zenon
    <3> QED BY <3>3
  <2> HIDE DEF T
  <2>3. \A i \in 1 .. Len(s) + 1 : i \in T
    BY <1>2, <2>1, <2>2, Backwards
  <2> QED BY <2>3 DEF T
<1>12. Reads(from, s)
  <2>1. from = [i \in 1 .. Len(s) + 1 |-> from[i]]
    BY <1>8
  <2> QED BY <1>9, <1>10, <1>11, <2>1 DEF Reads
<1> QED BY <1>1, <1>12

---------------------------------------------------------------------------
(* A string that is escaped                                                 *)

LEMMA EscapesAre ==
  /\ \A j \in 1 .. 5 : Stream!Escapes[j][1] \in 8 .. 13 /\ Stream!Escapes[j][2] \in 98 .. 116
  /\ \A j \in 1 .. 5 : /\ Stream!Escapes[j][2] # 34 /\ Stream!Escapes[j][2] # 47
                       /\ Stream!Escapes[j][2] # 92 /\ Stream!Escapes[j][2] # 117
  /\ \A j, k \in 1 .. 5 : Stream!Escapes[j][2] = Stream!Escapes[k][2] => Stream!Escapes[j][1] = Stream!Escapes[k][1]
BY DEF Stream!Escapes

LEMMA LetterIs ==
  ASSUME NEW c \in Int
  PROVE  \/ Stream!Letter(c) = 0
         \/ \E j \in 1 .. 5 : Stream!Escapes[j][1] = c /\ Stream!Letter(c) = Stream!Escapes[j][2]
<1> DEFINE at == {i \in 1 .. 5 : Stream!Escapes[i][1] = c}
           j == CHOOSE i \in at : TRUE
<1>1. Stream!Letter(c) = IF at = {} THEN 0 ELSE Stream!Escapes[j][2]
  BY DEF Stream!Letter
<1>2. at # {} => j \in at
  OBVIOUS
<1>3. \A i \in at : i \in 1 .. 5 /\ Stream!Escapes[i][1] = c
  OBVIOUS
<1> HIDE DEF at, j
<1> QED BY <1>1, <1>2, <1>3, Zenon

LEMMA HexBack ==
  ASSUME NEW d \in 0 .. 15
  PROVE  Stream!HexValue(Stream!HexDigit(d)) = d
<1> DEFINE x == Stream!HexDigit(d)
           A == x \in 48 .. 57
           B == x \in 97 .. 102
           C == x \in 65 .. 70
<1>1. Stream!HexValue(x) = CASE A -> x - 48 [] B -> x - 87 [] C -> x - 55 [] OTHER -> -1
  BY DEF Stream!HexValue
<1>2. x = IF d < 10 THEN 48 + d ELSE 87 + d
  BY DEF Stream!HexDigit
<1> HIDE DEF x
<1>3. CASE d < 10
  <2>1. A /\ ~B /\ ~C /\ x - 48 = d
    BY <1>2, <1>3
  <2> HIDE DEF A, B, C
  <2> QED BY <1>1, <2>1 DEF x
<1>4. CASE ~(d < 10)
  <2>1. ~A /\ B /\ ~C /\ x - 87 = d
    BY <1>2, <1>4
  <2> HIDE DEF A, B, C
  <2> QED BY <1>1, <2>1 DEF x
<1> QED BY <1>3, <1>4

(* b stands in s at the place i.                                            *)
At(s, i, b) == i + Len(b) <= Len(s) + 1 /\ \A k \in 1 .. Len(b) : s[i + k - 1] = b[k]

LEMMA CodeIs ==
  ASSUME NEW c \in Octet
  PROVE  /\ \/ c \in {Stream!Quote, Stream!Backslash}
               /\ Stream!EncByte(c) = <<Stream!Backslash, c>>
            \/ Stream!Letter(c) # 0
               /\ Stream!EncByte(c) = <<Stream!Backslash, Stream!Letter(c)>>
            \/ c < 32
               /\ Stream!EncByte(c) = <<Stream!Backslash, Stream!LetterU, 48, 48,
                                        Stream!HexDigit(c \div 16), Stream!HexDigit(c % 16)>>
            \/ c # Stream!Quote /\ c # Stream!Backslash /\ Stream!EncByte(c) = <<c>>
<1> DEFINE l == Stream!Letter(c)
           x == Stream!HexDigit(c \div 16)
           y == Stream!HexDigit(c % 16)
           e == Stream!EncByte(c)
<1>1. e = CASE c \in {Stream!Quote, Stream!Backslash} -> <<Stream!Backslash, c>>
            [] l # 0 -> <<Stream!Backslash, l>>
            [] c < 32 /\ l = 0 -> <<Stream!Backslash, Stream!LetterU, 48, 48, x, y>>
            [] OTHER -> <<c>>
  BY DEF Stream!EncByte
<1> HIDE DEF e, l, x, y
<1>2. \/ c \in {Stream!Quote, Stream!Backslash} /\ e = <<Stream!Backslash, c>>
      \/ l # 0 /\ e = <<Stream!Backslash, l>>
      \/ c < 32 /\ e = <<Stream!Backslash, Stream!LetterU, 48, 48, x, y>>
      \/ c # Stream!Quote /\ c # Stream!Backslash /\ e = <<c>>
  BY <1>1
<1> QED BY <1>2 DEF e, l, x, y

LEMMA CodeOctets ==
  ASSUME NEW c \in Octet
  PROVE  Stream!EncByte(c) \in Octets /\ Len(Stream!EncByte(c)) \in Nat \ {0}
<1>1. \A a, b \in Octet : <<a>> \in Octets /\ <<a, b>> \in Octets
  BY DEF Octets
<1>2. \A a, b, d \in Octet : <<Stream!Backslash, a, 48, 48, b, d>> \in Octets
  BY DEF Octet, Octets, Stream!Backslash
<1>3. Stream!Backslash \in Octet /\ Stream!LetterU \in Octet
  BY DEF Octet, Stream!Backslash, Stream!LetterU
<1>4. Stream!Letter(c) # 0 => Stream!Letter(c) \in Octet
  <2>1. c \in Int
    BY DEF Octet
  <2>2. \A j \in 1 .. 5 : Stream!Escapes[j][2] \in Octet
    BY EscapesAre DEF Octet
  <2> QED BY <2>1, <2>2, LetterIs
<1>5. c < 32 => Stream!HexDigit(c \div 16) \in Octet /\ Stream!HexDigit(c % 16) \in Octet
  BY DEF Octet, Stream!HexDigit
<1>6. \A a, b, d, e, f, g : Len(<<a>>) = 1 /\ Len(<<a, b>>) = 2 /\ Len(<<a, b, d, e, f, g>>) = 6
  OBVIOUS
<1>7. 1 \in Nat \ {0} /\ 2 \in Nat \ {0} /\ 6 \in Nat \ {0}
  OBVIOUS
<1>8. CASE Stream!EncByte(c) = <<Stream!Backslash, c>>
  BY <1>1, <1>3, <1>6, <1>7, <1>8, Zenon
<1>9. CASE Stream!Letter(c) # 0 /\ Stream!EncByte(c) = <<Stream!Backslash, Stream!Letter(c)>>
  BY <1>1, <1>3, <1>4, <1>6, <1>7, <1>9, Zenon
<1>10. CASE c < 32 /\ Stream!EncByte(c) = <<Stream!Backslash, Stream!LetterU, 48, 48,
                                           Stream!HexDigit(c \div 16), Stream!HexDigit(c % 16)>>
  BY <1>2, <1>3, <1>5, <1>6, <1>7, <1>10, ZenonT(40)
<1>11. CASE Stream!EncByte(c) = <<c>>
  BY <1>1, <1>6, <1>7, <1>11, Zenon
<1> QED BY <1>8, <1>9, <1>10, <1>11, CodeIs, Zenon

(* What is escaped is read as the byte it was made of.                      *)
LEMMA EscapeBack ==
  ASSUME NEW s \in Octets, NEW i \in 1 .. Len(s), NEW c \in Octet, At(s, i, Stream!EncByte(c)),
         Stream!EncByte(c) # <<c>>
  PROVE  /\ s[i] = Stream!Backslash
         /\ Stream!Escape(s, i) = Stream!Escaped(Len(Stream!EncByte(c)), <<c>>)
<1>1. Len(s) \in Nat /\ c \in Int
  BY OctetsAre DEF Octet
<1> DEFINE b == s[i + 1]
           x == Stream!Escape(s, i)
           IsPlain == b \in {Stream!Plain[k] : k \in 1 .. 3}
           IsLetter == \E k \in 1 .. 5 : Stream!Escapes[k][2] = b
           a == Stream!Escapes[CHOOSE k \in 1 .. 5 : Stream!Escapes[k][2] = b][1]
<1>2. x = CASE i = Len(s) -> Stream!Escaped(0, <<>>)
            [] i < Len(s) /\ IsPlain -> Stream!Escaped(2, <<b>>)
            [] i < Len(s) /\ IsLetter -> Stream!Escaped(2, <<a>>)
            [] i < Len(s) /\ b = Stream!LetterU -> Stream!UnicodeEscape(s, i)
            [] OTHER -> Stream!Escaped(0, <<>>)
  BY Zenon DEF Stream!Escape
<1>3. IsPlain <=> b = 34 \/ b = 92 \/ b = 47
  BY DEF Stream!Plain, Stream!Quote, Stream!Backslash
<1>4. ~(IsPlain /\ IsLetter) /\ (b = 117 => ~IsPlain /\ ~IsLetter) /\ Stream!LetterU = 117
  <2> HIDE DEF IsPlain
  <2>1. IsLetter => b # 34 /\ b # 47 /\ b # 92 /\ b # 117
    <3>1. SUFFICES ASSUME NEW k \in 1 .. 5, Stream!Escapes[k][2] = b
                   PROVE  b # 34 /\ b # 47 /\ b # 92 /\ b # 117
      OBVIOUS
    <3>2. /\ Stream!Escapes[k][2] # 34 /\ Stream!Escapes[k][2] # 47
          /\ Stream!Escapes[k][2] # 92 /\ Stream!Escapes[k][2] # 117
      BY EscapesAre
    <3> HIDE DEF b
    <3> QED BY <3>1, <3>2
  <2> HIDE DEF IsLetter, b
  <2> QED BY <1>3, <2>1 DEF Stream!LetterU
<1>5. CASE c \in {Stream!Quote, Stream!Backslash} /\ Stream!EncByte(c) = <<Stream!Backslash, c>>
  <2>1. s[i] = Stream!Backslash /\ b = c /\ i < Len(s) /\ Len(Stream!EncByte(c)) = 2
    BY <1>1, <1>5 DEF At
  <2>2. IsPlain
    <3> HIDE DEF b, IsPlain
    <3> QED BY <1>3, <1>5, <2>1 DEF Stream!Quote, Stream!Backslash
  <2>4. i # Len(s) /\ ~IsLetter /\ b # Stream!LetterU
    <3> HIDE DEF b, IsPlain, IsLetter
    <3> QED BY <1>1, <1>4, <2>1, <2>2
  <2> HIDE DEF x, b, IsPlain, IsLetter, a
  <2>3. x = Stream!Escaped(2, <<c>>)
    BY <1>2, <2>1, <2>2, <2>4
  <2> QED BY <2>1, <2>3 DEF x
<1>6. CASE Stream!Letter(c) # 0 /\ Stream!EncByte(c) = <<Stream!Backslash, Stream!Letter(c)>>
  <2>1. s[i] = Stream!Backslash /\ b = Stream!Letter(c) /\ i < Len(s) /\ Len(Stream!EncByte(c)) = 2
    BY <1>1, <1>6 DEF At
  <2>2. PICK j \in 1 .. 5 : Stream!Escapes[j][1] = c /\ Stream!Letter(c) = Stream!Escapes[j][2]
    BY <1>1, <1>6, LetterIs
  <2>3. IsLetter
    BY <2>1, <2>2
  <2>4. a = c
    <3> DEFINE k == CHOOSE k \in 1 .. 5 : Stream!Escapes[k][2] = b
    <3>1. k \in 1 .. 5 /\ Stream!Escapes[k][2] = b
      BY <2>3
    <3> HIDE DEF k
    <3>2. Stream!Escapes[k][1] = Stream!Escapes[j][1]
      BY <2>1, <2>2, <3>1, EscapesAre, ZenonT(40)
    <3> QED BY <2>2, <3>2 DEF k
  <2>5. i # Len(s) /\ ~IsPlain /\ b # Stream!LetterU
    <3> HIDE DEF b, IsPlain, IsLetter
    <3> QED BY <1>1, <1>4, <2>1, <2>3
  <2> HIDE DEF x, b, IsPlain, IsLetter, a
  <2>6. x = Stream!Escaped(2, <<c>>)
    BY <1>2, <2>1, <2>3, <2>4, <2>5
  <2> QED BY <2>1, <2>6 DEF x
<1>7. CASE c < 32 /\ Stream!EncByte(c) = <<Stream!Backslash, Stream!LetterU, 48, 48,
                                           Stream!HexDigit(c \div 16), Stream!HexDigit(c % 16)>>
  <2> DEFINE u == Stream!HexDigit(c \div 16)
             v == Stream!HexDigit(c % 16)
  <2>1. /\ s[i] = Stream!Backslash /\ b = 117 /\ s[i + 2] = 48 /\ s[i + 3] = 48
        /\ s[i + 4] = u /\ s[i + 5] = v
        /\ i + 5 <= Len(s) /\ Len(Stream!EncByte(c)) = 6
    <3> HIDE DEF u, v
    <3>1. At(s, i, <<92, 117, 48, 48, u, v>>) /\ Len(<<92, 117, 48, 48, u, v>>) = 6
          /\ Stream!EncByte(c) = <<92, 117, 48, 48, u, v>>
      BY <1>7 DEF u, v, Stream!Backslash, Stream!LetterU
    <3> DEFINE t == <<92, 117, 48, 48, u, v>>
    <3>2. t[1] = 92 /\ t[2] = 117 /\ t[3] = 48 /\ t[4] = 48 /\ t[5] = u /\ t[6] = v
      OBVIOUS
    <3> HIDE DEF t
    <3>3. i + 6 <= Len(s) + 1 /\ \A k \in 1 .. 6 : s[i + k - 1] = t[k]
      BY <3>1 DEF At, t
    <3>4. /\ i + 1 - 1 = i /\ i + 2 - 1 = i + 1 /\ i + 3 - 1 = i + 2
          /\ i + 4 - 1 = i + 3 /\ i + 5 - 1 = i + 4 /\ i + 6 - 1 = i + 5
          /\ 1 \in 1 .. 6 /\ 2 \in 1 .. 6 /\ 3 \in 1 .. 6 /\ 4 \in 1 .. 6 /\ 5 \in 1 .. 6 /\ 6 \in 1 .. 6
      OBVIOUS
    <3>5. s[i] = t[1] /\ s[i + 1] = t[2] /\ s[i + 2] = t[3] /\ s[i + 3] = t[4] /\ s[i + 4] = t[5] /\ s[i + 5] = t[6]
      BY <3>3, <3>4
    <3>6. i + 5 <= Len(s)
      BY <1>1, <3>3
    <3> QED BY <3>1, <3>2, <3>5, <3>6, ZenonT(40) DEF Stream!Backslash
  <2>2. c >= 0 /\ c < 32
    BY <1>7 DEF Octet
  <2>3. Stream!HexValue(48) = 0 /\ Stream!HexValue(u) = c \div 16 /\ Stream!HexValue(v) = c % 16
        /\ c \div 16 # -1 /\ c % 16 # -1
    <3>1. \A d \in 0 .. 15 : Stream!HexValue(Stream!HexDigit(d)) = d /\ d # -1
      BY HexBack
    <3>2. Stream!HexValue(48) = 0
      BY DEF Stream!HexValue
    <3>3. c \div 16 \in 0 .. 15 /\ c % 16 \in 0 .. 15
      BY <1>1, <2>2
    <3> QED BY <3>1, <3>2, <3>3, Zenon
  <2>4. Stream!Hex4(s, i + 2) = c
    <3>1. \A k \in i + 2 .. i + 2 + 3 : k = i + 2 \/ k = i + 3 \/ k = i + 4 \/ k = i + 5
      OBVIOUS
    <3>2. (i + 2) + 1 = i + 3 /\ (i + 2) + 2 = i + 4 /\ (i + 2) + 3 = i + 5
      OBVIOUS
    <3> HIDE DEF u, v
    <3>3. \A k \in i + 2 .. i + 2 + 3 : Stream!HexValue(s[k]) # -1
      BY <2>1, <2>3, <3>1, SMTT(30)
    <3>4. Stream!Hex4(s, i + 2) = ((Stream!HexValue(s[i+2]) * 16 + Stream!HexValue(s[i+3])) * 16
                                  + Stream!HexValue(s[i+4])) * 16 + Stream!HexValue(s[i+5])
      BY <1>1, <2>1, <3>2, <3>3 DEF Stream!Hex4
    <3>5. Stream!Hex4(s, i + 2) = ((0 * 16 + 0) * 16 + (c \div 16)) * 16 + (c % 16)
      BY <2>1, <2>3, <3>4, Zenon
    <3>6. ((0 * 16 + 0) * 16 + (c \div 16)) * 16 + (c % 16) = c
      BY <1>1, <2>2
    <3> QED BY <3>5, <3>6, Zenon
  <2>5. Stream!Bytes(c) = <<c>>
    <3> DEFINE lo == 2048
               hi == 65535
               Two == c \in 128 .. 2047
               Three == c \in lo .. hi
               p == <<192 + (c \div 64), Stream!Cont(c, 1)>>
               q == <<224 + (c \div 4096), Stream!Cont(c, 64), Stream!Cont(c, 1)>>
               r == <<(240 + (c \div 262144)) % 256, Stream!Cont(c, 4096), Stream!Cont(c, 64), Stream!Cont(c, 1)>>
    <3>1. Stream!Bytes(c) = CASE c < 128 -> <<c>> [] Two -> p [] Three -> q [] OTHER -> r
      BY DEF Stream!Bytes
    <3>3. lo \in Int /\ hi \in Int /\ lo >= 128
      OBVIOUS
    <3> HIDE DEF lo, hi
    <3>2. ~Two /\ ~Three /\ c < 128
      BY <1>1, <2>2, <3>3
    <3> HIDE DEF Two, Three, p, q, r
    <3> QED BY <3>1, <3>2
  <2>6. Stream!UnicodeEscape(s, i) = Stream!Escaped(6, <<c>>)
    <3> DEFINE n == Stream!Hex4(s, i + 2)
               low == IF i + 7 <= Len(s) /\ s[i+6] = Stream!Backslash /\ s[i+7] = Stream!LetterU THEN Stream!Hex4(s, i + 8) ELSE -1
               High == n \in 55296 .. 56319
               Paired == low \in 56320 .. 57343
               Lone == n \in 56320 .. 57343
               y == Stream!Escaped(12, Stream!Bytes(65536 + (n - 55296) * 1024 + low - 56320))
               z == Stream!Escaped(6, Stream!Bytes(Stream!Replacement))
               w == Stream!UnicodeEscape(s, i)
    <3>3. n = c /\ ~High /\ ~Lone
      <4>1. n = c
        BY <2>4
      <4> HIDE DEF n
      <4>2. ~(c \in 55296 .. 56319) /\ ~(c \in 56320 .. 57343)
        BY <1>1, <2>2
      <4> QED BY <4>1, <4>2
    <3>4. w = CASE n = -1 -> Stream!Escaped(0, <<>>)
                [] High /\ Paired -> y
                [] (High /\ ~Paired) \/ Lone -> z
                [] OTHER -> Stream!Escaped(6, Stream!Bytes(n))
      BY DEF Stream!UnicodeEscape
    <3>5. c # -1
      BY <2>2
    <3> HIDE DEF n, low, High, Paired, Lone, y, z, w
    <3>6. w = Stream!Escaped(6, Stream!Bytes(n))
      BY <3>3, <3>4, <3>5
    <3> QED BY <2>5, <3>3, <3>6, Zenon DEF w
  <2>7. ~IsPlain /\ ~IsLetter /\ i < Len(s) /\ i # Len(s) /\ b = Stream!LetterU
    BY <1>1, <1>3, <1>4, <2>1 DEF Stream!LetterU
  <2> HIDE DEF x, b, IsPlain, IsLetter, a
  <2>8. x = Stream!Escaped(6, <<c>>)
    BY <1>2, <2>6, <2>7
  <2> QED BY <2>1, <2>8 DEF x
<1> QED BY <1>5, <1>6, <1>7, CodeIs

LEMMA ReadBack ==
  ASSUME NEW s \in Octets, NEW i \in 1 .. Len(s), NEW c \in Octet, At(s, i, Stream!EncByte(c))
  PROVE  /\ Onward(s, i) = i + Len(Stream!EncByte(c))
         /\ \A x : ReadOne(s, i, x) = [x EXCEPT !.bytes = <<c>> \o @]
<1>1. CASE Stream!EncByte(c) = <<c>>
  <2>1. c # Stream!Quote /\ c # Stream!Backslash
    <3>1. <<Stream!Backslash, c>> # <<c>>
      OBVIOUS
    <3>2. <<Stream!Backslash, Stream!Letter(c)>> # <<c>>
      OBVIOUS
    <3>3. <<Stream!Backslash, Stream!LetterU, 48, 48,
            Stream!HexDigit(c \div 16), Stream!HexDigit(c % 16)>> # <<c>>
      OBVIOUS
    <3> QED BY <1>1, <3>1, <3>2, <3>3, CodeIs
  <2>2. s[i] = c /\ Len(Stream!EncByte(c)) = 1
    BY <1>1, OctetsAre DEF At
  <2> QED BY <2>1, <2>2 DEF Onward, ReadOne
<1>2. CASE Stream!EncByte(c) # <<c>>
  <2> DEFINE n == Len(Stream!EncByte(c))
  <2>1. s[i] = Stream!Backslash /\ Stream!Escape(s, i) = Stream!Escaped(n, <<c>>)
    BY <1>2, EscapeBack
  <2>2. n \in Nat \ {0}
    BY CodeOctets
  <2> HIDE DEF n
  <2>3. Stream!Escape(s, i).used = n /\ Stream!Escape(s, i).bytes = <<c>> /\ n # 0
    BY <2>1, <2>2 DEF Stream!Escaped
  <2>4. Stream!Quote # Stream!Backslash
    BY DEF Stream!Quote, Stream!Backslash
  <2>5. Onward(s, i) = i + n
    BY <2>1, <2>3, Zenon DEF Onward
  <2>6. \A x : ReadOne(s, i, x) = [x EXCEPT !.bytes = <<c>> \o @]
    BY <2>1, <2>3, <2>4, Zenon DEF ReadOne
  <2> QED BY <2>5, <2>6 DEF n
<1> QED BY <1>1, <1>2

(* What holds at zero, and at a number's successor when at the number, holds *)
(* at all of them.                                                           *)
LEMMA Upwards ==
  ASSUME NEW n \in Nat, NEW S, 0 \in S, \A k \in 0 .. n - 1 : k \in S => k + 1 \in S
  PROVE  \A k \in 0 .. n : k \in S
<1> DEFINE T == {k \in Nat : k <= n /\ k \notin S}
<1>1. SUFFICES ASSUME T # {} PROVE FALSE
  OBVIOUS
<1>2. PICK k \in T : \A j \in T : k <= j
  <2>1. T \in SUBSET Nat
    OBVIOUS
  <2> HIDE DEF T
  <2> QED BY <1>1, <2>1, Least
<1>3. k # 0 /\ k - 1 \in 0 .. n - 1 /\ k - 1 \notin T
  BY <1>2
<1> QED BY <1>2, <1>3

(* h holds what the first texts of q put together are.                      *)
Gathers(h, n, q) ==
  /\ h = [k \in 0 .. n |-> h[k]] /\ h[0] = <<>>
  /\ \A k \in 1 .. n : h[k] = h[k - 1] \o q[k]

LEMMA HasGather ==
  ASSUME NEW n \in Nat, NEW q
  PROVE  \E h : Gathers(h, n, q)
<1> DEFINE S == {k \in 0 .. n : \E h : Gathers(h, k, q)}
<1>1. 0 \in S
  <2> DEFINE h == [k \in 0 .. 0 |-> <<>>]
  <2>1. h = [k \in 0 .. 0 |-> h[k]] /\ h[0] = <<>> /\ \A k \in 1 .. 0 : FALSE
    OBVIOUS
  <2> HIDE DEF h
  <2>2. Gathers(h, 0, q)
    BY <2>1 DEF Gathers
  <2> QED BY <2>2
<1>2. ASSUME NEW k \in 0 .. n - 1, k \in S PROVE k + 1 \in S
  <2>1. PICK f : Gathers(f, k, q)
    BY <1>2
  <2> DEFINE v == f[k] \o q[k + 1]
             h == [i \in 0 .. k + 1 |-> IF i = k + 1 THEN v ELSE f[i]]
  <2>2. h = [i \in 0 .. k + 1 |-> h[i]] /\ k + 1 \in 0 .. n
    OBVIOUS
  <2>3. h[k + 1] = f[k] \o q[k + 1]
    <3> HIDE DEF v
    <3>1. h[k + 1] = v
      OBVIOUS
    <3> QED BY <3>1 DEF v
  <2>4. \A i \in 0 .. k : h[i] = f[i]
    <3> HIDE DEF v
    <3> QED OBVIOUS
  <2> HIDE DEF h, v
  <2>5. h[0] = <<>>
    BY <2>1, <2>4 DEF Gathers
  <2>6. ASSUME NEW i \in 1 .. k + 1 PROVE h[i] = h[i - 1] \o q[i]
    <3>1. CASE i = k + 1
      <4>1. i - 1 = k /\ k \in 0 .. k
        BY <3>1
      <4>2. h[i - 1] = f[k]
        BY <2>4, <4>1
      <4> QED BY <2>3, <3>1, <4>2, Zenon
    <3>2. CASE i # k + 1
      <4>1. i \in 1 .. k /\ i - 1 \in 0 .. k /\ i \in 0 .. k
        BY <3>2
      <4>2. h[i] = f[i] /\ h[i - 1] = f[i - 1]
        BY <2>4, <4>1
      <4>3. f[i] = f[i - 1] \o q[i]
        BY <2>1, <4>1, Zenon DEF Gathers
      <4> QED BY <4>2, <4>3, Zenon
    <3> QED BY <3>1, <3>2
  <2>7. Gathers(h, k + 1, q)
    BY <2>2, <2>5, <2>6, Zenon DEF Gathers
  <2> QED BY <2>2, <2>7
<1> HIDE DEF S
<1>3. \A k \in 0 .. n : k \in S
  BY <1>1, <1>2, Upwards
<1> QED BY <1>3 DEF S

LEMMA GatherIs ==
  ASSUME NEW q \in Seq(Octets)
  PROVE  \E h : Gathers(h, Len(q), q) /\ Stream!FlattenSeq(q) = h[Len(q)]
<1> DEFINE n == Len(q)
<1>1. n \in Nat /\ q = [k \in 1 .. n |-> q[k]] /\ \A k \in 1 .. n : q[k] \in Octets
  OBVIOUS
<1> HIDE DEF n
<1>2. PICK h : Gathers(h, n, q)
  BY <1>1, HasGather
<1>3. CASE n = 0
  <2>1. q = <<>> /\ h[n] = <<>>
    BY <1>1, <1>2, <1>3 DEF Gathers, n
  <2>2. Stream!FlattenSeq(q) = q
    BY <1>3 DEF Stream!FlattenSeq, n
  <2> QED BY <1>2, <2>1, <2>2 DEF n
<1>4. CASE n # 0
  <2> DEFINE IsIt(f) == f = [i \in 1 .. n |-> IF i = 1 THEN q[i] ELSE f[i - 1] \o q[i]]
             flatten == CHOOSE f : IsIt(f)
             g == [i \in 1 .. n |-> h[i]]
  <2>1. Stream!FlattenSeq(q) = flatten[n]
    BY <1>4 DEF Stream!FlattenSeq, n
  <2>2. h[1] = q[1]
    <3>1. 1 \in 1 .. n /\ 1 - 1 = 0
      BY <1>1, <1>4
    <3>2. h[1] = h[0] \o q[1] /\ h[0] = <<>> /\ q[1] \in Octets
      BY <1>1, <1>2, <3>1 DEF Gathers
    <3> QED BY <3>2, ConcatEmptySeq DEF Octets
  <2>3. \A i \in 1 .. n : g[i] = h[i]
    OBVIOUS
  <2>4. g = [i \in 1 .. n |-> g[i]]
    OBVIOUS
  <2> HIDE DEF g
  <2>5. ASSUME NEW i \in 1 .. n PROVE g[i] = IF i = 1 THEN q[i] ELSE g[i - 1] \o q[i]
    <3>1. CASE i = 1
      BY <2>2, <2>3, <3>1
    <3>2. CASE i # 1
      <4>1. i - 1 \in 1 .. n
        BY <1>1, <3>2
      <4>2. g[i - 1] = h[i - 1] /\ g[i] = h[i] /\ h[i] = h[i - 1] \o q[i]
        BY <1>2, <2>3, <4>1, Zenon DEF Gathers
      <4> QED BY <3>2, <4>2, Zenon
    <3> QED BY <3>1, <3>2
  <2>6. IsIt(g)
    BY <2>4, <2>5, Zenon
  <2>7. IsIt(flatten)
    <3> HIDE DEF IsIt
    <3> QED BY <2>6, Zenon
  <2>8. flatten = [i \in 1 .. n |-> IF i = 1 THEN q[i] ELSE flatten[i - 1] \o q[i]]
    BY <2>7, Zenon
  <2> HIDE DEF flatten, IsIt
  <2> DEFINE T == {k \in 0 .. n : k = 0 \/ flatten[k] = h[k]}
  <2>9. 0 \in T
    BY <1>1
  <2>10. ASSUME NEW k \in 0 .. n - 1, k \in T PROVE k + 1 \in T
    <3>1. k + 1 \in 1 .. n /\ (k + 1) - 1 = k /\ k + 1 \in 0 .. n
      BY <1>1
    <3>2. flatten[k + 1] = IF k + 1 = 1 THEN q[k + 1] ELSE flatten[k] \o q[k + 1]
      BY <2>8, <3>1
    <3>3. h[k + 1] = h[k] \o q[k + 1]
      BY <1>2, <3>1, Zenon DEF Gathers
    <3>4. CASE k = 0
      <4>1. flatten[k + 1] = h[k + 1]
        BY <2>2, <3>2, <3>4
      <4> QED BY <3>1, <4>1
    <3>5. CASE k # 0
      <4>1. flatten[k] = h[k] /\ k + 1 # 1
        BY <2>10, <3>5
      <4>2. flatten[k + 1] = h[k + 1]
        BY <3>2, <3>3, <4>1, Zenon
      <4> QED BY <3>1, <4>2
    <3> QED BY <3>4, <3>5
  <2> HIDE DEF T
  <2>11. \A k \in 0 .. n : k \in T
    BY <1>1, <2>9, <2>10, Upwards
  <2>12. flatten[n] = h[n]
    BY <1>1, <1>4, <2>11 DEF T
  <2> QED BY <1>2, <2>1, <2>12 DEF n
<1> QED BY <1>3, <1>4

(* Two texts put together, place by place.                                  *)
Joins(a, b, c) ==
  /\ c \in Octets /\ Len(a) \in Nat /\ Len(b) \in Nat /\ Len(c) \in Nat
  /\ Len(c) = Len(a) + Len(b)
  /\ \A j \in 1 .. Len(a) : c[j] = a[j]
  /\ \A j \in 1 .. Len(b) : c[Len(a) + j] = b[j]
LEMMA Joined == \A a, b \in Octets : Joins(a, b, a \o b)
<1> SUFFICES ASSUME NEW a \in Octets, NEW b \in Octets PROVE Joins(a, b, a \o b)
  OBVIOUS
<1>1. Len(a) \in Nat /\ Len(b) \in Nat
  BY DEF Octets
<1>2. Len(a) + Len(b) \in Nat
  BY <1>1
<1> QED BY <1>1, <1>2, TogetherIs, Zenon DEF Joins

Spots(a, b, c, m) ==
  /\ a <= m
  /\ \A j \in 1 .. a : j \in 1 .. c /\ j \in 1 .. m
  /\ \A j \in 1 .. b : a + j \in 1 .. c /\ a + j \in 1 .. m /\ (2 + a) + j - 1 = 1 + (a + j)
  /\ b # 0 => 2 + a \in 1 .. m + 2 /\ (2 + a) + b = 2 + c /\ (2 + a) + b <= (m + 2) + 1
LEMMA SpotsAre ==
  \A a, b, c, m \in Nat : c = a + b /\ c <= m => Spots(a, b, c, m)
BY DEF Spots

AllOctets(q, n) == \A k \in 1 .. n : q[k] \in Octets
Placed(h, n, q) ==
  /\ \A k \in 0 .. n : h[k] \in Octets
  /\ \A k \in 1 .. n : /\ Len(h[k]) = Len(h[k - 1]) + Len(q[k]) /\ Len(h[k]) <= Len(h[n])
                       /\ \A j \in 1 .. Len(q[k]) : h[n][Len(h[k - 1]) + j] = q[k][j]

(* Where each byte's code stands in what is put together.                   *)
LEMMA GatherAt ==
  ASSUME NEW n \in Nat, NEW q, NEW h, Gathers(h, n, q), AllOctets(q, n)
  PROVE  Placed(h, n, q)
<1> DEFINE S == {k \in 0 .. n : h[k] \in Octets}
<1>1. \A a, b \in Octets : a \o b \in Octets
  BY ConcatProperties DEF Octets
<1>2. \A k \in 1 .. n : h[k] = h[k - 1] \o q[k] /\ k - 1 \in 0 .. n /\ k \in 0 .. n /\ q[k] \in Octets
  <2>1. \A k \in 1 .. n : h[k] = h[k - 1] \o q[k]
    BY Zenon DEF Gathers
  <2>2. \A k \in 1 .. n : k - 1 \in 0 .. n /\ k \in 0 .. n
    OBVIOUS
  <2> QED BY <2>1, <2>2, Zenon DEF AllOctets
<1>9. n \in 0 .. n
  OBVIOUS
<1>3. \A k \in 0 .. n : h[k] \in Octets
  <2>1. 0 \in S
    <3>1. h[0] = <<>>
      BY Zenon DEF Gathers
    <3>2. <<>> \in Octets
      BY DEF Octets
    <3> QED BY <3>1, <3>2
  <2>2. ASSUME NEW k \in 0 .. n - 1, k \in S PROVE k + 1 \in S
    <3>1. k + 1 \in 1 .. n /\ (k + 1) - 1 = k /\ k + 1 \in 0 .. n
      OBVIOUS
    <3>2. h[k + 1] = h[k] \o q[k + 1]
      BY <1>2, <3>1
    <3>3. h[k + 1] \in Octets
      <4>1. h[k] \in Octets
        BY <2>2
      <4>2. q[k + 1] \in Octets
        BY <1>2, <3>1
      <4> QED BY <1>1, <3>2, <4>1, <4>2, Zenon
    <3> QED BY <3>1, <3>3
  <2> HIDE DEF S
  <2>3. \A k \in 0 .. n : k \in S
    BY <2>1, <2>2, Upwards
  <2> QED BY <2>3 DEF S
<1> DEFINE Prefix(a, b) == Len(a) <= Len(b) /\ \A j \in 1 .. Len(a) : b[j] = a[j]
           T == {i \in 1 .. n + 1 : Prefix(h[i - 1], h[n])}
<1>4. \A i \in 1 .. n + 1 : i \in T
  <2>1. n + 1 \in T
    <3>1. (n + 1) - 1 = n /\ n + 1 \in 1 .. n + 1 /\ Len(h[n]) \in Nat
      BY <1>3, <1>9 DEF Octets
    <3>2. Prefix(h[n], h[n])
      BY <3>1
    <3> QED BY <3>1, <3>2
  <2>2. ASSUME NEW i \in 1 .. n, i + 1 \in T PROVE i \in T
    <3>1. h[i - 1] \in Octets /\ q[i] \in Octets /\ h[i] = h[i - 1] \o q[i] /\ h[i] \in Octets /\ h[n] \in Octets
      BY <1>2, <1>3, <1>9, Zenon
    <3>2. Prefix(h[i], h[n])
      <4>1. (i + 1) - 1 = i
        OBVIOUS
      <4> QED BY <2>2, <4>1
    <3>3. /\ Len(h[i]) = Len(h[i - 1]) + Len(q[i]) /\ Len(h[i - 1]) \in Nat /\ Len(q[i]) \in Nat
          /\ Len(h[i]) \in Nat
          /\ \A j \in 1 .. Len(h[i - 1]) : h[i][j] = h[i - 1][j]
      <4>1. Joins(h[i - 1], q[i], h[i])
        BY <3>1, Joined, Zenon
      <4> QED BY <4>1, Zenon DEF Joins
    <3>4. Len(h[n]) \in Nat
      BY <3>1 DEF Octets
    <3>6. Len(h[i - 1]) <= Len(h[n]) /\ \A j \in 1 .. Len(h[i - 1]) : j \in 1 .. Len(h[i])
      <4>1. Len(h[i]) <= Len(h[n])
        BY <3>2
      <4>2. Spots(Len(h[i - 1]), Len(q[i]), Len(h[i]), Len(h[n]))
        BY <3>3, <3>4, <4>1, SpotsAre, Zenon
      <4> QED BY <4>2, Zenon DEF Spots
    <3>5. Prefix(h[i - 1], h[n])
      BY <3>2, <3>3, <3>6, Zenon
    <3> QED BY <3>5
  <2>3. \A i \in 1 .. n : (\A j \in i + 1 .. n + 1 : j \in T) => i \in T
    <3> SUFFICES ASSUME NEW i \in 1 .. n, \A j \in i + 1 .. n + 1 : j \in T PROVE i \in T
      OBVIOUS
    <3>1. i + 1 \in i + 1 .. n + 1
      OBVIOUS
    <3> HIDE DEF T
    <3> QED BY <2>2, <3>1
  <2> HIDE DEF T
  <2> QED BY <2>1, <2>3, Backwards
<1>5. \A k \in 0 .. n : Prefix(h[k], h[n])
  <2> SUFFICES ASSUME NEW k \in 0 .. n PROVE Prefix(h[k], h[n])
    OBVIOUS
  <2>1. k + 1 \in 1 .. n + 1 /\ (k + 1) - 1 = k
    OBVIOUS
  <2>2. k + 1 \in T
    BY <1>4, <2>1
  <2> QED BY <2>1, <2>2
<1>6. ASSUME NEW k \in 1 .. n
      PROVE  /\ Len(h[k]) = Len(h[k - 1]) + Len(q[k]) /\ Len(h[k]) <= Len(h[n])
             /\ \A j \in 1 .. Len(q[k]) : h[n][Len(h[k - 1]) + j] = q[k][j]
  <2>1. h[k - 1] \in Octets /\ q[k] \in Octets /\ h[k] = h[k - 1] \o q[k]
    BY <1>2, <1>3
  <2>2. /\ Len(h[k]) = Len(h[k - 1]) + Len(q[k]) /\ Len(h[k - 1]) \in Nat /\ Len(q[k]) \in Nat
        /\ Len(h[k]) \in Nat
        /\ \A j \in 1 .. Len(q[k]) : h[k][Len(h[k - 1]) + j] = q[k][j]
    <3>1. Joins(h[k - 1], q[k], h[k])
      BY <2>1, Joined, Zenon
    <3> QED BY <3>1, Zenon DEF Joins
  <2>3. Len(h[k]) <= Len(h[n]) /\ \A j \in 1 .. Len(h[k]) : h[n][j] = h[k][j]
    BY <1>2, <1>5
  <2>4. ASSUME NEW j \in 1 .. Len(q[k]) PROVE h[n][Len(h[k - 1]) + j] = q[k][j]
    <3>0. Len(h[k]) <= Len(h[k])
      BY <2>2
    <3>1. Len(h[k - 1]) + j \in 1 .. Len(h[k])
      <4>1. Spots(Len(h[k - 1]), Len(q[k]), Len(h[k]), Len(h[k]))
        BY <2>2, <3>0, SpotsAre, Zenon
      <4> QED BY <4>1, Zenon DEF Spots
    <3> QED BY <2>2, <2>3, <3>1, Zenon
  <2> QED BY <2>2, <2>3, <2>4
<1> QED BY <1>3, <1>6, Zenon DEF Placed

(* What is escaped into a string is parsed back.                            *)
LEMMA Returned ==
  ASSUME NEW w \in Octets
  PROVE  LET e == Stream!EncString(w) IN Stream!DecString(e) = [end |-> Len(e) + 1, bytes |-> w]
<1> DEFINE n == Len(w)
           q == [k \in DOMAIN w |-> Stream!EncByte(w[k])]
           e == Stream!EncString(w)
           quoted == <<Stream!Quote>>
<1>1. n \in Nat /\ DOMAIN w = 1 .. n /\ \A k \in 1 .. n : w[k] \in Octet
  BY DEF Octets
<1>2. \A k \in 1 .. n : q[k] = Stream!EncByte(w[k]) /\ q[k] \in Octets
  BY <1>1, CodeOctets
<1>3. q \in Seq(Octets) /\ Len(q) = n
  <2>1. q = [k \in 1 .. n |-> q[k]]
    BY <1>1
  <2> HIDE DEF q, n
  <2> QED BY <1>1, <1>2, <2>1
<1>4. e = quoted \o Stream!FlattenSeq(q) \o quoted
  BY DEF Stream!EncString
<1> HIDE DEF n, q, e
<1>5. PICK h : Gathers(h, n, q) /\ Stream!FlattenSeq(q) = h[n]
  BY <1>3, GatherIs
<1>6. /\ \A k \in 0 .. n : h[k] \in Octets
      /\ \A k \in 1 .. n : /\ Len(h[k]) = Len(h[k - 1]) + Len(q[k]) /\ Len(h[k]) <= Len(h[n])
                           /\ \A j \in 1 .. Len(q[k]) : h[n][Len(h[k - 1]) + j] = q[k][j]
  <2>1. AllOctets(q, n)
    BY <1>2 DEF AllOctets
  <2>2. Placed(h, n, q)
    BY <1>1, <1>5, <2>1, GatherAt, Zenon
  <2> QED BY <2>2, Zenon DEF Placed
<1>7. h[n] \in Octets /\ Len(h[n]) \in Nat /\ \A k \in 0 .. n : Len(h[k]) \in Nat
  BY <1>1, <1>6 DEF Octets
<1>8. /\ e \in Octets /\ Len(e) = Len(h[n]) + 2 /\ e[Len(e)] = Stream!Quote
      /\ \A j \in 1 .. Len(h[n]) : e[1 + j] = h[n][j]
  <2>1. quoted \in Octets /\ Len(quoted) = 1 /\ quoted[1] = Stream!Quote /\ 1 \in 1 .. 1
    BY DEF Octet, Octets, Stream!Quote
  <2> HIDE DEF quoted
  <2> DEFINE a == quoted \o h[n]
  <2>2. /\ a \in Octets /\ Len(a) = 1 + Len(h[n]) /\ Len(a) \in Nat
        /\ \A j \in 1 .. Len(h[n]) : a[1 + j] = h[n][j]
    <3>1. /\ a \in Octets /\ Len(a) = Len(quoted) + Len(h[n]) /\ Len(a) \in Nat
          /\ \A j \in 1 .. Len(h[n]) : a[Len(quoted) + j] = h[n][j]
      <4>1. Joins(quoted, h[n], a)
        BY <1>7, <2>1, Joined, Zenon
      <4> HIDE DEF a
      <4> QED BY <4>1, Zenon DEF Joins
    <3> HIDE DEF a
    <3> QED BY <2>1, <3>1, Zenon
  <2> HIDE DEF a
  <2>3. e = a \o quoted
    BY <1>4, <1>5 DEF a
  <2>4. /\ e \in Octets /\ Len(e) = Len(a) + 1 /\ e[Len(a) + 1] = quoted[1]
        /\ \A j \in 1 .. Len(a) : e[j] = a[j]
    <3>1. /\ e \in Octets /\ Len(e) = Len(a) + Len(quoted)
          /\ \A j \in 1 .. Len(a) : e[j] = a[j]
          /\ \A j \in 1 .. Len(quoted) : e[Len(a) + j] = quoted[j]
      <4>1. Joins(a, quoted, e)
        BY <2>1, <2>2, <2>3, Joined, Zenon
      <4> QED BY <4>1, Zenon DEF Joins
    <3> QED BY <2>1, <3>1, Zenon
  <2>5. e[Len(e)] = quoted[1]
    BY <2>4, Zenon
  <2>7. \A m \in Nat : (1 + m) + 1 = m + 2 /\ \A j \in 1 .. m : 1 + j \in 1 .. 1 + m
    OBVIOUS
  <2>6. ASSUME NEW j \in 1 .. Len(h[n]) PROVE e[1 + j] = h[n][j]
    <3>1. 1 + j \in 1 .. Len(a)
      BY <1>7, <2>2, <2>7, Zenon
    <3> QED BY <2>2, <2>4, <3>1, Zenon
  <2>8. Len(e) = Len(h[n]) + 2
    BY <1>7, <2>2, <2>4, <2>7, Zenon
  <2> QED BY <2>1, <2>4, <2>5, <2>6, <2>8, Zenon
<1>9. PICK f : Reads(f, e) /\ Stream!DecString(e) = f[2]
  BY <1>8, ParseIs
<1> DEFINE Rest(i) == [end |-> Len(e) + 1, bytes |-> SubSeq(w, i, n)]
           T == {i \in 1 .. n + 1 : f[2 + Len(h[i - 1])] = Rest(i)}
<1>10. n + 1 \in T
  <2>1. (n + 1) - 1 = n /\ n + 1 \in 1 .. n + 1 /\ 2 + Len(h[n]) = Len(e) /\ Len(e) \in 1 .. Len(e)
    BY <1>1, <1>7, <1>8
  <2>2. SubSeq(w, n + 1, n) = <<>>
    BY <1>1, SubSeqEmpty
  <2>3. f[Len(e)] = ReadOne(e, Len(e), f[Onward(e, Len(e))])
    BY <1>9, <2>1 DEF Reads
  <2>4. f[Len(e)] = [end |-> Len(e) + 1, bytes |-> <<>>]
    BY <1>8, <2>3, Zenon DEF ReadOne
  <2> QED BY <2>1, <2>2, <2>4
<1>11. ASSUME NEW i \in 1 .. n, i + 1 \in T PROVE i \in T
  <2> DEFINE p == 2 + Len(h[i - 1])
  <2>1. i - 1 \in 0 .. n /\ i \in 0 .. n /\ (i + 1) - 1 = i /\ i \in 1 .. n + 1
    BY <1>1
  <2>2. Len(h[i - 1]) \in Nat /\ Len(h[i]) \in Nat /\ w[i] \in Octet
        /\ Len(h[i]) = Len(h[i - 1]) + Len(q[i]) /\ Len(h[i]) <= Len(h[n])
    BY <1>1, <1>6, <1>7, <2>1
  <2>3. Len(q[i]) \in Nat \ {0} /\ q[i] = Stream!EncByte(w[i])
    BY <1>2, <2>2, CodeOctets
  <2>4. p \in 1 .. Len(e) /\ p + Len(q[i]) = 2 + Len(h[i]) /\ p + Len(q[i]) <= Len(e) + 1
    <3>1. Len(q[i]) \in Nat /\ Len(q[i]) # 0
      BY <2>3
    <3>2. Spots(Len(h[i - 1]), Len(q[i]), Len(h[i]), Len(h[n]))
      BY <1>7, <2>2, <3>1, SpotsAre, Zenon
    <3>3. Len(e) = Len(h[n]) + 2
      BY <1>8
    <3> QED BY <3>1, <3>2, <3>3, Zenon DEF Spots
  <2>5. ASSUME NEW j \in 1 .. Len(q[i]) PROVE e[p + j - 1] = q[i][j]
    <3>1. Len(h[i - 1]) + j \in 1 .. Len(h[n]) /\ p + j - 1 = 1 + (Len(h[i - 1]) + j)
      <4>1. Len(q[i]) \in Nat
        BY <2>3
      <4>2. Spots(Len(h[i - 1]), Len(q[i]), Len(h[i]), Len(h[n]))
        BY <1>7, <2>2, <4>1, SpotsAre, Zenon
      <4> QED BY <4>2, Zenon DEF Spots
    <3>2. e[1 + (Len(h[i - 1]) + j)] = h[n][Len(h[i - 1]) + j]
      BY <1>8, <3>1, Zenon
    <3>3. h[n][Len(h[i - 1]) + j] = q[i][j]
      BY <1>6
    <3> QED BY <3>1, <3>2, <3>3
  <2>6. At(e, p, Stream!EncByte(w[i]))
    BY <2>3, <2>4, <2>5 DEF At
  <2> HIDE DEF p
  <2>7. /\ Onward(e, p) = p + Len(q[i])
        /\ \A x : ReadOne(e, p, x) = [x EXCEPT !.bytes = <<w[i]>> \o @]
    <3>1. /\ Onward(e, p) = p + Len(Stream!EncByte(w[i]))
          /\ \A x : ReadOne(e, p, x) = [x EXCEPT !.bytes = <<w[i]>> \o @]
      <4>1. e \in Octets /\ p \in 1 .. Len(e) /\ w[i] \in Octet
        BY <1>8, <2>2, <2>4
      <4> QED BY <2>6, <4>1, ReadBack
    <3> QED BY <2>3, <3>1, Zenon
  <2>8. f[p] = ReadOne(e, p, f[Onward(e, p)])
    BY <1>9, <2>4 DEF Reads
  <2>9. f[Onward(e, p)] = Rest(i + 1)
    BY <1>11, <2>1, <2>4, <2>7
  <2>10. f[p] = [Rest(i + 1) EXCEPT !.bytes = <<w[i]>> \o @]
    BY <2>7, <2>8, <2>9
  <2>11. SubSeq(w, i, n) = <<w[i]>> \o SubSeq(w, i + 1, n)
    BY <1>1, SubSeqRecursiveFirst DEF n, Octets
  <2>12. f[p] = Rest(i)
    BY <2>10, <2>11
  <2> QED BY <2>1, <2>12 DEF p
<1>12. \A i \in 1 .. n : (\A j \in i + 1 .. n + 1 : j \in T) => i \in T
  <2> SUFFICES ASSUME NEW i \in 1 .. n, \A j \in i + 1 .. n + 1 : j \in T PROVE i \in T
    OBVIOUS
  <2>1. i + 1 \in i + 1 .. n + 1
    BY <1>1
  <2> HIDE DEF T
  <2> QED BY <1>11, <2>1
<1>13. 1 \in T
  <2> HIDE DEF T
  <2>1. \A i \in 1 .. n + 1 : i \in T
    BY <1>1, <1>10, <1>12, Backwards
  <2> QED BY <1>1, <2>1
<1>14. f[2] = Rest(1)
  <2>1. h[1 - 1] = <<>> /\ 2 + Len(<<>>) = 2
    BY <1>5 DEF Gathers
  <2> QED BY <1>13, <2>1
<1>15. SubSeq(w, 1, n) = w
  BY SubSeqFull DEF n, Octets
<1> QED BY <1>9, <1>14, <1>15 DEF e

LEMMA StreamReturns == StreamInv => Stream!StringsReturn
BY Returned DEF StreamInv, Stream!StringsReturn

(* A streamed reply reads as the whole would, however the deltas cut it,    *)
(* with no byte kept back at its end, and what is escaped into a JSON       *)
(* string parses back to the same bytes (lua/api.lua, utf8_carry; ljson.c,  *)
(* to_valid_utf8, enc_string, dec_string).                                  *)
THEOREM StreamsWhole == Spec => []StreamTrue
<1> DEFINE Inv == active = "stream" => StreamInv
<1>1. Init => Inv
  BY StreamInit DEF Init, Begun
<1>2. Inv /\ [Next]_vars => Inv'
  BY ActiveStays, StreamRuns, StreamStep
<1>3. Inv => StreamTrue
  BY StreamIsWhole, StreamReturns DEF StreamTrue
<1> QED BY <1>1, <1>2, <1>3, PTL DEF Spec
=============================================================================
