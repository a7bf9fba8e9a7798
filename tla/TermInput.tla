----------------------------- MODULE TermInput ------------------------------
(***************************************************************************)
(* The keyboard of the terminal: src/src/termctl.c reads the bytes of      *)
(* stdin into `inbuf' and parses them into events, under the names         *)
(* src/src/ltermctl.c gives them.                                          *)
(*                                                                         *)
(* The user types whole keys (Units); a read may end anywhere in their     *)
(* bytes.  Stdin is polled by tc_poll itself, or, once attached, by a      *)
(* handle of the uv loop.  `inbuf' is the array with what earlier reads    *)
(* left in it, `inlen' what of it is valid.                                *)
(* Bounds: MaxKeys keys, MaxBytes in all; BufCap stands for the 4096       *)
(* bytes of the array.                                                     *)
(***************************************************************************)
EXTENDS Integers, Sequences, FiniteSets, SequencesExt, Utf8

CONSTANTS Units,    \* the keys the user types: [bytes, event]
          MaxKeys, MaxBytes, BufCap

VARIABLES wire,     \* bytes typed and not read
          closed,   \* the terminal is gone
          typed,    \* history: the keys typed
          inbuf, inlen, eof,
          pasting, paste,
          attached,
          events,   \* history: the events tc_poll returned
          cut       \* history: a read ended inside the mark that ends a paste

kvars == <<wire, closed, typed, inbuf, inlen, eof, pasting, paste, attached, events, cut>>

ESC == 27
Shift == 1
Alt == 2
Ctrl == 4

None == [type |-> "none"]
KeyM(key, mods) == [type |-> "key", key |-> key, mods |-> mods, char |-> 0]
Char(cp, mods) == [type |-> "key", key |-> "char", mods |-> mods, char |-> cp]
CtrlKey(cp) == [type |-> "key", key |-> "ctrl", mods |-> 0, char |-> cp]
Mouse(button, x, y) == [type |-> "mouse", button |-> button, mx |-> x, my |-> y]
Pasted(text) == [type |-> "paste", text |-> text]

PasteEnd == <<ESC, 91, 50, 48, 49, 126>>

Init == /\ wire = <<>> /\ closed = FALSE /\ typed = <<>>
        /\ inbuf = [i \in 1 .. BufCap |-> 0] /\ inlen = 0 /\ eof = FALSE
        /\ pasting = FALSE /\ paste = <<>> /\ attached = FALSE
        /\ events = <<>> /\ cut = FALSE
-----------------------------------------------------------------------------
(* parse_one: how many of the valid bytes b it consumes and the event they  *)
(* make.  Nothing consumed: the sequence is incomplete.                     *)
Take(n, ev) == [used |-> n, ev |-> ev]
Lone == Take(1, KeyM("esc", 0))
Wait == IF eof THEN Lone ELSE Take(0, None)

ParseAlt(b) ==
  LET len == utf8_len(b[2]) IN
  CASE b[2] \in {13, 10} -> Take(2, KeyM("enter", Alt))
    [] b[2] = 9 -> Take(2, KeyM("tab", Alt))
    [] b[2] >= 32 /\ b[2] # 9 /\ 1 + len > Len(b) -> Wait
    [] b[2] >= 32 /\ 1 + len <= Len(b) -> Take(1 + len, Char(utf8_decode(Tail(b), len), Alt))
    [] OTHER -> Lone

AtLeast0(n) == IF n < 0 THEN 0 ELSE n
Button(code) == IF (code \div 64) % 2 = 1 THEN 64 + (code % 2) ELSE code % 4

ParseX10(b) ==
  IF Len(b) < 6 THEN Wait
  ELSE Take(6, Mouse(Button(b[4] - 32), AtLeast0(b[5] - 33), AtLeast0(b[6] - 33)))

IsDigit(c) == c \in 48 .. 57
Semicolon == 59
(* The numbers of a sequence, one more than its semicolons.                 *)
Numbers(s) ==
  FoldLeft(LAMBDA ps, c :
             CASE c = Semicolon -> Append(ps, 0)
               [] IsDigit(c) -> [ps EXCEPT ![Len(ps)] = @ * 10 + (c - 48)]
               [] OTHER -> ps,
           <<0>>, s)
Nth(ps, i) == IF i <= Len(ps) THEN ps[i] ELSE 0

FirstIn(b, from, S) ==
  LET at == {i \in from .. Len(b) : b[i] \in S}
  IN IF at = {} THEN 0 ELSE CHOOSE i \in at : \A j \in at : i <= j

ParseSgr(b) ==
  LET fin == FirstIn(b, 4, {77, 109})
      ps == Numbers(SubSeq(b, 4, fin - 1))
  IN IF fin = 0 THEN Wait
     ELSE Take(fin, Mouse(Button(ps[1]), AtLeast0(Nth(ps, 2) - 1), AtLeast0(Nth(ps, 3) - 1)))

TildeKeys ==
  (1 :> "home") @@ (7 :> "home") @@ (2 :> "insert") @@ (3 :> "delete") @@ (4 :> "end")
  @@ (8 :> "end") @@ (5 :> "pageup") @@ (6 :> "pagedown") @@ (11 :> "f1") @@ (12 :> "f2")
  @@ (13 :> "f3") @@ (14 :> "f4") @@ (15 :> "f5") @@ (17 :> "f6") @@ (18 :> "f7")
  @@ (19 :> "f8") @@ (20 :> "f9") @@ (21 :> "f10") @@ (23 :> "f11") @@ (24 :> "f12")
LetterKeys ==
  (65 :> "up") @@ (66 :> "down") @@ (67 :> "right") @@ (68 :> "left") @@ (72 :> "home")
  @@ (70 :> "end") @@ (80 :> "f1") @@ (81 :> "f2") @@ (82 :> "f3") @@ (83 :> "f4")
CodeKeys == (13 :> "enter") @@ (9 :> "tab") @@ (27 :> "esc")
Coded(code, mods) == IF code \in DOMAIN CodeKeys THEN KeyM(CodeKeys[code], mods)
                     ELSE Char(code, mods)

(* CSI or SS3: numbers up to the first byte that is neither a digit nor a   *)
(* semicolon.  One that cannot end a sequence makes it incomplete, for ever *)
(* (and at the end of input a lone Escape).                                 *)
CsiKey(n, fin, count, num, mods, key) ==
  CASE fin = 126 /\ num = 27 /\ count >= 3 /\ (key \in DOMAIN CodeKeys \/ key \in 32 .. 126)
         -> Take(n, Coded(key, mods))
    [] fin = 126 /\ num = 200 -> Take(n, [type |-> "start"])
    [] fin = 126 /\ num = 201 -> Take(n, Pasted(paste))
    [] fin = 126 /\ num \in DOMAIN TildeKeys -> Take(n, KeyM(TildeKeys[num], mods))
    [] fin = 117 /\ num \in {127, 8} -> Take(n, KeyM("backspace", mods))
    [] fin = 117 /\ num \notin {127, 8} -> Take(n, Coded(num, mods))
    [] fin = 90 -> Take(n, KeyM("tab", Shift))
    [] fin \in DOMAIN LetterKeys -> Take(n, KeyM(LetterKeys[fin], mods))
    [] OTHER -> Lone
CsiNumbers(text, fin) == IF text = <<>> /\ fin \notin 65 .. 90 THEN <<>> ELSE Numbers(text)
CsiOf(n, fin, ps) ==
  CsiKey(n, fin, Len(ps), Nth(ps, 1), AtLeast0(Nth(ps, 2) - 1), Nth(ps, 3))
CsiEnds(b, i) ==
  IF i = 0 \/ b[i] \notin 64 .. 126 THEN Wait
  ELSE CsiOf(i, b[i], CsiNumbers(SubSeq(b, 3, i - 1), b[i]))
ParseCsi(b) == CsiEnds(b, FirstIn(b, 3, (0 .. 255) \ (48 .. 57 \cup {Semicolon})))

ParseEscAtOnce(b) ==
  CASE Len(b) = 1 -> Lone
    [] Len(b) > 1 /\ b[2] \notin {91, 79} -> ParseAlt(b)
    [] Len(b) = 2 /\ b[2] \in {91, 79} -> Wait
    [] Len(b) > 2 /\ b[2] = 91 /\ b[3] = 77 -> ParseX10(b)
    [] Len(b) > 2 /\ b[2] = 91 /\ b[3] = 60 -> ParseSgr(b)
    [] OTHER -> ParseCsi(b)

ParseEsc(b) ==
  CASE Len(b) = 1 -> Wait
    [] Len(b) > 1 /\ b[2] \notin {91, 79} -> ParseAlt(b)
    [] Len(b) = 2 /\ b[2] \in {91, 79} -> Wait
    [] Len(b) > 2 /\ b[2] = 91 /\ b[3] = 77 -> ParseX10(b)
    [] Len(b) > 2 /\ b[2] = 91 /\ b[3] = 60 -> ParseSgr(b)
    [] OTHER -> ParseCsi(b)

ParseByte(b) ==
  LET c == b[1]
      len == utf8_len(c)
  IN CASE c = 13 -> Take(1, KeyM("enter", 0))
       [] c = 10 -> Take(1, KeyM("enter", Ctrl))
       [] c = 9 -> Take(1, KeyM("tab", 0))
       [] c \in {127, 8} -> Take(1, KeyM("backspace", 0))
       [] c = 0 -> Take(1, CtrlKey(32))
       [] c \in (1 .. 26) \ {8, 9, 10, 13} -> Take(1, CtrlKey(96 + c))
       [] c \in 28 .. 31 -> Take(1, CtrlKey(64 + c))
       [] OTHER -> IF len <= Len(b) THEN Take(len, Char(utf8_decode(b, len), 0))
                   ELSE IF eof THEN Take(1, Char(Replacement, 0)) ELSE Take(0, None)

(* find_paste_end: it looks for the mark one byte beyond the valid ones,    *)
(* where an earlier read may have left its last one.                        *)
PasteEndAt(buf, n) ==
  LET at == {i \in 1 .. n : i + 4 <= n /\ i + 5 <= BufCap /\ SubSeq(buf, i, i + 5) = PasteEnd}
  IN IF at = {} THEN 0 ELSE CHOOSE i \in at : \A j \in at : i <= j

(* The payload of a paste is taken as it comes; the event ends it.          *)
PasteTo(s, at, text) ==
  [used |-> IF at = 0 THEN s.n ELSE at + 5,
   ev |-> IF at # 0 \/ eof THEN Pasted(text) ELSE None,
   paste |-> text, pasting |-> at = 0 /\ ~eof]
PasteUpTo(s, at) == PasteTo(s, at, s.paste \o SubSeq(s.buf, 1, IF at = 0 THEN s.n ELSE at - 1))
ParsePaste(s) == PasteUpTo(s, PasteEndAt(s.buf, s.n))

KeyOrStart(s, t) ==
  IF t.ev.type = "start" THEN [used |-> t.used, ev |-> None, paste |-> <<>>, pasting |-> TRUE]
  ELSE t @@ [paste |-> s.paste, pasting |-> FALSE]
ParseKey(b) == IF b[1] = ESC THEN ParseEsc(b) ELSE ParseByte(b)
ParseOne(s) ==
  IF s.pasting THEN ParsePaste(s) ELSE KeyOrStart(s, ParseKey(SubSeq(s.buf, 1, s.n)))

(* inbuf_consume moves what is left to the front; the bytes behind it stay. *)
Consumed(s, used) ==
  IF used >= s.n THEN [s EXCEPT !.n = 0]
  ELSE [s EXCEPT !.n = s.n - used,
                 !.buf = [i \in 1 .. BufCap |-> IF i <= s.n - used THEN s.buf[i + used] ELSE s.buf[i]]]

(* take_event parses until something is an event or nothing is consumed.    *)
Parsed(s, r) ==
  IF r.used = 0 THEN [s EXCEPT !.stuck = TRUE]
  ELSE [Consumed(s, r.used) EXCEPT !.ev = r.ev, !.paste = r.paste, !.pasting = r.pasting]
TakeStep(s, i) == IF s.n = 0 \/ s.ev # None \/ s.stuck THEN s ELSE Parsed(s, ParseOne(s))
TakeEvent(s) == FoldLeft(TakeStep, s, [i \in 1 .. s.n |-> i])

Buffered == [buf |-> inbuf, n |-> inlen, paste |-> paste, pasting |-> pasting,
             ev |-> None, stuck |-> FALSE]
(* A read adds what it finds behind the valid bytes.                        *)
Read(s, k) ==
  [s EXCEPT !.n = s.n + k,
            !.buf = [i \in 1 .. BufCap |-> IF i \in s.n + 1 .. s.n + k THEN wire[i - s.n] ELSE s.buf[i]]]
Became(s) ==
  /\ inbuf' = s.buf /\ inlen' = s.n /\ paste' = s.paste /\ pasting' = s.pasting
  /\ events' = IF s.ev = None THEN events ELSE Append(events, s.ev)

(* What of `wire' a read can return, and that it parts a paste's end mark.  *)
Readable(s) == {k \in 0 .. BufCap - s.n : k <= Len(wire)}
Arrives(k) ==
  /\ wire' = SubSeq(wire, k + 1, Len(wire))
  /\ cut' = (cut \/ \E j \in 1 .. k : j + 5 > k /\ j + 5 <= Len(wire)
                                      /\ SubSeq(wire, j, j + 5) = PasteEnd)
-----------------------------------------------------------------------------
BytesOf(keys) == FlattenSeq([i \in DOMAIN keys |-> keys[i].bytes])
Type == /\ ~closed /\ Len(typed) < MaxKeys
        /\ \E u \in Units : /\ typed' = Append(typed, u) /\ Len(BytesOf(typed')) <= MaxBytes
                           /\ wire' = wire \o u.bytes
        /\ UNCHANGED <<closed, inbuf, inlen, eof, pasting, paste, attached, events, cut>>

Close == /\ ~closed /\ closed' = TRUE
         /\ UNCHANGED <<wire, typed, inbuf, inlen, eof, pasting, paste, attached, events, cut>>

(* on_stdin_readable: the loop saw stdin readable.                          *)
OnStdinReadable ==
  /\ attached /\ wire # <<>>
  /\ \E k \in Readable(Buffered) : Became(Read(Buffered, k)) /\ Arrives(k)
  /\ UNCHANGED <<closed, typed, eof, attached>>

(* What a read finds is parsed at once.                                     *)
ReadEvent(s, k) == Became(TakeEvent([Read(s, k) EXCEPT !.stuck = FALSE])) /\ Arrives(k)

(* tc_poll while attached: an event of the buffer, or one more read.        *)
PollAttached(s) ==
  IF s.ev # None THEN Became(s) /\ UNCHANGED <<wire, cut>>
  ELSE \E k \in Readable(s) : ReadEvent(s, k)
TcPollAttached ==
  /\ attached
  /\ PollAttached(TakeEvent(Buffered))
  /\ UNCHANGED <<closed, typed, eof, attached>>

(* tc_poll by itself: an event of the buffer, else one poll(2) and one read *)
(* of at least a byte; a buffer that is full of nothing is emptied, and a   *)
(* read of nothing is the end of the input.                                 *)
WithRoom(s) == IF s.n = BufCap THEN [s EXCEPT !.n = 0] ELSE s
PollAlone(s) ==
  CASE s.ev # None \/ eof -> Became(s) /\ UNCHANGED <<wire, eof, cut>>
    [] s.ev = None /\ ~eof /\ wire # <<>> ->
         /\ \E k \in Readable(WithRoom(s)) \ {0} : ReadEvent(WithRoom(s), k)
         /\ UNCHANGED eof
    [] OTHER -> /\ Became(s) /\ eof' = closed /\ UNCHANGED <<wire, cut>>
TcPoll ==
  /\ ~attached
  /\ PollAlone(TakeEvent(Buffered))
  /\ UNCHANGED <<closed, typed, attached>>

Attach == /\ ~attached /\ ~eof /\ attached' = TRUE
          /\ UNCHANGED <<wire, closed, typed, inbuf, inlen, eof, pasting, paste, events, cut>>
Detach == /\ attached /\ attached' = FALSE
          /\ UNCHANGED <<wire, closed, typed, inbuf, inlen, eof, pasting, paste, events, cut>>

Next == Type \/ Close \/ OnStdinReadable \/ TcPollAttached \/ TcPoll \/ Attach \/ Detach
Spec == Init /\ [][Next]_kvars
-----------------------------------------------------------------------------
(* However the reads cut the input, the events are the keys that were       *)
(* typed, in order, each once, and when tc_poll finds nothing in the buffer *)
(* and nothing is left to read, they are all of them.  It says nothing once *)
(* a read parted the mark that ends a paste.                                *)
Idle == wire = <<>> /\ TakeEvent(Buffered).ev = None
Meant == [i \in DOMAIN typed |-> typed[i].event]
KeysTrue == ~cut => IsPrefix(events, Meant) /\ (Idle => events = Meant)
=============================================================================
