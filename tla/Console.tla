------------------------------ MODULE Console ------------------------------
(***************************************************************************)
(* From the keyboard to a command: kern/cons/console.c, the line editor of *)
(* the prompt (kern/cmd/command_readline.c), execute_command and the       *)
(* readline of the user library.  Scan codes wait in the controller until  *)
(* somebody polls (the prompt and a program that locked the console run    *)
(* with interrupts off) or the interrupt comes; what they mean is decided  *)
(* then, and for Delete by what the screen shows then.                     *)
(***************************************************************************)
EXTENDS Integers, Sequences, SequencesExt, FiniteSetsExt, TLC

CONSTANTS
  Commands,        \* commands[]: names, as sequences of codes
  ProgramNames,    \* the names of userPrograms[]
  Tests,           \* the names of tests[]
  RunWord, LoadWord,  \* "run", "load"
  TstWord,         \* "tst"
  PromptText,      \* "FOS> "
  Rows, Cols,      \* CRT_ROWS, CRT_COLS
  ConsBufSize, BufLen, HistoryMax,
  WireMax,         \* bytes that the keyboard holds until they are read; the serial port holds one
  KeySets,         \* [set, max]: the keys of a behaviour and a bound on how many are pressed
  Garbage          \* texts an access outside an array may find

VARIABLES
  wire, com,       \* bytes in the keyboard controller, in the serial port
  shift,           \* kbd_proc_data's static shift, as a set of flags
  ring,            \* cons: [buf, rpos, wpos]
  crt,             \* [cells, pos, text_length]
  mode,            \* who has the processor: the prompt or a program, and how far it is; or "overrun"
  ed,              \* the locals of the readline in progress
  history,         \* [last |-> last_command_idx, cmd |-> command_history]
  PrefixList,
  keys,            \* the keys of this behaviour
  pressed,         \* how many were pressed
  pending, lost,   \* ghosts: decoded and not yet read, and: more of them than the ring holds
  ref, plain,      \* ghosts: the line as typed, and: only edited in ways that leave it defined
  entered          \* ghost: the last line handed over, and what it should be

vars == <<wire, com, shift, ring, crt, mode, ed, history, PrefixList, keys, pressed, pending, lost,
          ref, plain, entered>>

BS == 8
TAB == 9
NL == 10
CR == 13
Space == 32
KEY_UP == 226
KEY_DN == 227
KEY_LF == 228
KEY_RT == 229
KEY_DEL == 233
Whitespace == {TAB, CR, NL, Space}
Undefined == -1
-----------------------------------------------------------------------------
(* The screen.                                                              *)

CrtSize == Rows * Cols
LastRow == CrtSize - Cols

Scrolled(s) ==
  IF s.pos < CrtSize THEN s
  ELSE [s EXCEPT !.cells = [k \in DOMAIN s.cells |->
                              IF k + Cols \in DOMAIN s.cells THEN s.cells[k + Cols] ELSE Space],
                 !.pos = @ - Cols]

\* A character written at the cursor, with the length of the text on the last row.
Written(s, c) ==
  [cells |-> [s.cells EXCEPT ![s.pos] = c], pos |-> s.pos + 1,
   text_length |-> s.text_length + IF s.pos + 1 > LastRow + s.text_length THEN 1 ELSE 0]

cga_putc(s, c) ==
  Scrolled(
    CASE c = BS -> IF s.pos > 0 THEN [s EXCEPT !.pos = @ - 1, !.cells[s.pos - 1] = Space] ELSE s
      [] c = NL -> [s EXCEPT !.pos = (@ + Cols) - ((@ + Cols) % Cols), !.text_length = 0]
      [] c = CR -> [s EXCEPT !.pos = @ - (@ % Cols)]
      [] c = TAB -> FoldLeft(LAMBDA r, blank : Scrolled(Written(r, blank)), s, [k \in 1 .. 5 |-> Space])
      [] c = KEY_LF -> IF s.pos > 0 THEN [s EXCEPT !.pos = @ - 1] ELSE s
      [] c = KEY_RT -> [s EXCEPT !.pos = @ + 1]
      [] OTHER -> Written(s, c))

cputs(s, text) == FoldLeft(cga_putc, s, text)
Times(n, c) == [k \in 1 .. n |-> c]
-----------------------------------------------------------------------------
(* The keyboard.  The maps are given for one key of each kind.              *)

shiftcode(d) ==
  CASE d \in {29, 157} -> {"CTL"} [] d \in {42, 54} -> {"SHIFT"} [] d \in {56, 184} -> {"ALT"}
    [] OTHER -> {}
togglecode(d) ==
  CASE d = 58 -> {"CAPSLOCK"} [] d = 69 -> {"NUMLOCK"} [] d = 70 -> {"SCROLLLOCK"} [] OTHER -> {}

Arrows ==
  (200 :> KEY_UP) @@ (208 :> KEY_DN) @@ (203 :> KEY_LF) @@ (205 :> KEY_RT) @@ (211 :> KEY_DEL)
normalmap ==
  (30 :> 97) @@ (48 :> 98) @@ (57 :> Space) @@ (14 :> BS) @@ (15 :> TAB) @@ (28 :> NL) @@ (72 :> 56) @@
  (156 :> NL) @@ Arrows
shiftmap == (30 :> 65) @@ (48 :> 66) @@ normalmap
ctlmap == (30 :> 1) @@ (48 :> 2) @@ (28 :> CR) @@ (57 :> 255) @@ Arrows
charcode(flags) ==
  IF "CTL" \in flags THEN ctlmap ELSE IF "SHIFT" \in flags THEN shiftmap ELSE normalmap

\* Delete: acts on the screen at once, and is passed on, unless the cursor is behind the text.
DeleteKey(s) ==
  IF s.text_length = 0 \/ s.pos = LastRow + s.text_length THEN [c |-> 0, crt |-> s]
  ELSE [c |-> KEY_DEL,
        crt |-> [s EXCEPT !.text_length = @ - 1,
                          !.cells = [k \in DOMAIN s.cells |->
                             IF k \in s.pos .. LastRow + Len(PromptText) + s.text_length - 1
                             THEN IF k + 1 \in DOMAIN s.cells THEN s.cells[k + 1] ELSE Space
                             ELSE s.cells[k]]]]

CapsLock(flags, c) ==
  IF "CAPSLOCK" \notin flags THEN c
  ELSE IF c \in 97 .. 122 THEN c - 32 ELSE IF c \in 65 .. 90 THEN c + 32 ELSE c

\* One byte of the controller: [c |-> the character or 0, shift, crt].
kbd_proc_data(data, flags, s) ==
  IF data = 224 THEN [c |-> 0, shift |-> flags \cup {"E0ESC"}, crt |-> s]
  ELSE IF data >= 128
  THEN LET d == IF "E0ESC" \in flags THEN data ELSE data - 128
       IN [c |-> 0, shift |-> flags \ (shiftcode(d) \cup {"E0ESC"}), crt |-> s]
  ELSE LET d  == IF "E0ESC" \in flags THEN data + 128 ELSE data
           on == (flags \ {"E0ESC"}) \cup shiftcode(d)
           f  == (on \ togglecode(d)) \cup (togglecode(d) \ on)
           m  == charcode(f)
           c  == IF d \in DOMAIN m THEN m[d] ELSE 0
       IN IF c = KEY_DEL THEN DeleteKey(s) @@ [shift |-> f]
          ELSE [c |-> IF (f = {"NUMLOCK"} /\ c \in 48 .. 57) \/ c = 255 THEN 0 ELSE CapsLock(f, c),
                shift |-> f, crt |-> s]
-----------------------------------------------------------------------------
(* The ring.  in is what an interrupt or a poll works on.                   *)

Input == [wire |-> wire, com |-> com, shift |-> shift, crt |-> crt, ring |-> ring,
          pending |-> pending, lost |-> lost]

\* cons_intr for one character: there is no check that the ring is full.
Stash(in, c) ==
  IF c = 0 THEN in
  ELSE [in EXCEPT !.ring = [buf |-> [@.buf EXCEPT ![@.wpos] = c], rpos |-> @.rpos,
                            wpos |-> (@.wpos + 1) % ConsBufSize],
                  !.pending = Append(@, c),
                  !.lost = @ \/ Len(in.pending) >= ConsBufSize - 1]

RECURSIVE serial_intr(_)
serial_intr(in) ==
  IF in.com = <<>> THEN in ELSE serial_intr(Stash([in EXCEPT !.com = Tail(@)], Head(in.com)))

RECURSIVE kbd_intr(_)
kbd_intr(in) ==
  IF in.wire = <<>> THEN in
  ELSE LET k == kbd_proc_data(Head(in.wire), in.shift, in.crt)
       IN kbd_intr(Stash([in EXCEPT !.wire = Tail(@), !.shift = k.shift, !.crt = k.crt], k.c))

\* cons_getc before it takes a character: the serial port, then the keyboard.
Polled == kbd_intr(serial_intr(Input))

Content(r) ==
  [k \in 1 .. (r.wpos - r.rpos) % ConsBufSize |-> r.buf[(r.rpos + k - 1) % ConsBufSize]]

Read(in) == in.ring.buf[in.ring.rpos]

\* The character is taken; a wrapped ring is read as if nothing had been lost.
Take(in) ==
  /\ ring' = [in.ring EXCEPT !.rpos = (@ + 1) % ConsBufSize]
  /\ pending' = IF in.pending = <<>> THEN <<>> ELSE Tail(in.pending)
  /\ lost' = in.lost
  /\ shift' = in.shift
  /\ wire' = in.wire /\ com' = in.com

\* The bytes of a key: pressed and released, with the escape in front of the keys that have it.
\* "run" is a whole line typed faster than anybody polls.
Stroke(code) == <<code, code + 128>>
Extended(code) == <<224, code, 224, code + 128>>
KeyBytes ==
  [a |-> Stroke(30), b |-> Stroke(48), space |-> Stroke(57), bs |-> Stroke(14), tab |-> Stroke(15),
   enter |-> Stroke(28), pad8 |-> Stroke(72), up |-> Extended(72), down |-> Extended(80),
   left |-> Extended(75), right |-> Extended(77), del |-> Extended(83), caps |-> Stroke(58),
   num |-> Stroke(69), shiftdown |-> <<42>>, shiftup |-> <<170>>, ctldown |-> <<224, 29>>,
   ctlup |-> <<224, 157>>,
   run |-> Stroke(30) \o Stroke(57) \o Stroke(48) \o Stroke(57) \o Stroke(48)]

Press(k) ==
  /\ pressed < keys.max /\ mode # "overrun"
  /\ pressed' = pressed + 1
  /\ IF k = "serial" THEN com = <<>> /\ com' = <<97>> /\ UNCHANGED wire
     ELSE /\ Len(wire \o KeyBytes[k]) <= WireMax
          /\ wire' = wire \o KeyBytes[k] /\ UNCHANGED com
  /\ UNCHANGED <<shift, ring, crt, mode, ed, history, PrefixList, keys, pending, lost, ref, plain,
                 entered>>

\* With interrupts on, which is while a program runs that has not locked the console.
keyboard_interrupt_handler ==
  /\ mode \in {"starting", "exiting"}
  /\ wire # <<>>
  /\ LET in == kbd_intr(Input)
     IN /\ wire' = in.wire /\ shift' = in.shift /\ crt' = in.crt /\ ring' = in.ring
        /\ pending' = in.pending /\ lost' = in.lost
  /\ UNCHANGED <<com, mode, ed, history, PrefixList, keys, pressed, ref, plain, entered>>

serial_interrupt_handler ==
  /\ mode \in {"starting", "exiting"}
  /\ com # <<>>
  /\ crt' = cputs(crt, <<NL, NL>>)
  /\ LET in == serial_intr(Input)
     IN com' = in.com /\ ring' = in.ring /\ pending' = in.pending /\ lost' = in.lost
  /\ UNCHANGED <<wire, shift, mode, ed, history, PrefixList, keys, pressed, ref, plain, entered>>
-----------------------------------------------------------------------------
(* The line editor of the prompt.  e is ed after the test at the head of    *)
(* the loop, s the screen after the poll.                                   *)

Line(buf) == [k \in 1 .. Min({n \in DOMAIN buf : buf[n] = 0}) |-> buf[k - 1]]
Blank == [n \in 0 .. BufLen - 1 |-> 0]
Holding(text) == [n \in 0 .. BufLen - 1 |-> IF n < Len(text) THEN text[n + 1] ELSE 0]

FirstLine(last) ==
  [buf |-> Blank, i |-> 0, lastIndex |-> 0, commandidx |-> last + 1, last_c |-> Undefined,
   size |-> Undefined, idx |-> 0, run |-> FALSE, tst |-> FALSE]

\* clearandwritecommand and RoundAutoCompleteCommandWithTheSamePrefix.
Rewrite(e, s, erased, text, c) ==
  /\ ed' = [e EXCEPT !.buf = Holding(text), !.i = Len(text), !.lastIndex = Len(text), !.last_c = c]
  /\ crt' = cputs(cputs(s, Times(erased, BS)), text)
  /\ ref' = text

\* command_history[k], and whatever lies behind the array.
Recalled(k) == IF k <= HistoryMax THEN {history.cmd[k]} ELSE Garbage

UpArrow(c, e, s) ==
  /\ c = KEY_UP
  /\ LET k == IF e.commandidx > 0 THEN e.commandidx - 1 ELSE e.commandidx
     IN \E text \in Recalled(k) : Rewrite([e EXCEPT !.commandidx = k], s, e.i, text, c)
  /\ UNCHANGED <<history, PrefixList, mode, plain, entered>>

DownArrow(c, e, s) ==
  /\ c = KEY_DN
  /\ LET k == IF e.commandidx < history.last THEN e.commandidx + 1 ELSE e.commandidx
     IN IF history.last >= 0
        THEN \E text \in Recalled(k) : Rewrite([e EXCEPT !.commandidx = k], s, e.i, text, c)
        ELSE ed' = [e EXCEPT !.last_c = c] /\ crt' = s /\ UNCHANGED ref
  /\ UNCHANGED <<history, PrefixList, mode, plain, entered>>

HasPrefix(name, text) == IsPrefix(text, name)
Completions(head, names, text) ==
  LET found == SelectSeq(names, LAMBDA name : HasPrefix(name, text))
  IN [k \in DOMAIN found |-> head \o found[k]]

RECURSIVE Words(_)
Words(text) ==
  LET start == {k \in DOMAIN text : text[k] \notin Whitespace}
      end == {k \in DOMAIN text : k > Min(start) /\ text[k] \in Whitespace}
      next == IF end = {} THEN Len(text) + 1 ELSE Min(end)
  IN IF start = {} THEN <<>>
     ELSE <<SubSeq(text, Min(start), next - 1)>> \o Words(SubSeq(text, next, Len(text)))

\* Tab after another key: nothing to complete, which leaves last_c as it is.
TabNothing(c, e, s) ==
  LET text == Line(e.buf)  words == Words(text)
      empty == text = <<>>
      open  == ~empty /\ Last(text) = Space
      other == Len(words) > 1 /\ words[1] \notin {RunWord, LoadWord, TstWord}
  IN /\ c = TAB /\ e.last_c # TAB
     /\ empty \/ open \/ other
     /\ PrefixList' = <<>>
     /\ ed' = IF empty THEN e ELSE [e EXCEPT !.size = 0]
     /\ crt' = s
     /\ UNCHANGED <<history, mode, ref, plain, entered>>

\* The words the last one of the line is completed to: commands, or the arguments of the command.
\* The flags stay set for the rest of the line.
TabComplete(c, e, s) ==
  LET text  == Line(e.buf)
      words == Words(text)
      many  == Len(words) > 1
      last  == IF many THEN Last(words) ELSE IF text[1] \in Whitespace THEN <<>> ELSE text
      head  == IF many THEN SubSeq(text, 1, Len(text) - Len(last)) ELSE <<>>
      run   == e.run \/ (many /\ words[1] # TstWord)
      tst   == e.tst \/ (many /\ words[1] = TstWord)
      list  == Completions(head, IF ~many THEN Commands ELSE IF run THEN ProgramNames ELSE Tests, last)
      cut   == IF many THEN [e.buf EXCEPT ![Len(head)] = 0] ELSE e.buf
      long  == list # <<>> /\ Len(list[1]) >= BufLen
      buf   == IF list = <<>> \/ long THEN cut
               ELSE [n \in DOMAIN cut |-> IF n < Len(list[1]) THEN list[1][n + 1] ELSE cut[n]]
      len   == Len(Line(buf))
  IN /\ c = TAB /\ e.last_c # TAB
     /\ text # <<>> /\ Last(text) # Space
     /\ many => words[1] \in {RunWord, LoadWord, TstWord}
     /\ PrefixList' = list
     /\ ed' = [e EXCEPT !.buf = buf, !.run = run, !.tst = tst, !.size = Len(list), !.last_c = c,
                        !.idx = IF list = <<>> THEN @ ELSE 0,
                        !.i = IF list = <<>> THEN @ ELSE len,
                        !.lastIndex = IF list = <<>> THEN @ ELSE len]
     /\ crt' = IF list = <<>> THEN s ELSE cputs(cputs(s, Times(Len(text), BS)), Line(buf))
     /\ ref' = IF list = <<>> THEN ref ELSE list[1]
     \* Cut off and not completed, or the first word completed with blanks in front of it.
     /\ plain' = (plain /\ (many => list # <<>>) /\ text[1] \notin Whitespace)
     /\ mode' = IF long THEN "overrun" ELSE mode
     /\ UNCHANGED <<history, entered>>

Prefix(k) == IF k + 1 \in DOMAIN PrefixList THEN PrefixList[k + 1] ELSE <<>>

\* Tab again.  last_c and prefix_list_size may not have been set yet in this line.
TabAgain(c, e, s) ==
  /\ c = TAB /\ e.last_c \in {TAB, Undefined}
  /\ \E size \in IF e.size = Undefined THEN 0 .. 2 ELSE {e.size} :
       IF size > 0
       THEN LET idx == (e.idx + 1) % size
            IN Rewrite([e EXCEPT !.idx = idx, !.size = size], s, Len(Prefix(e.idx)), Prefix(idx), c)
       ELSE ed' = [e EXCEPT !.size = size, !.last_c = c] /\ crt' = s /\ UNCHANGED ref
  /\ plain' = (plain /\ e.last_c = TAB /\ e.size # Undefined)
  /\ UNCHANGED <<history, PrefixList, mode, entered>>

\* The arrows move the cursor over the text; what the line means after edits there is not defined.
SideArrow(c, e, s) ==
  /\ c \in {KEY_LF, KEY_RT}
  /\ LET moves == IF c = KEY_LF THEN e.i > 0 ELSE e.i < e.lastIndex
         by    == IF c = KEY_LF THEN -1 ELSE 1
     IN /\ ed' = [e EXCEPT !.i = IF moves THEN @ + by ELSE @, !.last_c = c]
        /\ crt' = IF moves THEN cga_putc(s, c) ELSE s
        /\ plain' = (plain /\ ~moves)
  /\ UNCHANGED <<history, PrefixList, mode, ref, entered>>

Delete(c, e, s) ==
  /\ c = KEY_DEL /\ e.i > 0
  /\ ed' = [e EXCEPT !.buf = [n \in DOMAIN e.buf |->
                                IF n \in e.i .. e.lastIndex THEN e.buf[n + 1] ELSE e.buf[n]],
                     !.lastIndex = @ - 1, !.last_c = c]
  /\ crt' = s
  /\ UNCHANGED <<history, PrefixList, mode, ref, plain, entered>>

Printable(c, e, s) ==
  /\ c >= Space /\ c \notin {KEY_UP, KEY_DN, KEY_LF, KEY_RT}
  /\ ~(c = KEY_DEL /\ e.i > 0)
  /\ IF e.i < BufLen - 1
     THEN /\ ed' = [e EXCEPT !.buf[e.i] = c, !.i = @ + 1, !.lastIndex = @ + 1, !.last_c = c]
          /\ crt' = cga_putc(s, c)
          /\ ref' = Append(ref, c)
     ELSE ed' = [e EXCEPT !.last_c = c] /\ crt' = s /\ UNCHANGED ref
  /\ UNCHANGED <<history, PrefixList, mode, plain, entered>>

Backspace(c, e, s) ==
  /\ c = BS
  /\ IF e.i > 0
     THEN /\ ed' = [e EXCEPT !.buf[e.i - 1] = e.buf[e.i], !.i = @ - 1, !.last_c = c]
          /\ crt' = cga_putc(s, c)
          /\ ref' = IF ref = <<>> THEN <<>> ELSE Front(ref)
     ELSE ed' = [e EXCEPT !.last_c = c] /\ crt' = s /\ UNCHANGED ref
  /\ UNCHANGED <<history, PrefixList, mode, plain, entered>>

\* The other control characters.
Ignored(c, e, s) ==
  /\ c < Space /\ c \notin {BS, TAB, NL, CR}
  /\ ed' = [e EXCEPT !.last_c = c] /\ crt' = s
  /\ UNCHANGED <<history, PrefixList, mode, ref, plain, entered>>

\* Mutant: at the limit the newest line replaces the one before the last.
RememberedShort(text) ==
  LET last == history.last
      added == [last |-> last + 1, cmd |-> IF last < HistoryMax THEN [history.cmd EXCEPT ![last + 1] = text]
                                           ELSE history.cmd]
  IN IF last = HistoryMax
     THEN {[last |-> last,
            cmd |-> [k \in 0 .. HistoryMax |-> IF k = HistoryMax - 1 THEN text ELSE history.cmd[k]]]}
     ELSE IF last = -1 THEN {history, added}
     ELSE IF history.cmd[last] = text THEN {history} ELSE {added}

\* The line joins the history.  The first comparison reads in front of the array.
Remembered(text) ==
  LET last == history.last
      added == [last |-> last + 1, cmd |-> IF last < HistoryMax THEN [history.cmd EXCEPT ![last + 1] = text]
                                           ELSE history.cmd]
  IN IF last = HistoryMax
     THEN {[last |-> last,
            cmd |-> [k \in 0 .. HistoryMax |-> IF k = HistoryMax THEN text ELSE history.cmd[k + 1]]]}
     ELSE IF last = -1 THEN {history, added}
     ELSE IF history.cmd[last] = text THEN {history} ELSE {added}

process_command(words) ==
  LET found == {k \in DOMAIN Commands : Commands[k] = words[1]}
  IN IF found = {} THEN 0 ELSE Min(found)

\* The program, the size of its working set and perhaps its priority; round robin schedules and
\* the replacement is not by LRU lists, as at the start.
CreateEnv(words) == Len(words) \in {3, 4} /\ words[2] \in Range(ProgramNames)

\* Does the line start a program?
execute_command(text) ==
  LET words == Words(text)
  IN /\ words # <<>>
     /\ process_command(words) # 0
     /\ words[1] = RunWord
     /\ CreateEnv(words)

\* Enter: the line is ended at lastIndex, remembered and executed; the prompt or the program begins.
Enter(c, e, s) ==
  /\ c \in {NL, CR}
  /\ LET text  == Line([e.buf EXCEPT ![e.lastIndex] = 0])
         shown == cga_putc(s, c)
     IN /\ \E h \in Remembered(text) :
             /\ history' = h
             /\ ed' = FirstLine(h.last)
        /\ entered' = [line |-> text, ref |-> ref, plain |-> plain, by |-> "prompt"]
        /\ IF execute_command(text)
           THEN mode' = "starting" /\ crt' = shown
           ELSE mode' = "prompt" /\ crt' = cputs(shown, (IF Words(text) = <<>> THEN <<>> ELSE <<NL>>) \o PromptText)
  /\ ref' = <<>> /\ plain' = TRUE
  /\ UNCHANGED PrefixList

\* The key makes the editor read or write behind buf[BUFLEN]: every printable raises lastIndex, and
\* Backspace does not lower it.  What the bytes there are is not modelled.
Outside(c, e) ==
  \/ c \in {NL, CR} /\ e.lastIndex >= BufLen
  \/ c = KEY_DEL /\ e.i > 0 /\ e.lastIndex >= BufLen - 1
  \/ c = BS /\ e.i >= BufLen
Overrun ==
  /\ mode' = "overrun"
  /\ UNCHANGED <<crt, ed, history, PrefixList, ref, plain, entered>>

command_prompt_readline ==
  LET in == Polled
      c  == Read(in)
      e  == [ed EXCEPT !.lastIndex = Max({@, ed.i})]
  IN /\ mode = "prompt"
     /\ Content(in.ring) # <<>>
     /\ Take(in)
     /\ \/ Outside(c, e) /\ Overrun
        \/ UpArrow(c, e, in.crt)
        \/ DownArrow(c, e, in.crt)
        \/ TabNothing(c, e, in.crt)
        \/ TabComplete(c, e, in.crt)
        \/ TabAgain(c, e, in.crt)
        \/ SideArrow(c, e, in.crt)
        \/ ~Outside(c, e) /\ Delete(c, e, in.crt)
        \/ Printable(c, e, in.crt)
        \/ ~Outside(c, e) /\ Backspace(c, e, in.crt)
        \/ Ignored(c, e, in.crt)
        \/ ~Outside(c, e) /\ Enter(c, e, in.crt)
     /\ UNCHANGED <<keys, pressed>>
-----------------------------------------------------------------------------
(* A program that asks for one line: lib/readline.c.                        *)

Goes(from, to) ==
  /\ mode = from /\ mode' = to
  /\ UNCHANGED <<wire, com, shift, ring, history, PrefixList, keys, pressed, pending, lost, plain,
                 entered>>

\* sys_lock_cons, with it the interrupts are off, and the question.
LockAndAsk == Goes("starting", "program") /\ crt' = cputs(crt, PromptText) /\ UNCHANGED <<ed, ref>>

\* exit: the scheduler finds no process and the prompt begins again.
exit == Goes("exiting", "prompt") /\ crt' = cputs(crt, PromptText) /\ ed' = FirstLine(history.last) /\ UNCHANGED ref

\* Every character from Space on belongs to the line, those of the arrows too.
atomic_readline ==
  LET in == Polled
      c  == Read(in)
      s  == in.crt
  IN /\ mode = "program"
     /\ Content(in.ring) # <<>>
     /\ Take(in)
     /\ IF c >= Space /\ ed.i < BufLen - 1
        THEN /\ ed' = [ed EXCEPT !.buf[ed.i] = c, !.i = @ + 1]
             /\ crt' = cga_putc(s, c)
             /\ ref' = Append(ref, c)
             /\ plain' = (plain /\ c \notin {KEY_LF, KEY_RT})
             /\ UNCHANGED <<mode, entered>>
        ELSE IF c = BS /\ ed.i > 0
        THEN /\ ed' = [ed EXCEPT !.i = @ - 1]
             /\ crt' = cga_putc(s, c)
             /\ ref' = Front(ref)
             /\ UNCHANGED <<mode, plain, entered>>
        ELSE IF c \in {NL, CR}
        THEN /\ entered' = [line |-> Line([ed.buf EXCEPT ![ed.i] = 0]), ref |-> ref, plain |-> TRUE,
                          by |-> "program"]
             /\ crt' = cga_putc(s, c)
             /\ mode' = "exiting"
             /\ ref' = <<>> /\ plain' = TRUE
             /\ UNCHANGED ed
        ELSE crt' = s /\ UNCHANGED <<ed, mode, ref, plain, entered>>
     /\ UNCHANGED <<history, PrefixList, keys, pressed>>
-----------------------------------------------------------------------------
Start(k, top) ==
  /\ keys = k
  /\ wire = <<>> /\ com = <<>> /\ shift = {} /\ pressed = 0
  /\ ring = [buf |-> [n \in 0 .. ConsBufSize - 1 |-> 0], rpos |-> 0, wpos |-> 0]
  /\ crt = cputs([cells |-> [n \in 0 .. CrtSize - 1 |-> Space], pos |-> top, text_length |-> 0], PromptText)
  /\ mode = "prompt"
  /\ ed = FirstLine(-1)
  /\ history = [last |-> -1, cmd |-> [n \in 0 .. HistoryMax |-> <<>>]]
  /\ PrefixList = <<>>
  /\ pending = <<>> /\ lost = FALSE
  /\ ref = <<>> /\ plain = TRUE
  /\ entered = [line |-> <<>>, ref |-> <<>>, plain |-> TRUE, by |-> "nobody"]

\* The prompt appears on the first row or, with the screen full, on the last.
Init == \E k \in KeySets, top \in {0, LastRow} : Start(k, top)

Next ==
  \/ \E k \in keys.set : Press(k)
  \/ keyboard_interrupt_handler
  \/ serial_interrupt_handler
  \/ command_prompt_readline
  \/ LockAndAsk
  \/ atomic_readline
  \/ exit

\* What was decoded is read once and in order, unless the ring overflowed; a line handed to
\* execute_command or to a program is the line as typed, and as the screen shows it to the left of
\* the cursor with nothing behind it, unless it was edited in the middle, completed from a state
\* that the editor never set, or cut off by a Tab (plain); and the newest line is the one Up brings
\* back first.  Nothing is said once the editor has left its buffer.
LinesFaithful ==
  /\ ~lost => Content(ring) = pending
  /\ entered.plain => entered.line = entered.ref
  /\ plain /\ mode \in {"prompt", "program"} =>
       /\ \A k \in DOMAIN ref : crt.cells[crt.pos - Len(ref) + k - 1] = ref[k]
       /\ \A n \in crt.pos .. CrtSize - 1 : crt.cells[n] = Space
  /\ history.last >= 0 /\ entered.by = "prompt" => history.cmd[history.last] = entered.line
=============================================================================
