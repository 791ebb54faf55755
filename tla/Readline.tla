------------------------------ MODULE Readline ------------------------------
(***************************************************************************)
(* A line from the keys to the command that runs: the editor of the        *)
(* command prompt (kern/cmd/command_readline.c) with its history and its   *)
(* completion, the plain one of user programs (lib/readline.c), the screen *)
(* they write on (cga_putc of kern/cons/console.c) and execute_command.    *)
(*                                                                         *)
(* The screen is the row after the prompt.  last_c and prefix_list_size    *)
(* are not initialised when a line is begun: any value of the ones that    *)
(* matter can be there.                                                    *)
(***************************************************************************)
EXTENDS Integers, SequencesExt

CONSTANTS
  Letters,      \* the characters that can be typed; Blank is one more
  BUFLEN, HISTORY_MAX,
  Commands,     \* the table of commands, a sequence of names
  TakesNames,   \* the commands whose arguments are completed
  Names,        \* the table of programs (or tests)
  MaxKeys       \* the bound on the keys that are pressed

ReadlineAssumption ==
  /\ BUFLEN \in Nat \ {0} /\ HISTORY_MAX \in Nat /\ MaxKeys \in Nat
  /\ \A k \in DOMAIN Commands : Len(Commands[k]) < BUFLEN

VARIABLES
  editor,       \* "prompt" or "program"
  keys,         \* keys pressed so far
  buf,          \* [0..BUFLEN-1 -> characters]
  i, lastIndex, \* where the next character goes; where the line is taken to end
  scr,          \* the screen: [cells, cur]
  commandidx, last_command_idx, command_history,
  lastTab,      \* last_c is a tab
  PrefixList, prefix_list_idx, prefix_list_size,
  clean,        \* no key has been pressed that is known to break the line (ghost)
  ran           \* the last line entered (ghost)

line == <<buf, i, lastIndex, scr>>
history == <<commandidx, last_command_idx, command_history>>
tab == <<PrefixList, prefix_list_idx, prefix_list_size>>
vars == <<editor, keys, line, history, tab, lastTab, clean, ran>>

Blank == " "
Nul == ""
Arrow == "<"   \* what an arrow key leaves in the buffer of a program

----------------------------------------------------------------------------
\* The string in the buffer.
Str(b) == LET n == Min({k \in 0..(BUFLEN - 1) : b[k] = Nul} \cup {BUFLEN})
          IN  [k \in 1..n |-> b[k - 1]]

Load(s) == [k \in 0..(BUFLEN - 1) |-> IF k < Len(s) THEN s[k + 1] ELSE Nul]

\* What lies beyond the buffer is whatever the build puts there.
Fits(s) == Len(s) < BUFLEN

\* strsplit
Words(s) ==
  LET Cut(ws, c) == IF c = Blank THEN Append(ws, <<>>)
                    ELSE [ws EXCEPT ![Len(ws)] = Append(@, c)]
  IN  SelectSeq(FoldLeft(Cut, << <<>> >>, s), LAMBDA w : w # <<>>)

\* cga_putc of a character, a backspace and the arrow keys
Put(s, c) == [cells |-> IF s.cur < Len(s.cells) THEN [s.cells EXCEPT ![s.cur + 1] = c]
                        ELSE Append(s.cells, c),
              cur |-> s.cur + 1]
Back(s) == IF s.cur = 0 THEN s
           ELSE [cells |-> [s.cells EXCEPT ![s.cur] = Blank], cur |-> s.cur - 1]
KEY_LF(s) == IF s.cur = 0 THEN s ELSE [s EXCEPT !.cur = @ - 1]
KEY_RT(s) == [cells |-> IF s.cur < Len(s.cells) THEN s.cells ELSE Append(s.cells, Blank),
              cur |-> s.cur + 1]

Rewrite(s, erased, new) ==
  FoldLeft(Put, FoldLeft(LAMBDA t, k : Back(t), s, [k \in 1..erased |-> k]), new)

AtEnd == i = Len(Str(buf))

\* Every key of the prompt first moves lastIndex up to the cursor.
LineEnd == IF editor = "prompt" THEN Max({lastIndex, i}) ELSE lastIndex

Key == keys < MaxKeys /\ keys' = keys + 1
Other == lastTab' = FALSE

----------------------------------------------------------------------------
(* The keys that both editors know.                                        *)

Type(c) ==
  /\ Key /\ i < BUFLEN - 1
  /\ buf' = [buf EXCEPT ![i] = c] /\ i' = i + 1
  /\ lastIndex' = IF editor = "prompt" THEN LineEnd + 1 ELSE lastIndex
  /\ scr' = Put(scr, c)
  /\ Other /\ UNCHANGED <<editor, history, tab, clean, ran>>

Backspace ==
  /\ Key /\ i > 0
  /\ buf' = IF editor = "prompt" THEN [buf EXCEPT ![i - 1] = IF i < BUFLEN THEN buf[i] ELSE Nul]
             ELSE buf
  /\ i' = i - 1 /\ lastIndex' = LineEnd /\ scr' = Back(scr)
  /\ clean' = (clean /\ (editor = "prompt" => AtEnd))
  /\ Other /\ UNCHANGED <<editor, history, tab, ran>>

----------------------------------------------------------------------------
(* The keys of the prompt.                                                 *)

LeftArrow ==
  /\ Key /\ editor = "prompt" /\ i > 0
  /\ i' = i - 1 /\ lastIndex' = LineEnd /\ scr' = KEY_LF(scr)
  /\ Other /\ UNCHANGED <<editor, buf, history, tab, clean, ran>>

\* lastIndex has grown with every character, also with those erased since: the
\* cursor can leave the text.
RightArrow ==
  /\ Key /\ editor = "prompt" /\ i < LineEnd
  /\ i' = i + 1 /\ scr' = KEY_RT(scr)
  /\ clean' = (clean /\ ~AtEnd)
  /\ Other /\ UNCHANGED <<editor, buf, lastIndex, history, tab, ran>>

KEY_DEL ==
  /\ Key /\ editor = "prompt" /\ i > 0
  /\ buf' = [k \in DOMAIN buf |-> IF k < i \/ k > LineEnd THEN buf[k]
                                  ELSE IF k = BUFLEN - 1 THEN Nul ELSE buf[k + 1]]
  /\ lastIndex' = LineEnd - 1
  /\ clean' = FALSE
  /\ Other /\ UNCHANGED <<editor, i, scr, history, tab, ran>>

\* clearandwritecommand; beyond the newest entry the history is empty, and
\* beyond the table is whatever the build puts there (empty here).
Recall(idx) ==
  LET old == IF idx \in DOMAIN command_history THEN command_history[idx] ELSE <<>>
  IN  /\ commandidx' = idx
      /\ scr' = Rewrite(scr, i, old)
      /\ buf' = Load(old) /\ i' = Len(old) /\ lastIndex' = Len(old)
      /\ clean' = (clean /\ AtEnd)
      /\ Other
      /\ UNCHANGED <<editor, last_command_idx, command_history, tab, ran>>

UpArrow == Key /\ editor = "prompt" /\ Recall(IF commandidx > 0 THEN commandidx - 1 ELSE 0)

DownArrow ==
  /\ Key /\ editor = "prompt" /\ last_command_idx >= 0
  /\ Recall(IF commandidx < last_command_idx THEN commandidx + 1 ELSE commandidx)

\* The names that a first tab offers for the line s.
Completions(s) ==
  LET ws == Words(s)
      part == ws[Len(ws)]
      stem == SubSeq(s, 1, Len(s) - Len(part))
      begun == IF Len(ws) = 1 /\ s[1] = Blank THEN <<>> ELSE part
      fit == SelectSeq(IF Len(ws) = 1 THEN Commands ELSE Names, LAMBDA n : IsPrefix(begun, n))
  IN  IF Len(ws) = 1 THEN fit ELSE [k \in DOMAIN fit |-> stem \o fit[k]]

Completable(s) ==
  /\ s # <<>> /\ s[Len(s)] # Blank
  /\ Len(Words(s)) > 1 => Words(s)[1] \in TakesNames

FirstTab ==
  LET s == Str(buf)
      fit == Completions(s)
      shown == fit[1] \o SubSeq(s, Len(fit[1]) + 1, Len(s))
      part == Words(s)[Len(Words(s))]
  IN  /\ Key /\ editor = "prompt" /\ ~lastTab
      /\ IF ~Completable(s)
         THEN PrefixList' = <<>> /\ UNCHANGED <<line, prefix_list_idx, prefix_list_size, lastTab, clean>>
         ELSE /\ PrefixList' = fit /\ prefix_list_size' = Len(fit) /\ lastTab' = TRUE
              /\ IF fit # <<>>
                 THEN /\ prefix_list_idx' = 0
                      /\ scr' = Rewrite(scr, Len(s), shown)
                      /\ buf' = Load(shown) /\ i' = Len(shown) /\ lastIndex' = Len(shown)
                      /\ clean' = (clean /\ AtEnd /\ Fits(shown))
                 \* The argument that fits nothing stays on the screen only.
                 ELSE /\ buf' = IF Len(Words(s)) = 1 THEN buf
                                ELSE [buf EXCEPT ![Len(s) - Len(part)] = Nul]
                      /\ clean' = (clean /\ Len(Words(s)) = 1)
                      /\ UNCHANGED <<i, lastIndex, scr, prefix_list_idx>>
      /\ UNCHANGED <<editor, history, ran>>

\* RoundAutoCompleteCommandWithTheSamePrefix
NextTab ==
  LET Entry(k) == IF k < Len(PrefixList) THEN PrefixList[k + 1] ELSE <<>>
      next == (prefix_list_idx + 1) % prefix_list_size
  IN  /\ Key /\ editor = "prompt" /\ lastTab /\ prefix_list_size > 0
      /\ prefix_list_idx' = next
      /\ scr' = Rewrite(scr, Len(Entry(prefix_list_idx)), Entry(next))
      /\ buf' = Load(Entry(next)) /\ i' = Len(Entry(next)) /\ lastIndex' = Len(Entry(next))
      /\ clean' = (clean /\ AtEnd /\ Str(buf) = Entry(prefix_list_idx) /\ Fits(Entry(next)))
      /\ UNCHANGED <<editor, history, PrefixList, prefix_list_size, lastTab, ran>>

\* The plain editor takes an arrow key for a character; the screen does not.
ArrowAsCharacter ==
  /\ Key /\ editor = "program" /\ i < BUFLEN - 1
  /\ buf' = [buf EXCEPT ![i] = Arrow] /\ i' = i + 1 /\ scr' = KEY_LF(scr)
  /\ clean' = FALSE
  /\ Other /\ UNCHANGED <<editor, lastIndex, history, tab, ran>>

----------------------------------------------------------------------------
(* The end of the line.                                                    *)

\* A full history is not moved up.
Remember_slip(s) ==
  IF last_command_idx = HISTORY_MAX
  THEN UNCHANGED <<last_command_idx, command_history>>
  ELSE /\ last_command_idx' = last_command_idx + 1
       /\ command_history' = [command_history EXCEPT ![last_command_idx + 1] = s]

\* The first line is compared with what lies before the table.
Remember(s) ==
  \/ /\ last_command_idx = HISTORY_MAX
     /\ command_history' = [k \in DOMAIN command_history |->
                              IF k = HISTORY_MAX THEN s ELSE command_history[k + 1]]
     /\ UNCHANGED last_command_idx
  \/ /\ last_command_idx < HISTORY_MAX
     /\ last_command_idx >= 0 => command_history[last_command_idx] # s
     /\ last_command_idx' = last_command_idx + 1
     /\ command_history' = [command_history EXCEPT ![last_command_idx + 1] = s]
  \/ /\ last_command_idx < HISTORY_MAX
     /\ last_command_idx >= 0 => command_history[last_command_idx] = s
     /\ UNCHANGED <<last_command_idx, command_history>>

\* The line ends where the cursor is.
Ended_slip(b) == [b EXCEPT ![Min({i, BUFLEN - 1})] = Nul]

\* buf[lastIndex] = 0, which may lie beyond the buffer
Ended(b) ==
  LET at == IF editor = "prompt" THEN LineEnd ELSE i
  IN  IF at < BUFLEN THEN [b EXCEPT ![at] = Nul] ELSE b

\* Enter, execute_command and the beginning of the next line
Enter ==
  LET s == Str(Ended(buf))
  IN  /\ Key
      /\ IF editor = "prompt" THEN Remember(s)
         ELSE UNCHANGED <<last_command_idx, command_history>>
      /\ ran' = [shown |-> Words(scr.cells), args |-> Words(s), line |-> s, clean |-> clean]
      /\ buf' = Load(<<>>) /\ i' = 0 /\ lastIndex' = 0
      /\ scr' = [cells |-> <<>>, cur |-> 0]
      /\ commandidx' = last_command_idx' + 1
      /\ prefix_list_idx' = 0 /\ prefix_list_size' \in {0, Len(PrefixList)}
      /\ lastTab' \in BOOLEAN /\ clean' = TRUE
      /\ UNCHANGED <<editor, PrefixList>>

Init ==
  /\ editor \in {"prompt", "program"} /\ keys = 0
  /\ buf = Load(<<>>) /\ i = 0 /\ lastIndex = 0
  /\ scr = [cells |-> <<>>, cur |-> 0]
  /\ commandidx = 0 /\ last_command_idx = -1
  /\ command_history = [k \in 0..HISTORY_MAX |-> <<>>]
  /\ lastTab \in BOOLEAN
  /\ PrefixList = <<>> /\ prefix_list_idx = 0 /\ prefix_list_size = 0
  /\ clean = TRUE
  /\ ran = [shown |-> <<>>, args |-> <<>>, line |-> <<>>, clean |-> TRUE]

Next == \/ \E c \in Letters \cup {Blank} : Type(c)
        \/ Backspace \/ LeftArrow \/ RightArrow \/ KEY_DEL \/ UpArrow \/ DownArrow
        \/ FirstTab \/ NextTab \/ ArrowAsCharacter \/ Enter

Spec == Init /\ [][Next]_vars

----------------------------------------------------------------------------
(* What runs is what the screen shows: the words that execute_command gets *)
(* are those after the prompt, through any editing, recalling and          *)
(* completing that does not erase or recall inside the line, delete, leave *)
(* the text to the right, complete an argument that fits nothing, complete *)
(* beyond the buffer, or use a completion left by the line before.         *)
RunsWhatIsShown == ran.clean => ran.args = ran.shown

(* The newest entry of the history is the line entered last, also after    *)
(* the history has filled up and moved (command_readline.c:252-260).       *)
RecallsTheLatest ==
  last_command_idx >= 0 => command_history[last_command_idx] = ran.line
=============================================================================
