------------------------------ MODULE TermLine ------------------------------
(***************************************************************************)
(* The terminal of the development shell (src/ashell/term-cmd.c): the line *)
(* editor, which keeps the part before the cursor and the part after it in *)
(* one buffer, and what a finished line does: a command, a line of a file  *)
(* that is captured, or a line to evaluate.  Only the commands that change *)
(* how the next lines are taken are told apart, and a line may mean any.   *)
(*                                                                         *)
(* Characters are numbers, in the order they were typed; control           *)
(* characters are negative, and 0 ends a string.  Echo and prompts are     *)
(* left out.                                                               *)
(***************************************************************************)
EXTENDS Integers, Sequences, SequencesExt

CONSTANTS
  TlMax,   \* MAX_LINE
  TlKeys   \* model bound: keys pressed

ASSUME TlAssumption == TlMax \in Nat \ {0} /\ TlKeys \in Nat

VARIABLES
  shellLine,  \* shell_line, indexed from 0
  cur, end,   \* characters before the cursor, and from it on
  before, after, \* history: the same, as a reader of the keyboard would have them
  lineMode,   \* "command", "eval" or "capture"
  ihexMode,   \* kShellTransferIhex is set, and not kShellTransferRaw
  fileCode,   \* file_code: what was written to it, or NoFile
  captured,   \* history: what should have been
  fileFull,   \* history: a write to it took nothing
  termDone,   \* terminal_done
  keys,       \* model bound: keys pressed
  tlFault     \* the undefined behaviour that ended this behaviour, or "none"

tlVars == <<shellLine, cur, end, before, after, lineMode, ihexMode, fileCode, captured, fileFull,
            termDone, keys, tlFault>>
editVars == <<shellLine, cur, end, before, after>>
modeVars == <<lineMode, ihexMode, fileCode, captured, fileFull, termDone>>

NoFile   == <<-9>>
EOL      == -8
CtrlZ    == -1  \* Ctrl+Z or Ctrl+D
CtrlX    == -2  \* Ctrl+X or Ctrl+C
CtrlA    == -3  \* one that means nothing
Controls == {CtrlZ, CtrlX, CtrlA}
TlOk     == tlFault = "none"
EmptyLine == [i \in 0..(TlMax - 1) |-> 0]

\* A byte the terminal is given.  Bytes are processed as long as no command said it is done,
\* and nothing in the shell takes that back.
Key ==
  /\ TlOk /\ ~termDone /\ keys < TlKeys
  /\ keys' = keys + 1
  /\ UNCHANGED tlFault

-----------------------------------------------------------------------------
(***************************************************************************)
(* Editing.                                                                *)
(***************************************************************************)
\* insert_char: the rest of the line moves up.
Inserted(line, at, c, rest) ==
  [i \in DOMAIN line |-> IF i = at THEN c ELSE IF i > at /\ i <= at + rest THEN line[i - 1] ELSE line[i]]

\* del_char: the rest of the line moves down, and its last character stays where it was too.
Deleted(line, at, rest) ==
  [i \in DOMAIN line |-> IF i >= at /\ i < at + rest THEN line[i + 1] ELSE line[i]]

\* terminal_process of a printable byte; there is no room for it once one place is left.
TypeChar ==
  /\ Key
  /\ IF cur + end < TlMax - 1
     THEN /\ shellLine' = Inserted(shellLine, cur, keys + 1, end)
          /\ cur' = cur + 1
          /\ before' = Append(before, keys + 1)
     ELSE UNCHANGED <<shellLine, cur, before>>
  /\ UNCHANGED <<end, after, modeVars>>

Backspace ==
  /\ Key
  /\ cur > 0
  /\ shellLine' = Deleted(shellLine, cur - 1, end)
  /\ cur' = cur - 1
  /\ before' = Front(before)
  /\ UNCHANGED <<end, after, modeVars>>

\* handle_ansi: the arrow keys, with a count; one that is too large moves nothing.
CursorLeft(n) ==
  /\ Key
  /\ n <= cur
  /\ end' = end + n /\ cur' = cur - n
  /\ before' = SubSeq(before, 1, cur - n) /\ after' = SubSeq(before, cur - n + 1, cur) \o after
  /\ UNCHANGED <<shellLine, modeVars>>
CursorRight(n) ==
  /\ Key
  /\ n <= end
  /\ end' = end - n /\ cur' = cur + n
  /\ before' = before \o SubSeq(after, 1, n) /\ after' = SubSeq(after, n + 1, end)
  /\ UNCHANGED <<shellLine, modeVars>>

\* The end of what was received, with an empty line: the buffer is freed, and the next is zeros.
LineFreed ==
  /\ TlOk /\ cur = 0 /\ end = 0 /\ shellLine # EmptyLine
  /\ shellLine' = EmptyLine
  /\ UNCHANGED <<cur, end, before, after, modeVars, keys, tlFault>>

-----------------------------------------------------------------------------
(***************************************************************************)
(* A line is finished.                                                     *)
(***************************************************************************)
\* The string in a buffer, after a 0 was put at "size".
Line(buffer, size) ==
  LET ends == {i \in 0..size : i = size \/ buffer[i] = 0}
      n == CHOOSE i \in ends : \A j \in ends : i <= j
  IN [i \in 1..n |-> buffer[i - 1]]

\* Up to the first control character that means something.
Stops(line) == {i \in DOMAIN line : line[i] \in {CtrlZ, CtrlX}}
FirstStop(line) == CHOOSE i \in Stops(line) : \A j \in Stops(line) : i <= j
Printable(line) == SelectSeq(line, LAMBDA c : c > 0)

\* ashell_raw_capture and ashell_close_capture: what a line adds to the file, the end of the
\* line included unless the capture ends.
Adds(line) ==
  IF Stops(line) # {} THEN Printable(SubSeq(line, 1, FirstStop(line) - 1)) ELSE Append(Printable(line), EOL)

\* ashell_main_state while a file is captured, or lines are evaluated.  When the file takes no
\* more after k characters the rest of the line, its end and what it means are dropped.
TakesLine(line, meant) ==
  \/ /\ lineMode = "capture"
     /\ fileCode # NoFile
     /\ \/ /\ fileCode' = fileCode \o Adds(line)
           /\ lineMode' = IF Stops(line) # {} THEN "command" ELSE lineMode
           /\ UNCHANGED fileFull
        \/ /\ \E k \in 0..(Len(Adds(line)) - 1) : fileCode' = fileCode \o SubSeq(Adds(line), 1, k)
           /\ fileFull' = TRUE
           /\ UNCHANGED lineMode
     /\ captured' = captured \o Adds(meant)
     /\ UNCHANGED <<ihexMode, termDone>>
  \/ /\ lineMode = "eval"
     /\ lineMode' = IF Stops(line) # {} THEN "command" ELSE lineMode
     /\ UNCHANGED <<ihexMode, termDone, fileCode, captured, fileFull>>

\* ashell_read_data: a capture starts, whether its file opens or not; in ihex mode the
\* terminal is done instead, for a reader of Intel HEX that nobody starts.
Load(opens) ==
  /\ ~ihexMode
  /\ lineMode' = "capture"
  /\ fileCode' = IF opens THEN <<>> ELSE NoFile
  /\ captured' = <<>> /\ fileFull' = FALSE
  /\ UNCHANGED <<ihexMode, termDone>>
LoadHex ==
  /\ ihexMode
  /\ termDone' = TRUE
  /\ UNCHANGED <<lineMode, ihexMode, fileCode, captured, fileFull>>
\* ashell_js_immediate_mode; ashell_set_transfer_state; any other command.
Command ==
  /\ \/ lineMode' = "eval" /\ UNCHANGED ihexMode
     \/ ihexMode' \in BOOLEAN /\ UNCHANGED lineMode
  /\ UNCHANGED <<fileCode, captured, fileFull, termDone>>

\* ashell_main_state.
MainState(line, meant) ==
  IF lineMode # "command" THEN TakesLine(line, meant)
  ELSE IF line = <<>> THEN UNCHANGED modeVars
  ELSE Command \/ LoadHex \/ \E opens \in BOOLEAN : Load(opens)

LineDone == cur' = 0 /\ end' = 0 /\ before' = <<>> /\ after' = <<>>

\* Return.
Enter ==
  /\ Key
  /\ shellLine' = [shellLine EXCEPT ![cur + end] = 0]
  /\ MainState(Line(shellLine, cur + end), before \o after)
  /\ LineDone

\* Another control character ends the line too.  It is stored at the cursor, over what was
\* there, and a character of an earlier line follows the rest.
Control(c) ==
  /\ Key
  /\ end = 0 /\ cur < TlMax - 1
  /\ shellLine' = [shellLine EXCEPT ![cur] = c, ![cur + 1] = 0]
  /\ MainState(Line([shellLine EXCEPT ![cur] = c], cur + 1), Append(before, c))
  /\ LineDone
ControlInside(c) ==
  /\ Key
  /\ end > 0 /\ cur + end < TlMax - 1
  /\ shellLine' = [shellLine EXCEPT ![cur] = c, ![cur + 1 + end] = 0]
  /\ LET line == Line([shellLine EXCEPT ![cur] = c], cur + 1 + end) IN MainState(line, line)
  /\ LineDone

\* At the last place the 0 goes after the end of the buffer.
ControlOverflows ==
  /\ TlOk /\ ~termDone /\ keys < TlKeys
  /\ cur + end = TlMax - 1
  /\ tlFault' = "writes after the end of the line"
  /\ keys' = TlKeys /\ shellLine' = EmptyLine /\ LineDone
  /\ UNCHANGED modeVars

\* A line comes for a file that did not open.
CaptureNoFile ==
  /\ TlOk /\ ~termDone /\ keys < TlKeys
  /\ lineMode = "capture" /\ fileCode = NoFile
  /\ tlFault' = "writes to a file that did not open"
  /\ keys' = TlKeys /\ shellLine' = EmptyLine /\ LineDone
  /\ UNCHANGED modeVars

-----------------------------------------------------------------------------
TlInit ==
  /\ shellLine = EmptyLine /\ cur = 0 /\ end = 0 /\ before = <<>> /\ after = <<>>
  /\ lineMode = "command" /\ ihexMode = FALSE /\ fileCode = NoFile /\ captured = NoFile
  /\ fileFull = FALSE
  /\ termDone = FALSE /\ keys = 0 /\ tlFault = "none"

TlNext ==
  \/ TypeChar \/ Backspace \/ LineFreed \/ Enter
  \/ \E n \in 1..2 : CursorLeft(n) \/ CursorRight(n)
  \/ \E c \in Controls : Control(c) \/ ControlInside(c)
  \/ ControlOverflows \/ CaptureNoFile
  \/ (keys = TlKeys \/ termDone) /\ UNCHANGED tlVars

TlSpec == TlInit /\ [][TlNext]_tlVars

-----------------------------------------------------------------------------
(***************************************************************************)
(* Properties.                                                             *)
(***************************************************************************)

\* The buffer holds the line as it was edited, in any order of typing, deleting and moving,
\* with a place left for its end; and a file that is captured holds the lines that were
\* edited while it was, as long as it takes them.
LinesAreAsEdited ==
  /\ cur = Len(before) /\ end = Len(after) /\ cur + end < TlMax
  /\ \A i \in 1..(cur + end) : shellLine[i - 1] = (before \o after)[i]
  /\ fileCode = captured \/ fileCode = NoFile \/ fileFull
=============================================================================
