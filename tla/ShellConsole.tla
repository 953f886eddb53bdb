---------------------------- MODULE ShellConsole ----------------------------
(***************************************************************************)
(* The line editor of the shell (shell.rs) and the text console it echoes  *)
(* to (console.rs): what the user sees and what Enter will run.  A key     *)
(* press is handled to its end in the keyboard handler; the mouse handler  *)
(* writes to the same console when a right click leaves the drawing mode,  *)
(* and draws over it.                                                      *)
(* The screen is a grid of character cells; what is in a cell matters only *)
(* by where it came from.                                                  *)
(***************************************************************************)
EXTENDS Naturals, Sequences

CONSTANTS Rows, Cols,     \* the character cells that fit in the framebuffer
          PromptLengths,  \* lengths of prompt_string: they vary with the working directory
          Outputs,        \* what commands print: sequences of line lengths
          DrawnCells,     \* bound: where commands and the mouse draw
          MaxLine         \* bound: characters in LINE

ASSUME ConsoleAssumption ==
  /\ {Rows, Cols} \subseteq Nat \ {0} /\ MaxLine \in Nat
  /\ PromptLengths \subseteq Nat \ {0} /\ Outputs \subseteq Seq(Nat)
  /\ DrawnCells \subseteq (0..Rows - 1) \X (0..Cols - 1)

VARIABLES
  con,        \* CONSOLE: row and col of the cursor, cells; wiped: history, cleared by a write
  line,       \* the length of LINE
  penOn,      \* drawing_active()
  promptLen,  \* history: the length of the last prompt
  excuse      \* history: what came between the last prompt and now

shellVars == <<con, line, penOn, promptLen, excuse>>

Cells == (0..Rows - 1) \X (0..Cols - 1)
Symbols == {"blank", "prompt", "key", "text", "ink"}
Consoles == [row : Nat, col : 0..Cols, cells : [Cells -> Symbols], wiped : BOOLEAN]
BlankScreen == [row |-> 0, col |-> 0, cells |-> [c \in Cells |-> "blank"], wiped |-> FALSE]

----------------------------------------------------------------------------
(* Console.                                                                *)

Newline(c) == [c EXCEPT !.row = @ + 1, !.col = 0]

Cleared(c) == [BlankScreen EXCEPT !.wiped = TRUE]

\* write_char: wrap at the right border, start afresh below the last row, then the glyph.
WriteChar(c, symbol) ==
  IF symbol = "newline" THEN Newline(c)
  ELSE LET wrapped == IF c.col = Cols THEN Newline(c) ELSE c
           fits == IF wrapped.row >= Rows THEN Cleared(wrapped) ELSE wrapped
       IN [fits EXCEPT !.cells[<<fits.row, fits.col>>] = symbol, !.col = @ + 1]

WriteStr(c, symbols) ==
  LET written[i \in 0..Len(symbols)] ==
        IF i = 0 THEN c ELSE WriteChar(written[i - 1], symbols[i])
  IN written[Len(symbols)]

\* backspace: one cell back and a blank over it, within the row.
ConsoleBackspace(c) ==
  IF c.col = 0 THEN c ELSE [c EXCEPT !.cells[<<c.row, c.col - 1>>] = "blank", !.col = @ - 1]

Repeated(symbol, n) == [i \in 1..n |-> symbol]

\* Lines of the given lengths, one after the other.
TextLines(c, lengths) ==
  LET printed[i \in 0..Len(lengths)] ==
        IF i = 0 THEN c ELSE Newline(WriteStr(printed[i - 1], Repeated("text", lengths[i])))
  IN printed[Len(lengths)]

----------------------------------------------------------------------------
(* The prompt, with the history that belongs to it.                        *)

\* The console from c on with a prompt of n characters, LINE being left with the given length.
Prompted(c, n, left, other) ==
  LET first == [WriteChar(c, "prompt") EXCEPT !.wiped = FALSE]
      done == WriteStr(first, Repeated("prompt", n - 1))
  IN /\ con' = done /\ line' = left /\ promptLen' = n
     /\ excuse' = other \cup (IF done.wiped THEN {"cleared"} ELSE {})

ShellInit ==
  \E n \in PromptLengths :
    LET done == WriteStr(BlankScreen, Repeated("prompt", n))
    IN /\ con = done /\ line = 0 /\ penOn = FALSE /\ promptLen = n
       /\ excuse = IF done.wiped THEN {"cleared"} ELSE {}

----------------------------------------------------------------------------
(* on_char.                                                                *)

TypeChar ==
  /\ line < MaxLine /\ line' = line + 1
  /\ con' = WriteChar([con EXCEPT !.wiped = FALSE], "key")
  /\ excuse' = excuse \cup (IF con'.wiped THEN {"cleared"} ELSE {})
  /\ UNCHANGED <<penOn, promptLen>>

\* Mutant: the screen is erased although there is nothing to take back.
BackspaceAlways ==
  /\ line' = IF line = 0 THEN 0 ELSE line - 1
  /\ con' = ConsoleBackspace(con)
  /\ excuse' = excuse \cup (IF line > 0 /\ con.col = 0 THEN {"wrapped"} ELSE {})
  /\ UNCHANGED <<penOn, promptLen>>

\* A character of LINE is taken back, and one cell of the screen unless the cursor is at the left.
Backspace ==
  /\ line > 0 /\ line' = line - 1
  /\ con' = ConsoleBackspace(con)
  /\ excuse' = excuse \cup (IF con.col = 0 THEN {"wrapped"} ELSE {})
  /\ UNCHANGED <<penOn, promptLen>>

\* run_command, by what it leaves on the console (printed lines, a cleared screen or a drawing),
\* and the prompt after it.
RunCommand(c, n) ==
  \/ \E out \in Outputs : Prompted(TextLines(c, out), n, 0, {})
  \/ Prompted(Cleared(c), n, 0, {})
  \/ \E cell \in DrawnCells : Prompted([c EXCEPT !.cells[cell] = "ink"], n, 0, {})

\* LINE is taken and emptied, and the command runs to its end.  `draw` and `stopdraw` are commands.
Enter ==
  /\ \E n \in PromptLengths : RunCommand(Newline(con), n)
  /\ penOn' \in BOOLEAN

----------------------------------------------------------------------------
(* The mouse handler in drawing mode, between any two key presses.         *)

RightClick ==
  /\ penOn /\ penOn' = FALSE
  /\ \E n \in PromptLengths :
       Prompted(WriteStr(con, <<"newline", "text", "newline">>), n, line,
                IF line > 0 THEN {"reprinted"} ELSE {})

PenStroke ==
  /\ penOn
  /\ \E cell \in DrawnCells : con' = [con EXCEPT !.cells[cell] = "ink"]
  /\ excuse' = excuse \cup {"drawn over"}
  /\ UNCHANGED <<line, penOn, promptLen>>

ShellNext == TypeChar \/ Backspace \/ Enter \/ RightClick \/ PenStroke

ShellSpec == ShellInit /\ [][ShellNext]_shellVars

----------------------------------------------------------------------------
\* The row may be below the screen: newlines do not clear it, the next glyph does.
ShellTypeOK ==
  /\ con \in Consoles
  /\ line \in 0..MaxLine /\ penOn \in BOOLEAN /\ promptLen \in PromptLengths
  /\ excuse \subseteq {"wrapped", "cleared", "reprinted", "drawn over"}

\* The symbol k cells before the cursor of a console, in reading order.
CellBefore(c, k) ==
  LET index == c.row * Cols + c.col - k
  IN IF index \in 0..Rows * Cols - 1 THEN c.cells[<<index \div Cols, index % Cols>>] ELSE "blank"

\* What the user sees in front of the cursor is the prompt and after it exactly the characters that
\* Enter will run, however they were typed, wrapped and taken back.  The exceptions: backspace
\* across a wrapped row (console.rs:103-109 leaves the character standing), a screen that filled up
\* and was cleared on the way, a prompt printed by a right click in the middle of a line that LINE
\* keeps, and drawing over the text.
EchoIsTheLine ==
  excuse = {} =>
    /\ \A k \in 1..line : CellBefore(con, k) = "key"
    /\ \A k \in line + 1..line + promptLen : CellBefore(con, k) = "prompt"
=============================================================================
