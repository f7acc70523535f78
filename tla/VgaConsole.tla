----------------------------- MODULE VgaConsole -----------------------------
(***************************************************************************)
(* VgaWriter (shared/src/vga.rs): text written to a screen of ROWS by COLS *)
(* cells that scrolls by one line when it is full.  The reference is an    *)
(* endless sheet of paper on which the same text is written without ever   *)
(* scrolling.  The sheet's length bounds the model.                        *)
(***************************************************************************)
EXTENDS Integers

CONSTANTS
  ROWS, COLS,
  Ascii,        \* printable characters
  Paper         \* bound: cells on the sheet

ASSUME ScreenAssumption ==
  /\ ROWS \in Nat \ {0, 1} /\ COLS \in Nat \ {0}
  /\ Paper \in Nat
  /\ "newline" \notin Ascii /\ "other" \notin Ascii

Size == ROWS * COLS
Cells == 0 .. (Size - 1)
Blank == "blank"        \* character 0

VARIABLES
  vmem,      \* the characters on the screen
  offset,    \* where the next one goes
  sheet,     \* the reference: characters on the paper
  pen,       \* where the next one goes there
  consolePanic

consoleVars == <<vmem, offset, sheet, pen, consolePanic>>

\* VgaWriter::new clears the screen.
ConsoleInit ==
  /\ vmem = [i \in Cells |-> Blank] /\ offset = 0
  /\ sheet = [i \in 0 .. (Paper - 1) |-> Blank] /\ pen = 0
  /\ consolePanic = "no"

\* scroll(1): copy the lines up, clear the last one, move the offset.
Up_keepLast == [i \in Cells |-> IF i + COLS \in Cells THEN vmem[i + COLS] ELSE vmem[i]]
Up == [i \in Cells |-> IF i + COLS \in Cells THEN vmem[i + COLS] ELSE Blank]
ScrolledOffset(o) == IF o < COLS THEN 0 ELSE o - COLS

Newline(o) == ((o + COLS) \div COLS) * COLS
Glyph(c) == IF c \in Ascii THEN c ELSE "?"

\* One iteration of write_str's loop.
WriteChar(c) ==
  LET full == offset >= Size
      o    == IF full THEN ScrolledOffset(offset) ELSE offset
      m    == IF full THEN Up ELSE vmem
      fits == o < Size
  IN  /\ consolePanic = "no"
      /\ consolePanic' = IF fits THEN "no" ELSE "assert"
      /\ vmem' = IF fits /\ c # "newline" THEN [m EXCEPT ![o] = Glyph(c)] ELSE m
      /\ offset' = IF ~fits THEN o ELSE IF c = "newline" THEN Newline(o) ELSE o + 1

\* The same character on the paper: a new line starts at the next multiple of COLS.
WriteOnPaper(c) ==
  /\ pen + COLS < Paper
  /\ IF c = "newline"
     THEN /\ pen' = CHOOSE p \in (pen + 1) .. (pen + COLS) : p % COLS = 0
          /\ UNCHANGED sheet
     ELSE pen' = pen + 1 /\ sheet' = [sheet EXCEPT ![pen] = IF c = "other" THEN "?" ELSE c]

Write(c) == WriteChar(c) /\ WriteOnPaper(c)

\* The panic handler's own VgaWriter::new; the sheet is replaced too.
NewWriter ==
  /\ consolePanic = "no"
  /\ vmem' = [i \in Cells |-> Blank] /\ offset' = 0
  /\ sheet' = [i \in DOMAIN sheet |-> Blank] /\ pen' = 0
  /\ UNCHANGED consolePanic

ConsoleNext == (\E c \in Ascii \cup {"newline", "other"} : Write(c)) \/ NewWriter

ConsoleSpec == ConsoleInit /\ [][ConsoleNext]_consoleVars

(***************************************************************************)
(* Properties                                                              *)
(***************************************************************************)

\* The screen is a window on the paper that starts at a line, the highest that
\* still leaves the pen within it or right below it, and shows exactly what is
\* written there: no scrolling, wrapping or newline loses, repeats or leaves
\* behind a character.
ShowsLatestLines ==
  LET start == pen - offset
  IN  /\ offset \in 0 .. Size
      /\ start % COLS = 0
      /\ start = 0 \/ (start > 0 /\ offset > Size - COLS)
      /\ \A i \in Cells :
           vmem[i] = IF start + i \in DOMAIN sheet THEN sheet[start + i] ELSE Blank

\* write_str's assertion: after scrolling there is room for the character, so
\* nothing is written outside the screen's memory.
AssertHolds == consolePanic = "no"
==============================================================================
