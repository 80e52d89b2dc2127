------------------------------- MODULE VgaText -------------------------------
(***************************************************************************)
(* The text display: VGA in src/System/Display, a screen of cells that one *)
(* index runs through from row to row.  Beside the index the driver counts *)
(* lines, and the two agree as long as no line is wider than the screen.   *)
(* Characters are a glyph, the space, the prompt and the control           *)
(* characters; colours are left out.                                       *)
(***************************************************************************)
EXTENDS Integers, Sequences, SequencesExt

CONSTANTS Columns, Rows,    \* of the screen; 80 and 25
          TabWidth          \* spaces to a tab; 5

ASSUME VgaAssumption == {Columns, Rows, TabWidth} \subseteq Nat \ {0}

BlankCell == "blank"        \* a cell that has been cleared
Old == "old"                \* what was on the screen before
Escape == "esc"             \* the control character that erases
TextCells == 0..(Rows * Columns - 1)

VARIABLES
  vga,      \* [cells, pos: BufferSize, line: lineNumber, cursor: the place
            \*  given to the hardware, stray: a write missed the screen]
  text      \* history: [lines: the last lines printed, col: the column in the
            \*  last, wide: a line has been wider than the screen]

(* A write to a cell of the frame buffer, which is not checked.            *)
Stored(v, at, c) ==
  IF at \in TextCells THEN [v EXCEPT !.cells[at] = c] ELSE [v EXCEPT !.stray = TRUE]

ScrolledKeepingLast(cells) ==
  [i \in TextCells |-> IF i + Columns \in TextCells THEN cells[i + Columns] ELSE cells[i]]

Scrolled(cells) ==
  [i \in TextCells |-> IF i + Columns \in TextCells THEN cells[i + Columns] ELSE BlankCell]

Moved(v, at) == [v EXCEPT !.pos = at]

Newline(v) ==
  IF v.line < Rows THEN [Moved(v, Columns * v.line) EXCEPT !.line = @ + 1]
  ELSE [Moved(v, Columns * (Rows - 1)) EXCEPT !.cells = Scrolled(@)]

(* cursor_update, with which each call of print_char ends.                 *)
CursorUpdate(v) == [v EXCEPT !.cursor = ((v.line - 1) * Columns) + (v.pos % Columns)]

Return(v) == Newline([v EXCEPT !.line = @ - 1])

Put(v, c) ==
  IF v.pos < Columns * Rows THEN Moved(Stored(v, v.pos, c), v.pos + 1) ELSE v

Erase(v) == LET w == Moved(v, v.pos - 1) IN Stored(w, w.pos, " ")

Tab == [i \in 1..TabWidth |-> " "]

PrintChar(v, c) ==
  CursorUpdate(CASE c = "\n" -> Newline(v)
                 [] c = "\r" -> Return(v)
                 [] c = "\t" -> FoldLeft(Put, v, Tab)
                 [] c = Escape -> Erase(v)
                 [] OTHER    -> Put(v, c))

(* print_str: its test of each character, 0x20 <= c <= 0x7e, holds always. *)
PrintStr(v, s) == FoldLeft(PrintChar, v, s)

(* clear_screen clears a row less than there are.                          *)
ClearScreen(v) ==
  PrintChar([v EXCEPT !.cells = [i \in TextCells |-> IF i < Columns * (Rows - 1)
                                                 THEN BlankCell ELSE @[i]],
                      !.pos = 0, !.line = 0], "\n")

-----------------------------------------------------------------------------
(***************************************************************************)
(* What a terminal is to show, written without reference to the cells.     *)
(***************************************************************************)
AtMost(lines) == IF Len(lines) > Rows THEN Tail(lines) ELSE lines

PutText(t, c) ==
  LET line == Last(t.lines)
  IN  [lines |-> Append(Front(t.lines),
                        IF t.col < Len(line) THEN [line EXCEPT ![t.col + 1] = c]
                        ELSE Append(line, c)),
       col   |-> t.col + 1,
       wide  |-> t.col >= Columns]

TextAfter(t, c) ==
  IF t.wide THEN t
  ELSE CASE c = "\n" -> [t EXCEPT !.lines = AtMost(Append(@, << >>)), !.col = 0]
         [] c = "\r" -> [t EXCEPT !.col = 0]
         [] c = "\t" -> FoldLeft(PutText, t, Tab)
         [] c = Escape -> [t EXCEPT !.wide = TRUE]
         [] OTHER    -> PutText(t, c)

Wide == [lines |-> << >>, col |-> 0, wide |-> TRUE]

Show(s) ==
  /\ vga' = PrintStr(vga, s)
  /\ text' = LET t == FoldLeft(TextAfter, text, s) IN IF t.wide THEN Wide ELSE t

InitVga ==
  /\ vga = ClearScreen([cells |-> [i \in TextCells |-> Old], pos |-> 0, line |-> 0,
                        cursor |-> 0, stray |-> FALSE])
  /\ text = [lines |-> << << >> >>, col |-> 0, wide |-> FALSE]

-----------------------------------------------------------------------------
(***************************************************************************)
(* Properties.                                                             *)
(***************************************************************************)
(* No write leaves the screen, and index and line count stay in it: what a *)
(* carriage return takes from the count a newline adds again, and nothing  *)
(* is erased that was not typed.                                           *)
StaysOnScreen ==
  /\ ~vga.stray
  /\ vga.line \in 1..Rows
  /\ vga.pos \in 0..(Rows * Columns)
  /\ vga.cursor \in TextCells

(* As long as no line has been wider than the screen, the rows are the     *)
(* last lines printed and the cursor stands where the next character goes, *)
(* except in a line that is full.  Behind the text the rows are blank, but *)
(* for one: the last row when the display was started keeps what was on it.*)
Row(r) == [c \in 1..Columns |-> vga.cells[r * Columns + c - 1]]
LineAt(r) == IF r < Len(text.lines) THEN text.lines[r + 1] ELSE << >>
OldRows == {r \in 0..(Rows - 1) : Old \in Range(Row(r))}

ShowsTheText ==
  ~text.wide =>
    /\ \A r \in 0..(Rows - 1) : \A c \in 1..Columns :
         IF c <= Len(LineAt(r)) THEN Row(r)[c] = LineAt(r)[c]
         ELSE Row(r)[c] \in {BlankCell, Old}
    /\ \A r, q \in OldRows : r = q
    /\ text.col < Columns =>
         vga.cursor = (Len(text.lines) - 1) * Columns + text.col

=============================================================================
