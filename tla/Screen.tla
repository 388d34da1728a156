------------------------------- MODULE Screen -------------------------------
(***************************************************************************)
(* The screen: video memory as drivers/vga.c writes it and the cursor of   *)
(* drivers/console.c, as operators on [cell, x, y].  The cursor's fields   *)
(* are bytes; a row that is not on the screen is outside of video memory's *)
(* first page and cannot be seen.  Attributes are left out.                *)
(***************************************************************************)
EXTENDS Naturals, Sequences, SequencesExt

CONSTANTS Rows,      \* VGA_NUM_ROWS
          Cols,      \* VGA_NUM_COLS
          CursRange, \* 2^8, for curs_y
          TabWidth   \* TAB_WIDTH

ASSUME ScreenAssumption == /\ {Rows, Cols, TabWidth} \subseteq Nat \ {0}
                           /\ CursRange \in Nat /\ CursRange > Rows

Blank  == " "
Blanks(n) == [i \in 1 .. n |-> Blank]

(* vga_clear, and the cursor at the top. *)
ClearScreen == [cell |-> Blanks(Rows * Cols), x |-> 0, y |-> 0]

(* vga_scroll_down and vga_clear_row of the undermost row. *)
ScrollDown(cell) == SubSeq(cell, Cols + 1, Rows * Cols) \o Blanks(Cols)

(* vga_writec_attr_xy *)
WriteC(s, c) ==
  LET idx == s.y * Cols + s.x
  IN  [s EXCEPT !.cell = IF idx < Rows * Cols THEN ReplaceAt(@, idx + 1, c) ELSE @]

(* Mutant: the cursor stays behind the last row. *)
LineFeedOneMore(s) ==
  LET y == (s.y + 1) % CursRange
  IN  IF y = Rows + 1
      THEN [cell |-> ScrollDown(s.cell), x |-> 0, y |-> Rows]
      ELSE [s EXCEPT !.x = 0, !.y = y]

LineFeed(s) ==
  LET y == (s.y + 1) % CursRange
  IN  IF y = Rows
      THEN [cell |-> ScrollDown(s.cell), x |-> 0, y |-> Rows - 1]
      ELSE [s EXCEPT !.x = 0, !.y = y]

CursForward(s) ==
  IF s.x + 1 = Cols THEN LineFeed(s) ELSE [s EXCEPT !.x = @ + 1]

CursBackward(s) ==
  IF s.x = 0 THEN [s EXCEPT !.x = Cols - 1, !.y = (@ + CursRange - 1) % CursRange]
  ELSE [s EXCEPT !.x = @ - 1]

PutcAttr(s, c) == CursForward(WriteC(s, c))

(* _putc of what is printed: '\b', '\r' and 127, with which only the user  *)
(* edits a line, are left out.                                             *)
Putc(s, c) == CASE c = "\n" -> LineFeed(s)
                [] c = "\t" -> FoldLeft(PutcAttr, s, Blanks(TabWidth))
                [] OTHER -> PutcAttr(s, c)

(* console_puts *)
Puts(s, str) == FoldLeft(Putc, s, str)

(* What _del_ibuf does to the screen. *)
Rubout(s) == CursBackward(PutcAttr(CursBackward(s), Blank))

OnScreen(s) == s.y < Rows
=============================================================================
