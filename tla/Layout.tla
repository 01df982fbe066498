-------------------------------- MODULE Layout --------------------------------
(***************************************************************************)
(* What the terminal client draws after every event (main.c reDraw): from  *)
(* the bottom up the minibuffer, the input line and the messages, each     *)
(* measured by calc_display_size and wrapped once more by display_wrapped, *)
(* which has a rule of its own for the end of a row (iface.c).             *)
(*                                                                         *)
(* Rows and columns of the screen count from 0.  A text is a sequence of   *)
(* characters, of which only the newline is told apart; the input line has *)
(* none, for no key inserts one.  Everything is written into one buffer,   *)
(* where what is written later hides what is under it: the input line,     *)
(* then the lines around it, then frame by frame the messages.  Of the     *)
(* minibuffer, which is written before, only the height counts.  Colours   *)
(* are left out.                                                           *)
(***************************************************************************)
EXTENDS Integers, Sequences

CONSTANTS
  Characters,    \* the characters of texts, but for the newline
  vert, margin,  \* the column of the vertical line, and a margin
  Windows,       \* the sizes of the window, as records of rows and cols
  Lines,         \* input lines, as records of text and cursor_pos
  Texts,         \* texts of messages
  MiniRows,      \* heights of the minibuffer
  MaxMessages    \* bound of the model

Newline == "newline"

(* No key puts a newline into the input line, and a cursor that toggling   *)
(* has moved may be out of the text.                                       *)
ASSUME LayoutAssumption ==
  /\ Newline \notin Characters
  /\ vert \in Nat /\ margin \in Nat
  /\ Windows \subseteq [rows : Nat, cols : Nat]
  /\ Lines \subseteq [text : Seq(Characters), cursor_pos : Int]
  /\ Texts \subseteq Seq(Characters \cup {Newline})
  /\ MiniRows \subseteq Nat

VARIABLES
  win,           \* win_rows and win_cols, which the buffers have as well
  curr,          \* msgList.curr
  messages,      \* the other messages, the oldest first
  mb_need_rows,  \* the height of the minibuffer
  screen         \* what the last reDraw has drawn

vars == <<win, curr, messages, mb_need_rows, screen>>

-----------------------------------------------------------------------------
(* iface.c.                                                                *)

(* Mutant: a row is full when its last column is exceeded.                 *)
RowEnds_Late(ch, col, max_width) == ch = Newline \/ col + 1 > max_width

(* The character ch in column col is the last of its row.                  *)
RowEnds(ch, col, max_width) == ch = Newline \/ col + 1 >= max_width

(* The place, a row from 1 and a column, behind that of the character ch.  *)
NextPlace(p, ch, max_width) ==
  IF RowEnds(ch, p[2], max_width) THEN <<p[1] + 1, 0>> ELSE <<p[1], p[2] + 1>>

(* The places of every character and of the terminator behind them.        *)
Places(text, max_width) ==
  LET place[i \in 0 .. Len(text)] ==
        IF i = 0 THEN <<1, 0>> ELSE NextPlace(place[i - 1], text[i], max_width)
  IN place

(* The rows needed, of which the terminator may begin one more, and the    *)
(* place of the cursor.                                                    *)
calc_display_size(text, max_width, cursor_pos) ==
  LET place == Places(text, max_width)
      end == place[Len(text)]
      In(pos) == pos \in 0 .. Len(text)
  IN [need_rows |-> IF RowEnds("", end[2], max_width) THEN end[1] + 1 ELSE end[1],
      row |-> IF In(cursor_pos) THEN place[cursor_pos][1] ELSE 0,
      col |-> IF In(cursor_pos) THEN place[cursor_pos][2] ELSE 0]

(* A view is where display_wrapped draws: behind which row of the window   *)
(* win, from which column, how many columns and rows, behind which row of  *)
(* the text.  The variables of its loop: row and col in the text, scr_row  *)
(* and scr_col on the screen, how many characters were read.               *)
inc_rel_row(view, s) ==
  LET row == s.row + 1
      shown == row > view.from_row
  IN [s EXCEPT !.row = row, !.col = 0,
               !.scr_row = IF shown THEN view.abs_y + row - view.from_row ELSE @,
               !.scr_col = IF shown THEN view.abs_x ELSE @]

OnScreen(w, s) == s.scr_row \in 0 .. w.rows - 1 /\ s.scr_col \in 0 .. w.cols - 1

(* A character, or the terminator, written into a row that is not skipped, *)
(* in turn pos of the loop, by which the cursor is recognised.             *)
Put(view, s, pos) ==
  IF s.row <= view.from_row THEN s
  ELSE [s EXCEPT !.scr_col = @ + 1,
                 !.cells = IF OnScreen(view.win, s)
                           THEN @ \cup {[pos |-> pos, char |-> s.char,
                                         row |-> s.scr_row, col |-> s.scr_col]}
                           ELSE @]

(* However much is left of the row, fullfiller fills one cell, since it    *)
(* does not go on on the screen: for a newline that of the newline, at the *)
(* end the one behind the terminator.                                      *)
fullfiller(view, s, pos) == IF s.col <= view.max_width THEN Put(view, s, pos) ELSE s

Show(view, text, s, pos) ==
  IF s.row > view.max_rows + view.from_row THEN [s EXCEPT !.done = TRUE]
  ELSE IF s.char = Len(text) THEN [Put(view, s, pos) EXCEPT !.done = TRUE]
  ELSE IF text[s.char + 1] = Newline
  THEN [inc_rel_row(view, fullfiller(view, s, pos)) EXCEPT !.char = @ + 1]
  ELSE [Put(view, s, pos) EXCEPT !.col = @ + 1, !.char = @ + 1]

(* A row that is full is left before the next character is read.           *)
LeaveRow(view, s) == IF s.col >= view.max_width THEN inc_rel_row(view, s) ELSE s

(* A turn that begins outside of the screen does nothing at all, not even  *)
(* go on in text.                                                          *)
Turn(view, text, s, pos) ==
  IF s.done \/ ~OnScreen(view.win, s) THEN s ELSE Show(view, text, LeaveRow(view, s), pos)

Turns(view, text) ==
  LET after[turns \in 0 .. Len(text) + 1] ==
        IF turns = 0
        THEN inc_rel_row(view, [row |-> 0, col |-> 0, scr_row |-> 0, scr_col |-> 0,
                                char |-> 0, cells |-> {}, done |-> FALSE])
        ELSE Turn(view, text, after[turns - 1], turns - 1)
  IN after

(* The cells that it writes: with which character of text, the terminator  *)
(* being the last, and a filler behind it; and in which turn.              *)
display_wrapped(view, text) ==
  LET s == Turns(view, text)[Len(text) + 1]
      pos == Len(text) + 1
  IN IF s.col = 0 THEN s.cells ELSE fullfiller(view, [s EXCEPT !.char = pos], pos).cells

(* Places of the screen; what is outside of it is not written.             *)
Screen(w) == (0 .. w.rows - 1) \X (0 .. w.cols - 1)
drawHorizontalLine(w, x, y, cols) == ({y} \X (x .. x + cols - 1)) \cap Screen(w)
drawVerticalLine(w, x, y, rows) == ((y .. y + rows - 1) \X {x}) \cap Screen(w)

(* The frame, and the text between its two horizontal lines.               *)
display_message_with_frame(w, text, x, y, max_width) ==
  LET rel_max_width == max_width - 4
      rows == calc_display_size(text, rel_max_width, 0).need_rows
      border ==
        (UNION {drawHorizontalLine(w, x, row, max_width) : row \in {y, y + rows + 1}})
          \cup (UNION {drawVerticalLine(w, col, y + 1, rows) : col \in {x, x + max_width - 1}})
      view == [win |-> w, abs_x |-> x + 2, abs_y |-> y, from_row |-> 0,
               max_width |-> rel_max_width, max_rows |-> rows]
  IN [text |-> text, x |-> x + 2, y |-> y, width |-> rel_max_width,
      rows |-> IF rel_max_width <= 0 THEN 0 ELSE rows,
      border |-> IF rel_max_width <= 0 THEN {} ELSE border,
      cells |-> IF rel_max_width <= 0 THEN {} ELSE display_wrapped(view, text)]

-----------------------------------------------------------------------------
(* main.c reDraw.                                                          *)

(* Division of C, which rounds towards zero.                               *)
Half(a) == IF a >= 0 THEN a \div 2 ELSE -((-a) \div 2)

(* The input line: at most half of the rows above the minibuffer, and      *)
(* those of its rows among which the cursor is.                            *)
InputWidth(w) == w.cols - vert - 5
InputBottom(w, mb) == w.rows - mb - 2
Input(w, line, mb) ==
  LET size == calc_display_size(line.text, InputWidth(w), line.cursor_pos)
      bottom == InputBottom(w, mb)
      max_ib_rows == Half(bottom)
      tooLong == size.need_rows > max_ib_rows
      rows == IF tooLong THEN max_ib_rows ELSE size.need_rows
      from_row == IF tooLong /\ size.row > max_ib_rows THEN size.row - max_ib_rows ELSE 0
      up == bottom - rows
  IN [up |-> up, rows |-> rows, from_row |-> from_row, cursor |-> size,
      cells |-> display_wrapped([win |-> w, abs_x |-> vert + 3, abs_y |-> up,
                                 from_row |-> from_row, max_width |-> InputWidth(w),
                                 max_rows |-> rows], line.text)]

(* The messages, the oldest at the bottom, as long as there is room.  Each *)
(* is given the rows that it needs at a greater width than its frame has.  *)
OutputWidth(w) == w.cols - vert - 2 * margin
NeedsRows(w, text) == calc_display_size(text, OutputWidth(w), 0).need_rows
Frame(w, text, ob_bottom) ==
  display_message_with_frame(w, text, vert + 2, ob_bottom - NeedsRows(w, text),
                             OutputWidth(w) - vert - 2)
AddFrame(w, d, text) ==
  LET rows == NeedsRows(w, text)
  IN IF d.ob_bottom <= 0 THEN d
     ELSE [ob_bottom |-> IF rows <= d.ob_bottom THEN d.ob_bottom - rows - 3 ELSE 0,
           frames |-> Append(d.frames, Frame(w, text, d.ob_bottom))]
DrawnAbove(w, up, msgs) ==
  LET drawn[i \in 0 .. Len(msgs)] ==
        IF i = 0 THEN [ob_bottom |-> up - 3, frames |-> <<>>]
        ELSE AddFrame(w, drawn[i - 1], msgs[i])
  IN drawn
Output(w, up, msgs) == DrawnAbove(w, up, msgs)[Len(msgs)].frames

(* The line above the input line, and the vertical one beside it.          *)
InputLines(w, up, rows) ==
  drawHorizontalLine(w, vert, up - 1, w.cols - vert)
    \cup drawVerticalLine(w, vert, 0, up + rows + 2)

(* What is written, in this order.                                         *)
reDraw(w, line, mb, msgs) ==
  LET input == Input(w, line, mb)
  IN [input |-> input, lines |-> InputLines(w, input.up, input.rows),
      frames |-> Output(w, input.up, msgs)]

(* need_redraw is set from the start.                                      *)
Init ==
  /\ win \in Windows /\ mb_need_rows \in MiniRows
  /\ curr = [text |-> <<>>, cursor_pos |-> 0] /\ messages = <<>>
  /\ screen = reDraw(win, curr, mb_need_rows, messages)

(* Every round of the loop that a key, the server or a change of the       *)
(* window has woken draws everything again, the minibuffer as high as what *)
(* has just happened makes it.                                             *)
Draw ==
  /\ mb_need_rows' \in MiniRows
  /\ screen' = reDraw(win', curr', mb_need_rows', messages')

Edit == curr' \in Lines /\ UNCHANGED <<win, messages>> /\ Draw

pushMessage ==
  /\ Len(messages) < MaxMessages
  /\ \E text \in Texts : messages' = Append(messages, text)
  /\ UNCHANGED <<win, curr>> /\ Draw

upd_win_size == win' \in Windows /\ UNCHANGED <<curr, messages>> /\ Draw

Next == Edit \/ pushMessage \/ upd_win_size

Spec == Init /\ [][Next]_vars

-----------------------------------------------------------------------------
(* Properties.                                                             *)

(* Where the frames are written, from the n-th one on.                     *)
Framed(n) ==
  UNION {screen.frames[m].border \cup {<<c.row, c.col>> : c \in screen.frames[m].cells} :
           m \in n .. Len(screen.frames)}

(* A frame has at most two rows more than it is given, so that it ends     *)
(* before what is below it: it is placed with three rows to spare.         *)
Roomy(f) == f.rows <= NeedsRows(win, f.text) + 2

(* No cell is written again, neither of itself nor later.                  *)
Seen(cells, later) ==
  \A c \in cells :
    /\ <<c.row, c.col>> \notin later
    /\ \A d \in cells : d.row = c.row /\ d.col = c.col => d = c

(* The input line stays between its line and the minibuffer, and the       *)
(* cursor is on the screen, on the character that it stands before, in the *)
(* row and the column that were calculated for it.  Nothing is drawn over  *)
(* any of it as long as every frame is roomy.                              *)
InputInPlace ==
  LET i == screen.input
      rows == i.up + 1 .. i.up + i.rows
  IN InputWidth(win) > 0 /\ InputBottom(win, mb_need_rows) >= 2 =>
       /\ \A c \in i.cells : c.pos = c.char /\ c.row \in rows /\ c.col < win.cols
       /\ curr.cursor_pos \in 0 .. Len(curr.text) =>
            \E c \in i.cells : /\ c.char = curr.cursor_pos
                               /\ c.row = i.up + i.cursor.row - i.from_row
                               /\ c.col = vert + 3 + i.cursor.col
       /\ Seen(i.cells, screen.lines)
       /\ (\A n \in 1 .. Len(screen.frames) : Roomy(screen.frames[n])) =>
            Seen(i.cells, Framed(1))

(* A message whose frame is on the screen stands in it, complete, and no   *)
(* frame is drawn over it as long as those above it are roomy.             *)
MessagesInPlace ==
  \A n \in 1 .. Len(screen.frames) :
    LET f == screen.frames[n]
    IN f.width > 0 /\ f.y >= -1 /\ f.y + f.rows < win.rows =>
         /\ \A c \in f.cells : c.row \in f.y + 1 .. f.y + f.rows
                              /\ c.col \in f.x .. f.x + f.width
         /\ 0 .. Len(f.text) - 1 \subseteq {c.char : c \in f.cells}
         /\ (\A m \in n + 1 .. Len(screen.frames) : Roomy(screen.frames[m])) =>
              Seen(f.cells, Framed(n + 1))

(* calc_display_size and display_wrapped agree: whatever the window, the   *)
(* text and the cursor, the input line and the messages are drawn in the   *)
(* room that was calculated for them, and the cursor is drawn.  In the one *)
(* buffer they stay to be seen when no frame needs three rows more than it *)
(* is given; one that does is drawn over the input line or a message below.*)
DrawnInPlace == InputInPlace /\ MessagesInPlace
=============================================================================
