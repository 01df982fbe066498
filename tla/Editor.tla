-------------------------------- MODULE Editor --------------------------------
(***************************************************************************)
(* The input line of the terminal client (term/event.c): its text, cursor  *)
(* and marker, the commands that processEvents runs on them one after the  *)
(* other, and the undo and redo stacks that mngAct, cmd_undo and cmd_redo  *)
(* keep.  A stack is a sequence, its top first.                            *)
(*                                                                         *)
(* A character is a letter or the space; all take the same number of       *)
(* bytes, so a byte offset is a number of characters, and none is a line   *)
(* feed, which no command inserts.  Texts stay so short that the realloc   *)
(* of cmd_backspace leaves its block where it is.  What pushMessage and    *)
(* gHistoryEventQueue collect for the screen is left out.                  *)
(***************************************************************************)
EXTENDS Integers, Sequences

CONSTANTS
  Chars,   \* what the user types: letters and Space
  MaxKeys  \* bound of the model: the keys pressed

Space == " "

ASSUME EditorAssumption ==
  Chars \subseteq STRING /\ MaxKeys \in Nat

VARIABLES
  node,    \* the MsgNode msgList.curr: text, cursor_pos, marker_pos
  undo,    \* undoStack
  redo,    \* redoStack
  exit,    \* "no", or the command that ended the program: "uninsert"
  keys     \* how many keys have been pressed

vars == <<node, undo, redo, exit, keys>>

Unset == -1  \* the marker_pos of a node without a marker

Motions == {"backward_char", "forward_char", "backward_word", "forward_word",
            "to_beginning_of_line", "to_end_of_line"}
MarkerCommands == {"set_marker", "unset_marker", "toggle_cursor"}
(* What mngAct records; the user types characters, the rest are keys.      *)
Recorded == Motions \cup MarkerCommands \cup {"insert", "backspace"}

(* The seq of an event or an action: no string, a text, or the hexadecimal *)
(* form of a position.                                                     *)
NoSeq == [kind |-> "null", text |-> <<>>, pos |-> 0]
Text(t) == [NoSeq EXCEPT !.kind = "text", !.text = t]
Hex(p) == [NoSeq EXCEPT !.kind = "hex", !.pos = p]

EmptyNode == [text |-> <<>>, cursor |-> 0, marker |-> Unset]

(* An Action and, beside it, the node before and after the commands that   *)
(* it stands for; whole: each of them began where the last one had ended.  *)
(* NULL is the null pointer that mngAct pushes onto an empty stack.        *)
NewAction(c, seq, from, to) ==
  [cmd |-> c, seq |-> seq, cnt |-> 1, from |-> from, to |-> to, whole |-> TRUE]
NULL == [NewAction("NULL", NoSeq, EmptyNode, EmptyNode) EXCEPT !.cnt = 0]

Node == [text : Seq(Chars), cursor : Int, marker : Int]
Action == [cmd : Recorded \cup {"NULL"},
           seq : [kind : {"null", "text", "hex"}, text : Seq(Chars), pos : Int],
           cnt : Nat, from : Node, to : Node, whole : BOOLEAN]

(* The types; and the null pointers that mngAct pushes lie at the bottom   *)
(* of undoStack, where cmd_undo finds them last, and never on redoStack.   *)
TypeOK ==
  /\ node \in Node /\ node.cursor >= -1 /\ node.marker >= Unset
  /\ undo \in Seq(Action) /\ redo \in Seq(Action \ {NULL})
  /\ \A i \in 1 .. Len(undo) - 1 : undo[i] # NULL
  /\ exit \in {"no", "uninsert"}
  /\ keys \in 0 .. MaxKeys

Init ==
  /\ node = EmptyNode
  /\ undo = <<>> /\ redo = <<>>
  /\ exit = "no"
  /\ keys = 0

-----------------------------------------------------------------------------
(* The commands on a node n.                                               *)

(* utf8_byte_offset of a position in a text t.                             *)
Offset(t, pos) == IF pos < 0 THEN 0 ELSE IF pos > Len(t) THEN Len(t) ELSE pos

(* A forward motion compares the int cursor with an unsigned length.       *)
AtOrPastEnd(n) == n.cursor < 0 \/ n.cursor >= Len(n.text)

(* When a command returns NULL before it calls mngAct.                     *)
Refuses(c, n) ==
  \/ c \in {"backward_char", "backward_word", "to_beginning_of_line", "backspace"}
     /\ n.cursor = 0
  \/ c \in {"forward_char", "to_end_of_line"} /\ AtOrPastEnd(n)
  \/ c = "forward_word" /\ n.cursor = Len(n.text)
  \/ c = "set_marker" /\ n.marker # Unset
  \/ c = "unset_marker" /\ n.marker = Unset

(* upd_forward_word and upd_backward_word skip spaces, then a word.  They   *)
(* move a byte offset and the cursor together, so a cursor outside of the  *)
(* text stays as far from the offset; but the offset stays at the final    *)
(* zero, and at 0, before which lies a byte of the allocator that is zero. *)
SpaceAt(t, i) == i \in 1 .. Len(t) /\ t[i] = Space
Least(S) == CHOOSE i \in S : \A j \in S : i <= j
Greatest(S) == CHOOSE i \in S : \A j \in S : i >= j

WordEnd(n) ==
  LET t == n.text
      word == Least({i \in Offset(t, n.cursor) .. Len(t) : ~SpaceAt(t, i + 1)})
      end == Least({i \in word .. Len(t) : i = Len(t) \/ SpaceAt(t, i + 1)})
  IN IF n.cursor > Len(t) THEN n.cursor
     ELSE IF n.cursor < 0 /\ end < Len(t) THEN end - 1 ELSE end

WordStart(n) ==
  LET t == n.text
      from == Offset(t, n.cursor)
      word == Greatest({i \in 0 .. from : ~SpaceAt(t, i)})
      start == Greatest({i \in 0 .. word : i = 0 \/ SpaceAt(t, i)})
  IN IF n.cursor < 0 THEN n.cursor
     ELSE IF start > 0 THEN start + (n.cursor - from) ELSE 0

(* upd_insert: the marker is compared with the cursor already moved.       *)
Insert(n, t) ==
  LET at == Offset(n.text, n.cursor)
      cursor == n.cursor + Len(t)
  IN [text |-> SubSeq(n.text, 1, at) \o t \o SubSeq(n.text, at + 1, Len(n.text)),
      cursor |-> cursor,
      marker |-> IF n.marker >= cursor THEN n.marker + Len(t) ELSE n.marker]

(* Mutant: a redo takes one character, as a key does.                     *)
BackTo_One(n, seq) == IF n.cursor - 1 < 0 THEN 0 ELSE n.cursor - 1

(* How many characters cmd_backspace takes: those of its seq in a redo.    *)
BackTo(n, seq) ==
  LET to == n.cursor - (IF seq = NoSeq THEN 1 ELSE Len(seq.text))
  IN IF to < 0 THEN 0 ELSE to
Deleted(n, seq) ==
  SubSeq(n.text, Offset(n.text, BackTo(n, seq)) + 1, Offset(n.text, n.cursor))

(* cmd_backspace: new_marker_pos is compared with itself and never moves.  *)
Backspace(n, seq) ==
  [n EXCEPT !.text = SubSeq(@, 1, Offset(@, BackTo(n, seq)))
                       \o SubSeq(@, Offset(@, n.cursor) + 1, Len(@)),
            !.cursor = BackTo(n, seq)]

(* What the commands of mngAct do with the node, given the event's seq.    *)
Apply(c, seq, n) ==
  CASE c = "backward_char" -> [n EXCEPT !.cursor = IF @ > 0 THEN @ - 1 ELSE @]
    [] c = "forward_char" ->
         [n EXCEPT !.cursor = IF @ + 1 >= Len(n.text) THEN Len(n.text) ELSE @ + 1]
    [] c = "backward_word" -> [n EXCEPT !.cursor = WordStart(n)]
    [] c = "forward_word" -> [n EXCEPT !.cursor = WordEnd(n)]
    [] c = "to_beginning_of_line" -> [n EXCEPT !.cursor = 0]
    [] c = "to_end_of_line" -> [n EXCEPT !.cursor = Len(n.text)]
    [] c = "insert" -> Insert(n, seq.text)
    [] c = "backspace" -> Backspace(n, seq)
    [] c = "set_marker" ->
         [n EXCEPT !.marker = IF seq = NoSeq THEN n.cursor ELSE seq.pos]
    [] c = "unset_marker" -> [n EXCEPT !.marker = Unset]
    [] c = "toggle_cursor" -> [n EXCEPT !.cursor = n.marker, !.marker = n.cursor]

(* Mutant: a further deleted character is appended to the ones before.     *)
SeqOf_Appends(c, seq, n, old) ==
  CASE c = "insert" -> IF old.cnt > 1 THEN Text(old.seq.text \o seq.text) ELSE seq
    [] c = "backspace" ->
         Text(IF old.cnt > 1 THEN old.seq.text \o Deleted(n, seq) ELSE Deleted(n, seq))
    [] c = "backward_word" -> IF old.cnt > 1 THEN old.seq ELSE Hex(n.cursor)
    [] c \in {"to_beginning_of_line", "to_end_of_line"} -> Hex(n.cursor)
    [] c = "set_marker" -> Hex(Apply(c, seq, n).cursor)
    [] c = "unset_marker" -> Hex(n.marker)
    [] OTHER -> old.seq

(* The seq that the command stores in the action old, which mngAct has     *)
(* made from the event or, with a cnt above 1, has taken off undoStack.    *)
SeqOf(c, seq, n, old) ==
  CASE c = "insert" -> IF old.cnt > 1 THEN Text(old.seq.text \o seq.text) ELSE seq
    [] c = "backspace" ->
         Text(IF old.cnt > 1 THEN Deleted(n, seq) \o old.seq.text ELSE Deleted(n, seq))
    [] c = "backward_word" -> IF old.cnt > 1 THEN old.seq ELSE Hex(n.cursor)
    [] c \in {"to_beginning_of_line", "to_end_of_line"} -> Hex(n.cursor)
    [] c = "set_marker" -> Hex(Apply(c, seq, n).cursor)
    [] c = "unset_marker" -> Hex(n.marker)
    [] OTHER -> old.seq

(* What a command and its complement bring back of a node: insert and      *)
(* backspace do not bring back the marker.                                 *)
Same(c, m, n) ==
  /\ m.text = n.text /\ m.cursor = n.cursor
  /\ c \in {"insert", "backspace"} \/ m.marker = n.marker

-----------------------------------------------------------------------------
(* mngAct and the stacks.  An editor e is a node, an undoStack and how the *)
(* program stands; act is what the command returns.                        *)

Editor == [node |-> node, undo |-> undo, exit |-> exit, act |-> NULL]

Push(a, stack) == <<a>> \o stack

(* mngAct: the last action is of the same command.                         *)
Merges(c, e) == e.undo # <<>> /\ Head(e.undo).cmd = c
(* Mutant: the new action, still NULL, is pushed where the last belongs.   *)
MngAct_PushesNew(c, seq, e) ==
  LET last == Head(e.undo)
      n == Apply(c, seq, e.node)
      old == IF Merges(c, e) THEN [last EXCEPT !.cnt = @ + 1]
                             ELSE NewAction(c, seq, e.node, n)
      cnt == IF c \in {"insert", "backspace"} THEN 1 ELSE old.cnt
  IN [e EXCEPT
       !.node = n,
       !.undo = IF Merges(c, e) THEN Tail(@)
                ELSE IF @ = <<>> THEN <<NULL>> ELSE Push(NULL, Tail(@)),
       !.act = [old EXCEPT !.seq = SeqOf(c, seq, e.node, old), !.cnt = cnt, !.to = n,
                  !.whole = @ /\ (Merges(c, e) => Same(c, last.to, e.node))]]

(* mngAct takes the last action off undoStack when it is of the same       *)
(* command, for the caller to push it again; else it leaves it there, with *)
(* a NULL pushed onto an empty stack.                                      *)
MngAct(c, seq, e) ==
  LET last == Head(e.undo)
      n == Apply(c, seq, e.node)
      old == IF Merges(c, e) THEN [last EXCEPT !.cnt = @ + 1]
                             ELSE NewAction(c, seq, e.node, n)
      cnt == IF c \in {"insert", "backspace"} THEN 1 ELSE old.cnt
  IN [e EXCEPT
       !.node = n,
       !.undo = IF Merges(c, e) THEN Tail(@)
                ELSE IF @ = <<>> THEN <<NULL>> ELSE @,
       !.act = [old EXCEPT !.seq = SeqOf(c, seq, e.node, old), !.cnt = cnt, !.to = n,
                  !.whole = @ /\ (Merges(c, e) => Same(c, last.to, e.node))]]

(* cmd_uninsert exits when the text before the cursor is too short.        *)
Uninsert(seq, e) ==
  LET t == e.node.text
      at == Offset(t, e.node.cursor)
      k == Len(seq.text)
  IN IF at < k THEN [e EXCEPT !.exit = "uninsert"]
     ELSE [e EXCEPT !.node.text = SubSeq(t, 1, at - k) \o SubSeq(t, at + 1, Len(t)),
                    !.node.cursor = @ - k]

(* Mutant: the position is not compared with the length of the text.       *)
GetBack_Anywhere(seq, e) ==
  IF seq.pos >= 0 THEN [e EXCEPT !.node.cursor = seq.pos] ELSE e

(* cmd_get_back_to_line_pos; hex_to_int of a null pointer is 0.            *)
GetBack(seq, e) ==
  IF seq.pos \in 0 .. Len(e.node.text) THEN [e EXCEPT !.node.cursor = seq.pos] ELSE e

(* Any command of comp_cmds, on an event with this seq.                    *)
Run(c, seq, e) ==
  CASE c = "uninsert" -> Uninsert(seq, e)
    [] c = "get_back_to_line_pos" -> GetBack(seq, e)
    [] OTHER -> IF Refuses(c, e.node) THEN [e EXCEPT !.act = NULL] ELSE MngAct(c, seq, e)

RunTimes(k, c, seq, e) ==
  LET run[i \in 0 .. k] == IF i = 0 THEN e ELSE Run(c, seq, run[i - 1])
  IN run[k]

(* comp_cmds.                                                              *)
Complement ==
  [insert |-> "uninsert", backspace |-> "insert",
   forward_char |-> "backward_char", backward_char |-> "forward_char",
   to_beginning_of_line |-> "get_back_to_line_pos",
   to_end_of_line |-> "get_back_to_line_pos",
   backward_word |-> "get_back_to_line_pos",
   forward_word |-> "get_back_to_line_pos",
   toggle_cursor |-> "toggle_cursor",
   set_marker |-> "unset_marker", unset_marker |-> "set_marker"]

-----------------------------------------------------------------------------
(* The keys.                                                               *)

(* The program runs, and takes the next key.                               *)
Pressed ==
  /\ exit = "no"
  /\ keys < MaxKeys /\ keys' = keys + 1

Become(n, u, r, x) == node' = n /\ undo' = u /\ redo' = r /\ exit' = x

(* processEvents with a command other than undo and redo: what it returns  *)
(* goes onto undoStack, and redoStack is cleared.                          *)
Key(c, seq) ==
  LET e == Run(c, seq, Editor)
  IN /\ Pressed
     /\ ~Refuses(c, node)
     /\ Become(e.node, Push(e.act, e.undo), <<>>, e.exit)

TypeChar == \E ch \in Chars : Key("insert", Text(<<ch>>))
DeleteBack == Key("backspace", NoSeq)
Move == \E c \in Motions : Key(c, NoSeq)
Mark == \E c \in MarkerCommands : Key(c, NoSeq)

(* cmd_enter hands the text over and leaves the stacks as they are.        *)
Enter ==
  /\ Pressed /\ node.text # <<>>
  /\ node' = EmptyNode
  /\ UNCHANGED <<undo, redo, exit>>

(* Every recorded command has a complement.  cmd_undo drops what that       *)
(* returns, and with it the action that mngAct has merged into it.  A NULL *)
(* on the stack is only popped.                                            *)
Undo ==
  /\ Pressed /\ undo # <<>>
  /\ LET a == Head(undo)
         e == RunTimes(a.cnt, Complement[a.cmd], a.seq, [Editor EXCEPT !.undo = Tail(@)])
     IN IF a = NULL THEN Become(node, Tail(undo), redo, exit)
        ELSE Become(e.node, e.undo, IF e.exit = "no" THEN Push(a, redo) ELSE redo, e.exit)

(* cmd_redo runs the command itself, in the same way.                      *)
Redo ==
  /\ Pressed /\ redo # <<>>
  /\ LET a == Head(redo)
         e == RunTimes(a.cnt, a.cmd, a.seq, Editor)
     IN Become(e.node, Push(a, e.undo), Tail(redo), e.exit)

Next ==
  TypeChar \/ DeleteBack \/ Move \/ Mark \/ Enter \/ Undo \/ Redo

Spec == Init /\ [][Next]_vars

-----------------------------------------------------------------------------
(* Properties.                                                             *)

InText(n) == n.cursor \in 0 .. Len(n.text)

(* The cursor leaves the text only when cmd_toggle_cursor swaps it with a  *)
(* marker that is not set or has outlived its text.                        *)
CursorLeavesByToggle ==
  [][InText(node) /\ ~InText(node') => node' = [node EXCEPT !.cursor = node.marker,
                                                              !.marker = node.cursor]]_vars

(* cmd_undo of an action brings back what there was before it, whatever    *)
(* was done, undone and merged since, if the node is as the action left    *)
(* it.  Except for cmd_forward_word, whose seq holds no position.          *)
UndoTakesBack ==
  [][Len(redo') > Len(redo) \/ exit' = "uninsert" =>
       LET a == Head(undo)
       IN a.whole /\ a.cmd # "forward_word" /\ InText(a.from) /\ Same(a.cmd, node, a.to)
            => exit' = "no" /\ Same(a.cmd, node', a.from)]_vars

(* cmd_redo of an action does to the node it began with what the commands  *)
(* that it stands for did.                                                 *)
RedoRepeats ==
  [][Len(redo') = Len(redo) - 1 /\ undo' # <<>> /\ Head(undo') = Head(redo) =>
       LET a == Head(redo)
       IN a.whole /\ InText(a.from) /\ Same(a.cmd, node, a.from)
            => Same(a.cmd, node', a.to)]_vars

(* What cmd_uninsert and its comment take for a breakdown: there is not as *)
(* much before the cursor as the insert to be undone had put there.        *)
UndoNeverExits == exit # "uninsert"
=============================================================================
