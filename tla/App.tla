---------------------------------- MODULE App ----------------------------------
(***************************************************************************)
(* The SDL application (App, Dialog, TextField, Player): frames of polled  *)
(* events, an update of the players and a drawing.  Keys go to the players *)
(* or, while it is open, to a dialog with a text field.                    *)
(*                                                                         *)
(* SDL's queue stands between the keyboard and the program.  A key that    *)
(* types puts a KEYDOWN and, while text input is on, a TEXTINPUT into it.  *)
(* The text field holds bytes of UTF-8: a key types the space or a letter, *)
(* of one byte or of two, and the font, monospaced, is asked for the width *)
(* of as many characters as there are bytes (TTF_SizeText reads Latin-1).  *)
(* Where the figures are, and mouse buttons that only print a line, are    *)
(* left out.                                                               *)
(***************************************************************************)
EXTENDS Integers, Sequences, SequencesExt

CONSTANTS
  Width,     \* the width of the text field, in characters of the font
  MaxText,   \* bound of the model: no key types when there are more bytes
  MaxQueue   \* bound of the model: the events in SDL's queue

ASSUME AppAssumption == Width \in Nat /\ MaxText \in Nat /\ MaxQueue \in Nat

Players == {"Player1", "Player2"}
(* One of the four controlKeys of each, with the direction that it means.  *)
controlKeys == [Player1 |-> {"w"}, Player2 |-> {"k"}]
Controls == UNION {controlKeys[p] : p \in Players}
Directions == <<"up", "left", "down", "right">>
Means == [w |-> "up", k |-> "down"]

(* The bytes of the text of a TEXTINPUT: isspace is true of Space only.    *)
Letter == "x"
Space == " "
Lead == "lead"
Trail == "trail"
Bytes == {Letter, Space, Lead, Trail}
Typed == [key \in Controls \cup {"g", "space", "ya"} |->
            CASE key = "space" -> <<Space>>
              [] key = "ya" -> <<Lead, Trail>>
              [] OTHER -> <<Letter>>]

VARIABLES
  held,            \* the control keys that the user holds down
  queue,           \* SDL's queue
  textInput,       \* whether SDL turns keys into TEXTINPUT
  m_running, m_dialogActive,
  active,          \* of the dialog
  focused, lines,  \* of its text field
  activeKeys,      \* of each player
  direction,       \* of each player's figure
  pc,              \* "events", "update", "draw", "stopped", "crashed"
  text,            \* the bytes typed into the field (history)
  lost             \* the control keys last seen by the dialog (history)

dialogVars == <<textInput, m_dialogActive, active, focused, lines, text>>
playerVars == <<activeKeys, direction>>
vars == <<held, queue, m_running, pc, lost, dialogVars, playerVars>>

EventType == {"down", "up", "text", "button", "quit"}
Event(type, key) == [type |-> type, key |-> key]

(* The types; an open dialog has the text input, and a player goes only by *)
(* keys of its own.                                                        *)
TypeOK ==
  /\ held \subseteq Controls /\ lost \subseteq Controls
  /\ \A n \in 1 .. Len(queue) : queue[n].type \in EventType
  /\ {textInput, m_running, m_dialogActive, active, focused} \subseteq BOOLEAN
  /\ m_dialogActive => active /\ focused /\ textInput
  /\ lines \in Seq(Seq(Bytes)) /\ text \in Seq(Bytes)
  /\ \A p \in Players : activeKeys[p] \subseteq controlKeys[p]
  /\ direction \in [Players -> {"none"} \cup {Directions[n] : n \in 1 .. 4}]
  /\ pc \in {"events", "update", "draw", "stopped", "crashed"}

(* SDL_Init turns text input on.                                           *)
Init ==
  /\ held = {} /\ queue = <<>> /\ textInput = TRUE
  /\ m_running = TRUE /\ m_dialogActive = FALSE
  /\ active = FALSE /\ focused = FALSE /\ lines = <<>> /\ text = <<>>
  /\ activeKeys = [p \in Players |-> {}] /\ direction = [p \in Players |-> "none"]
  /\ pc = "events" /\ lost = {}

-----------------------------------------------------------------------------
(* The text field.                                                         *)

NotEmpty(s) == IF s = <<>> THEN <<>> ELSE <<s>>

(* splitString: words, and each space by itself.                           *)
splitString(input) ==
  LET step(acc, ch) ==
        IF ch = Space THEN [result |-> acc.result \o NotEmpty(acc.current) \o <<<<ch>>>>,
                            current |-> <<>>]
        ELSE [acc EXCEPT !.current = Append(@, ch)]
      end == FoldLeft(step, [result |-> <<>>, current |-> <<>>], input)
  IN end.result \o NotEmpty(end.current)

(* Mutant: what does not fit is not kept for the next line.               *)
wrapSplitted_Drops(input) ==
  LET step(acc, element) ==
        IF Len(acc.curr \o element) < Width THEN [acc EXCEPT !.curr = @ \o element]
        ELSE [result |-> acc.result \o NotEmpty(acc.curr), curr |-> <<>>]
      end == FoldLeft(step, [result |-> <<>>, curr |-> <<>>], input)
  IN end.result \o NotEmpty(end.curr)

(* wrapSplitted; a line feed is never typed.                               *)
wrapSplitted(input) ==
  LET step(acc, element) ==
        IF Len(acc.curr \o element) < Width THEN [acc EXCEPT !.curr = @ \o element]
        ELSE [result |-> acc.result \o NotEmpty(acc.curr), curr |-> element]
      end == FoldLeft(step, [result |-> <<>>, curr |-> <<>>], input)
  IN end.result \o NotEmpty(end.curr)

joinStrings(lst) == FlattenSeq(lst)

(* SDLK_BACKSPACE takes one byte, of a letter of two the second.  Lines    *)
(* are not wrapped again.  A last line that is empty is taken away, but    *)
(* the first one only by a further backspace.                              *)
Backspaced ==
  IF lines = <<>> THEN lines
  ELSE IF Last(lines) = <<>> \/ (Len(Last(lines)) = 1 /\ Len(lines) > 1) THEN Front(lines)
  ELSE Append(Front(lines), Front(Last(lines)))

-----------------------------------------------------------------------------
(* processEvents.                                                          *)

(* What SDL_StopTextInput leaves of a queue.                               *)
WithoutTexts(events) ==
  LET step(kept, e) == IF e.type = "text" THEN kept ELSE Append(kept, e)
  IN FoldLeft(step, <<>>, events)

Dequeued == queue' = Tail(queue)
Polled(type) == pc = "events" /\ queue # <<>> /\ Head(queue).type = type
Key == Head(queue).key
Seen == lost' = lost \ {Key}
SeenByDialog == lost' = lost \cup ({Key} \cap Controls)

Quit ==
  /\ Polled("quit") /\ m_running' = FALSE
  /\ Dequeued /\ UNCHANGED <<held, pc, lost, dialogVars, playerVars>>

(* Mutant: the first listener that is found takes the event.              *)
sendEvent_First(pressed) ==
  activeKeys' = [activeKeys EXCEPT !["Player1"] =
                   IF Key \notin controlKeys["Player1"] THEN @
                   ELSE IF pressed THEN @ \cup {Key} ELSE @ \ {Key},
                 !["Player2"] = IF Key = "k" /\ pressed THEN @ \cup {Key} ELSE @]

(* sendEvent: every player hears of the key, and knows its own.            *)
sendEvent(pressed) ==
  activeKeys' = [p \in Players |->
                   IF Key \notin controlKeys[p] THEN activeKeys[p]
                   ELSE IF pressed THEN activeKeys[p] \cup {Key} ELSE activeKeys[p] \ {Key}]

KeyToPlayers ==
  /\ ~m_dialogActive /\ (Polled("down") \/ Polled("up"))
  /\ Key # "g"
  /\ sendEvent(Head(queue).type = "down")
  /\ Seen /\ Dequeued /\ UNCHANGED <<held, m_running, pc, dialogVars, direction>>

(* The key g: Dialog::show and setFocus.                                   *)
OpenDialog ==
  /\ ~m_dialogActive /\ Polled("down") /\ Key = "g"
  /\ m_dialogActive' = TRUE /\ active' = TRUE
  /\ focused' = TRUE /\ textInput' = TRUE
  /\ Dequeued /\ UNCHANGED <<held, m_running, pc, lost, lines, text, playerVars>>

(* Nobody asks for a TEXTINPUT while the dialog is closed.                 *)
TextToNobody ==
  /\ ~m_dialogActive /\ Polled("text")
  /\ Dequeued /\ UNCHANGED <<held, m_running, pc, lost, dialogVars, playerVars>>

(* A button that is none of the three: the function returns, and leaves    *)
(* the rest of the queue to the next frame.                                *)
OtherButton ==
  /\ Polled("button")
  /\ pc' = IF m_dialogActive THEN pc ELSE "update"
  /\ Dequeued /\ UNCHANGED <<held, m_running, lost, dialogVars, playerVars>>

TextToField ==
  /\ m_dialogActive /\ active /\ focused /\ Polled("text")
  /\ text' = text \o Typed[Key]
  /\ lines' = wrapSplitted(splitString(joinStrings(lines) \o Typed[Key]))
  /\ Dequeued
  /\ UNCHANGED <<held, m_running, pc, lost, textInput, m_dialogActive, active, focused, playerVars>>

BackspaceToField ==
  /\ m_dialogActive /\ active /\ focused /\ Polled("down") /\ Key = "backspace"
  /\ lines' = Backspaced
  /\ text' = IF text = <<>> THEN text ELSE Front(text)
  /\ Dequeued
  /\ UNCHANGED <<held, m_running, pc, lost, textInput, m_dialogActive, active, focused, playerVars>>

(* Mutant: the dialog is hidden and does not call back.                   *)
CloseDialog_Silent ==
  /\ m_dialogActive /\ active /\ Polled("down") /\ Key \in {"return", "escape"}
  /\ active' = FALSE /\ m_dialogActive' = m_dialogActive
  /\ focused' = (Key # "escape")
  /\ textInput' = (Key # "escape")
  /\ queue' = Tail(queue)
  /\ UNCHANGED <<held, m_running, pc, lost, lines, text, playerVars>>

(* Dialog::hide, with the callback onDialogClose.  The escape also takes   *)
(* the focus: SDL then drops the TEXTINPUTs in its queue, and makes none.  *)
CloseDialog ==
  /\ m_dialogActive /\ active /\ Polled("down") /\ Key \in {"return", "escape"}
  /\ active' = FALSE /\ m_dialogActive' = FALSE
  /\ IF Key = "escape"
     THEN /\ focused' = FALSE /\ textInput' = FALSE
          /\ queue' = WithoutTexts(Tail(queue))
     ELSE UNCHANGED <<focused, textInput>> /\ Dequeued
  /\ UNCHANGED <<held, m_running, pc, lost, lines, text, playerVars>>

KeyToDialog ==
  /\ m_dialogActive /\ (Polled("down") \/ Polled("up"))
  /\ Key \notin {"backspace", "return", "escape"}
  /\ SeenByDialog /\ Dequeued
  /\ UNCHANGED <<held, m_running, pc, dialogVars, playerVars>>

-----------------------------------------------------------------------------
(* The rest of a frame.                                                    *)

EndPoll ==
  /\ pc = "events" /\ queue = <<>> /\ pc' = "update"
  /\ UNCHANGED <<held, queue, m_running, lost, dialogVars, playerVars>>

(* Player::update asks for up, left, down, right: the last one counts.     *)
Moves(p) ==
  LET wanted == {n \in 1 .. 4 : \E key \in activeKeys[p] : Means[key] = Directions[n]}
  IN IF wanted = {} THEN "none"
     ELSE Directions[CHOOSE n \in wanted : \A other \in wanted : other <= n]

update ==
  /\ pc = "update" /\ pc' = "draw"
  /\ direction' = IF m_dialogActive THEN direction ELSE [p \in Players |-> Moves(p)]
  /\ UNCHANGED <<held, queue, m_running, lost, dialogVars, activeKeys>>

(* TextField::render takes the size of a surface that SDL does not make of *)
(* an empty line.                                                          *)
draw ==
  /\ pc = "draw"
  /\ pc' = IF m_dialogActive /\ active /\ \E n \in 1 .. Len(lines) : lines[n] = <<>> THEN "crashed"
           ELSE IF m_running THEN "events" ELSE "stopped"
  /\ UNCHANGED <<held, queue, m_running, lost, dialogVars, playerVars>>

-----------------------------------------------------------------------------
(* The user.  What he does shows when events are polled.                   *)

Queue(events) ==
  /\ pc = "events" /\ Len(queue \o events) <= MaxQueue
  /\ queue' = queue \o events
  /\ UNCHANGED <<m_running, pc, lost, dialogVars, playerVars>>

Typing(key) ==
  IF textInput /\ key \in DOMAIN Typed THEN <<Event("text", key)>> ELSE <<>>

Texts == Len(SelectSeq(queue, LAMBDA e : e.type = "text"))

(* A key held down is also pressed again, by its repetition.               *)
Press(key) ==
  /\ Typing(key) = <<>> \/ Len(text) + Texts < MaxText
  /\ held' = held \cup ({key} \cap Controls)
  /\ Queue(<<Event("down", key)>> \o Typing(key))

Release(key) ==
  /\ key \in held /\ held' = held \ {key}
  /\ Queue(<<Event("up", key)>>)

Mouse == held' = held /\ Queue(<<Event("button", "none")>>)
CloseWindow == held' = held /\ Queue(<<Event("quit", "none")>>)

User ==
  \/ \E key \in Controls \cup {"g", "space", "ya", "backspace", "return", "escape"} : Press(key)
  \/ \E key \in Controls : Release(key)
  \/ Mouse \/ CloseWindow

Running == pc \notin {"stopped", "crashed"}

Next ==
  /\ Running
  /\ \/ Quit \/ KeyToPlayers \/ OpenDialog \/ TextToNobody \/ OtherButton
     \/ TextToField \/ BackspaceToField \/ CloseDialog \/ KeyToDialog
     \/ EndPoll \/ update \/ draw
     \/ User

Spec == Init /\ [][Next]_vars

-----------------------------------------------------------------------------
(* Properties.                                                             *)

Pending(key) ==
  \E n \in 1 .. Len(queue) : queue[n].key = key /\ queue[n].type \in {"down", "up"}

(* A key counts as pressed when it is, but for those whose last event went *)
(* to the dialog; and a figure that goes on moving with none of its keys   *)
(* pressed is one of these.                                                *)
StuckOnlyByDialog ==
  \A p \in Players :
    /\ \A key \in controlKeys[p] :
         Pending(key) \/ key \in lost \/ (key \in activeKeys[p] <=> key \in held)
    /\ pc = "draw" /\ ~m_dialogActive /\ direction[p] # "none" =>
         \E key \in controlKeys[p] : key \in held \/ Pending(key) \/ key \in lost

(* The lines of the field, joined, are the bytes that were typed, less the *)
(* last one for every backspace: splitting and wrapping neither drop nor   *)
(* repeat one, and no backspace takes two or none.  A letter of two bytes  *)
(* is typed at once and taken back by halves.                              *)
TextIsTyped == joinStrings(lines) = text
=============================================================================
