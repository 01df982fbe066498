# Verification of vjft

vjft holds three programs that share a repository: a chat server with a
command-line client (`src/srv`, C++ with boost::asio), a terminal client with a
line editor (`src/term`, C), and a small SDL application (`src`, C++).  This
directory holds TLA+ models of their logic, the TLC configurations that check
them, and machine-checked proofs about all of them.

## The system

### Chat server (`srv/ChatRoom`, `PersonInRoom`, `Server`, `MainServer`, `WorkerThread`)

State: the room (`participants_`, the history `recent_msgs_` of at most 100
messages), and for each session a socket, a read buffer, the write queue
`write_msgs_` and the timer `deadline_`.

Operations: a session is accepted (`OnAccept`, `Start`, `ChatRoom::Enter`, which
replays the history), reads a length of two bytes (`HeaderHandler`), reads a
body of that length under a deadline of five seconds (`ReadHandler`,
`CheckDeadline`), broadcasts it to every member, itself included, and reads
again.  `OnMessage` queues a message and starts an `async_write` unless one is
running; `WriteHandler` starts the next one, or leaves the room on an error.
Recovery from a bad packet closes the socket.

Interaction: the sessions call the room, the room calls every session's
`OnMessage`.  Everything runs in handlers of one `io_service`, which
`MainServer` drains with ONE worker thread.  Hard: which of the queued handlers
runs next, timers that expire while the body arrives, cancelled waits that
re-arm themselves, sockets that are closed under operations in the air, and
sessions that are half dead.

Right means: every member is sent every broadcast once, in order, after the
tail of the history; what is read is broadcast once; one write at a time on a
socket; a stalled peer is cut off, a silent one is not; who is dead leaves.

### Command-line client (`srv/Client`, `MainClient`)

State: the socket, one read operation and its buffer `read_msg_`, the queue of
the last 32 bytes of headers, the write queue, the read timer.  The main thread
reads lines and posts `WriteImpl` to the `io_service`, which a second thread
runs until nothing is left to do.  Reads are those of the server with a timer
in place of the deadline; `Recover` closes the connection.  Right means: each
line is sent once to each recipient and in order, a server that stalls cannot
hold the client, the timer never strikes between packets.

### Envelope and packet format (`srv/Crypt`, `Utils`, `defs.hpp`)

`encipher` puts a message with random padding, lengths, hash and signature into
an envelope, splits it into chunks of 255 bytes, encrypts each to 512 bytes;
`WriteImpl` adds a sync marker and a 16-bit length.  `decipher` undoes this.
Limits in different units stand in three places.  Right means: what is shown is
what was sent, and what a sender may send every receiver accepts.

### Terminal client (`term/`)

- *Line editor* (`event.c`, `msg.c`): one input line with a cursor and a marker,
  some twenty commands, an undo and a redo stack whose entries merge.
  `processEvents` runs the queued commands one after the other.
- *Key input* (`main.c: keyb`, `kbd.c`, `key.c`, `ctrlstk.c`): bytes become keys,
  keys pile up on a control stack until they match a combination.
- *Select loop and socket* (`main.c`, `client.c`): one loop over the keyboard and
  the socket, an outgoing queue, SIGWINCH, the exit codes.
- *Drawing* (`main.c: reDraw`, `iface.c`, `term.c`, `history.c`): everything again
  after every event, each text measured by one algorithm and wrapped by another.
- *Encryption* (`crypt.c`, tried out by `ende.c`): the C twin of `srv/Crypt`.

One thread runs all of it; the user, the window and the peer act between any two
of its steps.  Right means: a message entered is sent once, whole and in order,
unless its connection or the program ends; no key can keep it from being sent;
what is read or written is the socket that `select` has reported; undo takes
back what was done; the cursor is drawn at its place, and nothing over it.

### Select server (`term/srv.c`)

A table of ten clients, one walk over the descriptors after each `select`, used
to try the terminal client out.  Its sockets block: while a client does not read,
a line for it waits in `send` and nobody is served.  Right means: the table and the
open descriptors are the same; a descriptor that `select` has reported is still
open, and still that of the same client, when the walk comes to it; who has closed
is released as long as no client holds up a `send` for ever.

### The rest

The SDL application (`App`, `Dialog`, `TextField`, `Player`, `Scene`): keyboard
events go to the players or, while it is open, to a dialog with a text field.
Right means: a player moves as long as one of its keys is down, and the field
holds what was typed, byte for byte.  The BPF loader in `vm/`, assets, scripts and notes.

## What is modelled

| module | models | proofs |
| --- | --- | --- |
| `ChatServer` | room, sessions, timers, sockets of the chat server | `ChatServerProofs` |
| `RoomRelay` | the abstract promise of the room; `ChatServer` implements it | in `ChatServerProofs` |
| `ChatClient` | the command-line client | `ChatClientProofs` |
| `LineRelay` | the abstract promise of the client; `ChatClient` implements it | in `ChatClientProofs` |
| `Packet` | the format, from the message to the far end | `PacketProofs` |
| `TermPacket` | the format as `term/crypt.c` writes and reads it; extends `Packet` | `PacketProofs` |
| `Editor` | the line editor of the terminal client | `EditorProofs` |
| `TermLoop` | its main loop, key input, socket and outgoing queue | `TermLoopProofs` |
| `Layout` | what it draws, and where | `LayoutProofs` |
| `SelectServer` | the select server | `SelectServerProofs` |
| `App` | the SDL application: events, dialog, players | `AppProofs` |
| `MC...` | instances for TLC, one for each of the above | |

An operator whose name ends in `_Something` and whose comment begins with
"Mutant" is a plausible bug: substituted for the definition after it, it makes
TLC refute the property it belongs to (`PROJECT.json` lists the pairs).

### How ChatServer corresponds to the code

A handler is one atomic action, because one thread runs them all.  `conn` is the
socket, `rd` the one read operation of a session (`hdrWait`: in the air,
`hdrOk`/`hdrErr`: its handler is queued; the same for bodies), `wq` is
`write_msgs_`, `writing`, `written` and `failed` count the writes in the air and
the queued `WriteHandler`s.  `deadline`, `waiting` and `fired` are the timer: its
expiry, its waits in the air, its queued `CheckDeadline`s.  Changing the expiry
cancels a wait, which queues its handler, and a wait that has already expired
stays queued with no error: that is where the races are.  The environment
completes an operation with success or failure, breaks connections and lets the
deadline pass.  Messages are named by sender and number.  `log`, `base` and
`delivered` are history variables.

### How ChatClient corresponds to the code

As above, with one connection.  `posted` are the handlers that the main thread
posted, `buf` is the size of `read_msg_` (which `Recover` empties under a queued
handler), `thread` is the thread in `io_service::run`: it returns when nothing
is outstanding, and is terminated by an exception that nothing catches.  A
message is a packet for each recipient; of received bodies only their length
and kind (good, without a marker, torn) count.

`LineRelay` has only the lines typed, the connection and the wire.  The mapping
(`Conn`, `Wire`) takes a broken socket for one that is up, since the client learns
of it from the next operation only, and puts a packet on the wire when its
`async_write` has succeeded: it leaves `write_msgs_` later, in the `WriteHandler`
that is then queued.

### How Packet corresponds to the code

`Envelope`, `Chunk`, `Pack`, `Header` and `Decipher` are `encipher`, `split_vec`,
`WriteImpl` and `decipher` on sequences of bytes, each byte named by what it
belongs to; a chunk is encrypted as a whole.  `Send`, `ServerReads`,
`ClientReadsHeader` and `ClientReadsBody` take one packet through both ends and
name what becomes of it: shown, sender put out of the room, receiver recovered,
receiver terminated.

### How Editor corresponds to the code

`node` is `msgList.curr`, the input line; it stays the first node of the list,
since `pushMessage` only sets `curr` when it is NULL.  `undo` and `redo` are the
stacks.  `Refuses`, `Apply` and `SeqOf` give for every command when it returns
NULL, what it does with the node and what it stores; `MngAct` is `mngAct`, with
its entries that merge and its null pointer for an empty stack.  `Undo` and `Redo`
run the complement or the command through the same `MngAct` and drop what it
returns, as the code does.  An action also carries the node before and after it
(`from`, `to`), which only the properties read.

### How TermPacket corresponds to the code

`TermPack` and `TermDecipher` are `encipher` and `decipher` of `crypt.c` on the
bytes of `Packet`.  They differ from the C++ program in a padding that is never
0, a last chunk filled up with zeros, and a `decipher` that insists on both.
`Seal` and `Open` let either program open what either has sealed.

### How TermLoop corresponds to the code

`pc` is the place in the loop of `main`: `select`, `keyb`, `processEvents`, the
read, the outgoing queue with its `send`s.  `ctrlStack`, `sockfd`, `out`
(`outgoing_queue`) and `terminate` are the variables of those names; `readable`
and `writable` are what `select` leaves in the two sets, of which the code zeroes
only the first.  Descriptors are numbers that the kernel gives again; `conn`
says which connection each one means, which the program never knows.  A key is
one of its kind: printable, the backtick (whose code is 0), parts of a
combination, Enter, Backspace, Ctrl-G, the end of the input.  A key may come in
two parts.  What the editing keys do with the line is `Editor`'s matter; here
it is empty or not.  A resize is modelled where it interrupts something: half a
key, a `send`, a `connect`.

### How Layout corresponds to the code

`Places` and `calc_display_size` are the loop of the function of that name and what
it returns.  `Turns` is the loop of `display_wrapped`, whose arguments are a `view`;
one `Turn` leaves a row that is full (`LeaveRow`) and then draws (`Show`, `Put`,
`fullfiller`).  `Input` and `Output` are the arithmetic of `reDraw`, `AddFrame` one
round of its loop over the messages.  All is written into one buffer: `reDraw` keeps
the cells of the input line, those of the lines around it and those of each frame,
border and text, in the order in which they are written, and `Seen` says of cells
that nothing later is written over them.  Every event changes the window, the input
line or the messages and draws everything again.  The line is any text with any
cursor, in or out of it, as `Editor` leaves it.

### How SelectServer corresponds to the code

`client_fds` is the table, `ready` the descriptors of `read_fds` that the walk has
still before it.  `Accept`, `Refuse`, `ReadLine`, `Recv` and `RecvEnds` are the
branches of the walk.  A line goes out slot by slot (`SkipSlot`, `Send`,
`SendFails`, `LineSent`), and the peers may move between two slots.  `full` are the
connections whose buffers are full: `Send` waits until their peer reads.  Beside
each descriptor stands the connection that it means (`conn`), and what it meant
when `select` returned (`seen`).

### How App corresponds to the code

`queue` is SDL's: what the user does enters it, `processEvents` takes events out
one by one, then come `update` and `draw`.  `activeKeys` and `direction` are the
players', `lines` is the text field's deque, and `wrapSplitted`, `splitString` and
`joinStrings` are its functions.  A key that types puts two events into the
queue, the second while text input is on.  The field is modelled in bytes, as the
code handles it: a TEXTINPUT brings a letter of one or two bytes (`Typed`), a
backspace takes one byte, and the width of a line counts bytes, since
`TTF_SizeText` takes each for a character.

## What is checked

| run | instance | what it shows |
| --- | --- | --- |
| `chat_safety` | 2 sessions, history of 2, 2 bodies per peer, a length on each side of the limit | all safety of the server, and that it implements `RoomRelay` |
| `chat_live` | the same with history and bodies of 1, `FairSpec` | dead sessions leave, body reads end, queues drain |
| `client` | 2 recipients, 2 lines, 3 packets, lengths around both limits, `FairSpec` | order and single writes, the timer, no stall, and that it implements `LineRelay` |
| `client_stale_timeout` | the same | refuted: the header is in `read_msg_` when its handler runs |
| `packet` | 24 message lengths at the boundaries, 8 paddings; 12 lengths sealed and opened | what is shown is what was sent; which lengths get through; which packs of either program the other reads |
| `packet_longest` | the same | refuted: the longest packet that `defs.hpp` describes is accepted |
| `editor` | a letter and the space, 7 keys | undo and redo of an action, null pointers, the cursor |
| `editor_exit` | the same, 5 keys | refuted: undo never finds too little text |
| `select_server` | a table of 2, 3 connections, 1 waiting line, clients that read or do not, `FairSpec` | table and descriptors, the walk, closed connections are released unless a `send` waits for ever |
| `term_loop` | 7 keys, a stack of 3, 2 connections, `FairSpec` | messages go out whole and in order, the right socket, nothing is kept back |
| `app` | a key for each player, letters of one and two bytes, texts of up to 4 bytes, a queue of 2, a field of 3 columns | who is told of a key, what the field holds |
| `layout` | 20 windows, lines of up to 6 characters, 2 messages | the two ways to wrap agree; what is drawn is seen as long as no frame needs three rows more than it is given |

### Bounds

*Server.*  A broadcast couples sessions only through the room's sets and
sequences, so two sessions show every pairing of sender and receiver, of member
and leaver; two bodies per peer give histories that overflow (four broadcasts
against a history of two), queues longer than one, and a timeout of one packet
that meets the next.  The proofs remove the bounds for everything but liveness.
*Client.*  Two recipients make one line two packets; three received packets let
a stale timer reach the packet after next.  `SyncMarkerSize` and `ReadQueueSize`
are 4 instead of 32, so that three headers can fill the queue.  The proofs remove
the bounds for all but liveness, and hold for every size and limit.
*Packet.*  The lengths that `TermPacket` seals leave out those beyond 16 bits, which
`encipher` of the C program refuses, because TLC needs minutes for such a pack.
The lengths are those where a quotient, a limit or a header changes,
and their neighbours; between them every formula is linear.  The proofs are
about every length and every padding.
*Editor.*  Seven keys hold every interplay of two recorded actions and the undo
and redo of both with a command between; `MaxKeys` is the only bound, and no
text or stack is cut short.  Eight keys (14 million states, 200 s) hold as well;
the proofs are about any number of keys and any characters.
*Select server.*  Two slots and three connections fill the table, refuse one, give
a descriptor again in a later walk, and stop a line at a client with another
before or behind it; the proofs remove these bounds for all but liveness.
*Main loop.*  A combination takes two keys, a message two (a letter, Enter), so
that seven keys send two messages over two connections with a key left on the
stack; two connections reuse a descriptor.  `MaxStack` lets a combination lie on
top of one stray key.  Eight keys (2.2 million states) hold as well, and the proofs
remove these bounds for all but liveness.
*Application.*  A field of three columns with four bytes wraps, has a word longer
than a line, loses a line by backspace and keeps half of a letter; two events in
the queue are a key and its text.
The proofs are about a field of any width, any number of bytes and a queue
of any length; each player keeps one of its four keys.
*Layout.*  `vert` and `margin` are 1 instead of 25 and 4, so that small windows
have every shape: too small for anything, a line longer than half of the window,
a frame of no, one or three columns.  The frame of one column needs seven rows more
than it is given and covers the input line; that of three columns needs two more,
the most that covers nothing (`Roomy`).  The proofs remove all of these bounds.

### Fairness

The worker thread runs every queued handler, the reactor completes failed
operations and expired timers, and the clock advances: weak fairness of those
actions.  It is what `io_service::run` provides while it runs.  Nothing is
assumed of peers: they may never send, never read and never close.  `QueueDrains`
therefore has as premise that the peer takes what is written.  The client's
connection attempt is answered, with success or failure.  The loops of the
select server and of the terminal client go on (`WF(Round)`, `WF(Loop)`) whenever
they do not wait: single threads, which wait in `select`, in a `send` on a blocking
socket and, the client, for the rest of a key.  These waits are guards of the
actions.  A peer need not ever read and the rest of a key need not ever come, so
that `ClosedIsReleased` and `QueuedIsSent` say what holds unless the program is held
up for ever (`HeldUp` of either module).  A read of the keyboard at the end of the
input returns.  No liveness is
claimed of the SDL application.

### Deadlock

The runs say `CHECK_DEADLOCK FALSE`: the histories are finite by the bounds, a
packet's way and the programs themselves end.  That nobody waits for ever is
stated by the liveness properties, and by `OneWrite` of both ends: a queue that
is not empty has a write under way.  `Packet` and `Layout` have no type invariant:
their properties are about every value of the state.  That of `SelectServer` says
nothing but types; it is proved, and no run repeats it.

## What is proved

`ChatServerProofs` proves, for any number of sessions, any history length, any
limits and without a bound on messages other than the parameter `MaxBody`:
type correctness, `HistoryIsTail`, `OneWrite`, `OneWatchdog`, `MemberIsRead` and
`DeadlineFollowsRead`, `StreamIsWindow`, `BroadcastOnce`, `NoIdleDisconnect`, and
`ServerImplementsRelay`, the refinement of `RoomRelay`.  The only assumption is
`ConstantsAssumption`.

The inductive invariant is `IInv == TypeOK /\ Control /\ HistoryIsTail /\
StreamIsWindow`.  `Control` collects what the handlers know of each other:
`OneWrite` (a `WriteHandler` finds its message at the front of the queue),
`OneWatchdog`, `MemberIsRead`, `DeadlineFollowsRead`, and that a session which
has not started has an empty queue and no outstanding operation.
`HistoryIsTail` and `StreamIsWindow` need each other: a newcomer's window is a
tail of the log only because the history is.  Each of them is preserved by a
broadcast (one lemma each) and by the remaining handlers, of which only `Enter`
and `WriteHandlerOk` touch it.  `BroadcastOnce` is proved on top of `IInv`, with
the numbers of a sender's messages; the refinement maps each handler to at most
one step of the relay.

`SelectServerProofs` proves for any table, any connections and any number of lines
`TypeOK`, `TableIsOpen` and `SeenIsSame`, from `ConstantsAssumption` and
`NobodyAssumption`.  The inductive invariant is their conjunction: `SeenIsSame` of
a new walk needs that what is in the table is open (`TableIsOpen`), and it is kept
by `Accept` because the descriptor it takes was not open, by `RecvEnds` because
the walk has passed the one that it closes, and by a `send` that fails because it
closes none.

`TermLoopProofs` proves for any number of keys, any depth of the control stack and
any number of connections `TypeOK`, `InsertHasText`, `EnteredIsSent` and
`SocketIsSeen`, from `TermLoopAssumption`.  The inductive invariant strengthens the
last two: a message is in hand only while it is being sent or when the program has
ended (`terminate` is no help, since the next key sets it back), and whatever
`select` has left in the two sets still means what it meant, because the program
never closes a descriptor that was connected and `ConnectOk` takes one that was
not open.

`ChatClientProofs` proves for any number of recipients, any limits and header
lengths, and any number of lines and packets `TypeOK`, `OneWrite`, `SendsInOrder`
and `TimerFollowsBody`, from its `ConstantsAssumption`.  The inductive
invariant adds to them `TwoBytes` (a header read is a number of 16 bits),
`ConnectingFirst` (the socket of an attempt that is not answered was never touched:
`Recover` needs a packet, and a close answers the attempt) and `CloseIsLast` (the
posted handlers are the last lines typed, in their order, and a close among them is
the last).  From the last one it follows that the line a handler takes is the next
one of those typed, which `SendsInOrder` needs.

`ClientImplementsRelay` is the refinement of `LineRelay`: each step of the client
is at most one of the relay.  It rests on the same invariant.  A write that
succeeds is of the head of the queue (`OneWrite`), which is the next packet of the
lines typed (`SendsInOrder`); its `WriteHandler` is then a step that the relay does
not see; and a socket that was closed is not opened again, because an attempt that
is unanswered still has the socket it began with (`ConnectingFirst`).

`PacketProofs` proves for messages of every length and every padding `ShownIsSent`,
`ShortGetsThrough`, `RelayedIsReadable` and `DialectsAgree`, from
`ConstantsAssumption` and `SealedAssumption`.  The lemmas follow the
bytes: a field of an envelope is at its place, a chunk encrypted and decrypted is
itself, the chunks of a split joined again are the envelope, so that `decipher`
finds the message (`Holds`); a length that has wrapped at 16 bits ends in the
middle of a chunk, so that no marker is found there (`CutOff`).  The invariant says
what is on its way and what was sealed and opened; everything else is arithmetic
of the limits (`Limits`).

`EditorProofs` proves for any characters and any number of keys `TypeOK`,
`CursorLeavesByToggle`, `UndoTakesBack` and `RedoRepeats`, from `EditorAssumption`.
`IInv` has the types and where a null pointer can lie: at the bottom of the undo
stack only, so that no command follows one.  Undo and redo need a second invariant,
`SoundStacks`: every action on either stack, whatever was merged into it, knows
what it did, as long as it is whole and began in the text.  For a move this is a
path of single steps from one node to the other, for inserts and backspaces the
characters between.  It takes an induction over the repetitions (`RunTimes`), and
it is why the two properties say nothing of a node that is not as the action left
it.

`AppProofs` proves for a field of any width and a queue of any length `TypeOK`,
`StuckOnlyByDialog` and `TextIsTyped`, from `AppAssumption`.  For a key the
inductive invariant says what the LAST event on its way tells of it (`Told`): that
one, and no other, agrees with the key that is held; with none on its way the
player agrees, unless the dialog has seen the last one (`KeysInv`).  `Told` of a
queue with an event more, without its head and without its TEXTINPUTs are the
lemmas.  For the text it says that no line of the field is empty but an only one
(`FieldLines`): a backspace would otherwise take a line and leave the byte.
`TextIsTyped` is about bytes: the field holds those typed, less the last one for
every backspace.  That a backspace takes back a letter it does not say, and it is
not true of letters of two bytes.
`splitString` and `wrapSplitted` are folds; their invariants are that what is done
and what is in hand, joined, is what was read.

`LayoutProofs` proves `DrawnInPlace` for windows of every size, every text, every
cursor and any number of messages, from `LayoutAssumption`: sizes are natural
numbers, and the input line has no newline, for no key inserts one.  The core is
`WrappedIs`: while its view is on the screen (`Fits`), `display_wrapped` fills
exactly the cells whose places `calc_display_size` has counted (`Drawn`), and at
most one of filler behind them (`EndFiller`).  The two
loops disagree on when a row ends: the one that counts leaves a full row behind its
last character, the one that draws before the next.  The invariant of the turns
(`Going`) therefore allows a row that is full and not left yet, and says that all
before it is drawn; once the loop has ended or has left the last row (`Over`), no
turn draws any more.  `InputDrawn` and `FrameComplete` then are arithmetic of
`reDraw`: the input line gets a row at least and at most half of the window, its
first row is chosen so that the cursor's is in view, and a frame never is wider
than the window.  Places only grow (`PlacesGrow`), so that no text covers itself;
frames are placed three rows above the input line and above each other
(`OutputStacked`), so that one that needs up to two rows more than it is given ends
above what it could cover (`FrameInRoom`).  The state's invariant, `Redrawn`, says that nothing has changed
since everything was drawn.

The library has induction only over predicates, which the provers cannot
instantiate.  `LeastNumber` and `Induction` derive from its well-foundedness that a
set of numbers with 0 and every successor has them all, and the proofs that need induction over
data (a recursive function, a fold, a queue) define the set of the lengths for
which the claim holds.  A fold or a recursive function of the models is a `CHOOSE`
of a solution, whose existence is proved first by the same induction (`FoldExists`,
`JoinedExists`, `RunTimesIs`, `PlacesIs`, `TurnsIs`, `DrawnAboveIs`).

Every invariant and every action property that a run checks is a theorem.  Only
model-checked is all liveness (temporal properties under fairness, and `ENABLED`,
are beyond the prover), and that the refuted statements are refuted.

## What the models say about the code

Refuted statements of the repository (`findings` in `PROJECT.json`):

- *Stale read timer in the client* (`Client.cpp:285`).  Cancelling the timer does
  not take back a `HandleDataTimeout` that has already expired and is queued.  It
  closes a healthy connection, and may empty `read_msg_` before `HeaderHandler`
  reads its two bytes.  The server asks the clock again and is not affected
  (`NoIdleDisconnect`, proved).
- *Longest packet* (`defs.hpp:24-30`).  32 chunks are described, 31 pass.  Messages
  of 7104 to 7358 bytes pass or not, depending on random padding; up to 7103
  bytes everything gets through (`ShortGetsThrough`).
- *Undo ends the terminal client* (`event.c:788`).  A letter, Enter and undo
  suffice.  So do a letter, backward-char, forward-char, undo, undo: undoing a
  command drops a recorded action of the complement's kind.

Behaviour that the models contain and no property forbids:

- server: a header with too long a length makes a session leave the room while
  its socket stays open and unread; after a failed write a session leaves, but
  what its peer still sends is read and broadcast; reading a header has no
  timeout; write queues have no limit; the watchdog of a session runs for ever.
  `CheckDeadline` runs outside the strand, which is harmless with one worker
  thread only.
- client: after the connection is lost `io_service::run` returns, and further
  lines are posted to nobody; a length below the minimum recovers and still
  starts a body read, on a closed socket, which fails at once.
- packet: from 128 chunks on the 16-bit length wraps, and a body of the server's
  making makes every client recover.
- C packets: `decipher` of `crypt.c` wants a padding that is not 0 and chunks that
  are full, `srv/Crypt` writes neither always; what the C program writes, both
  read (`DialectsAgree` says which packs go which way).  The message it gives back
  has no terminator, and `ende` prints it with `%s`.
- terminal loop: `clearCtrlStack` stops at the key whose code is 0, so that Ctrl-G
  leaves a backtick's predecessors on the stack and Ctrl-X, backtick, Ctrl-G,
  Ctrl-O connects; a key that completes nothing blocks all later ones until
  Ctrl-G; `KEY_COMMAND` drops the text of its entry; Ctrl-D with several messages
  queued sends one and drops the rest; a resize during a send that waits drops the
  message and ends the program, and during half a key drops its bytes; connecting
  again leaves the old socket open; the names of the keys on the control stack are
  written into a buffer of `MAX_BUFFER` bytes without asking whether they fit.
- drawing: `calc_display_size` counts one row too many when the text ends with a
  full last column, harmlessly; a message is given the rows that it needs at a
  greater width than its frame has, and a frame that needs three more is drawn over
  the input line from its first row on, cursor or not, or over the message below
  it: with 80 columns every message of 63 characters or more has such a frame
  (`DrawnInPlace` says that no other covers anything); the oldest messages are drawn
  first and the newest not at all once the window is full; in windows of a few
  rows the input line is not seen (`DrawnInPlace` has this case as its guard).
- select server: a client that does not read stops it in `send` (`srv.c:141`), and
  nobody else is served or released until that client reads or breaks; one that
  has closed may kill it by SIGPIPE; at the end of its standard input `select`
  returns for ever without waiting.
- SDL application: a key pressed before the dialog opens and released in it stays
  held; a backspace removes one byte (`TextField.cpp:108`), so that half of a
  letter of two bytes, a Cyrillic one say, stays in the field; an emptied field is
  rendered without a line; the key that opens the dialog
  types its letter into it when its text event comes after the opening.
- editor: the marker does not follow a backspace (`event.c:845` compares it with
  itself), so that toggling can put the cursor behind the text, or at -1 with no
  marker (`CursorLeavesByToggle` says that nothing else can); undoing
  forward-word goes to the start of the line; undoing an insert or a backspace
  does not restore the marker; undo loses entries.  `UndoTakesBack` says what
  remains true: an action whose result is still there is taken back exactly.

## What is not modelled

- Connection set-up in detail (resolver, `connect` retries), nicknames, logging,
  the content of envelopes beyond its layout.  OpenSSL is external: decrypting
  what was encrypted for one gives it back, anything else fails.
- The editor's characters of more than one byte: `cmd_uninsert` counts bytes where
  the cursor counts characters, which agree when the line is as the insert left
  it.  Merged backspaces beyond 24 bytes write through a pointer that `realloc` has
  freed.  `event.c:881` moves the characters collected so far with `strncpy` although
  source and target overlap, which C leaves undefined; the model moves them as
  `memmove` would.
- Of drawing, what is written: colours, the minibuffer's text, escape
  sequences; of the SDL application, rendering, the mouse and the places of the
  players.  When exactly SIGWINCH comes between the check of its flag and `select`
  (the resize then waits for the next key); `client_init`, which only connects
  before the loop; the vendored UTF-8 tables.
- `vm/`, `test.c`, scripts, assets.
- `Client::FindSyncMarker`, `Message`, `ChatRoom::GetNickname`, `Player.cpp`: dead
  code.

## Plan

Done, in this order: `RoomRelay` and `ChatServer` (the program's core, and what
the others talk to), its proofs, `ChatClient`, `Packet`, `Editor`; `TermLoop`
with the key input, `SelectServer` and its proofs, `App`, `TermPacket`, `Layout`;
the proofs of `TermLoop`; the proofs of `ChatClient`, `Packet` and `TermPacket`,
`Editor` and `App`; those of `Layout`; `LineRelay`, which `ChatClient` is proved to
implement.

Left: `ChatServer` and `ChatClient` composed would show a packet from
one user's line to another's screen; `RoomRelay` and `LineRelay` can stand in for
them there.
