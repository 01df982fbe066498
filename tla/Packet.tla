------------------------------- MODULE Packet -------------------------------
(***************************************************************************)
(* The way of one message of the srv/ programs through its sizes: the      *)
(* envelope, its chunks and the packet that Crypt::encipher and WriteImpl  *)
(* make of it, the limits that the server and the receiving client hold    *)
(* its length against, and what Crypt::decipher reads out of it.           *)
(*                                                                         *)
(* A byte is a number.  A symbol on the wire is <<b>> for a byte b sent as *)
(* it is; of an encrypted chunk the first symbol stands for its contents   *)
(* and the others are empty.  The length in a header has 16 bits.          *)
(***************************************************************************)
EXTENDS Integers, Sequences

CONSTANTS
  MessageLength,  \* lengths of the messages typed
  RandomLength    \* lengths of the random padding, of 0 .. 255

Byte == 0 .. 255

ASSUME ConstantsAssumption ==
  /\ MessageLength \subseteq Nat \ {0}
  /\ RandomLength \subseteq Byte

SIG_SIZE == 512
HASH_SIZE == 32
CHUNK_SIZE == 255
ENC_CHUNK_SIZE == 512
MIN_PACK_SIZE == 1570
MAX_MSG_SIZE == 16418
MAX_PACK_SIZE == 16384
SYNC_MARKER_SIZE == 32
U16 == 65536

VARIABLES
  at,    \* how far the message has come
  n,     \* its length
  r,     \* the length of its random padding
  text   \* what the receiver was shown

vars == <<at, n, r, text>>

Init == at = "idle" /\ n = 0 /\ r = 0 /\ text = <<>>

-----------------------------------------------------------------------------
(* The sender: Crypt::encipher and Client::WriteImpl.                      *)

Low(x) == x % 256
High(x) == (x \div 256) % 256

(* The message of length len, and a digest (CRC or signature) of m.  The   *)
(* digest is blind to the contents of m: the checks of decipher are left   *)
(* weak, so that it is the layout that must bring the message through.     *)
Message(len) == [i \in 1 .. len |-> ((i % 256) * (i % 256)) % 256]
Digest(m, size) == [i \in 1 .. size |-> (Len(m) + i) % 256]

Envelope(len, random) ==
  LET m == Message(len)
  IN  <<random>> \o [i \in 1 .. random |-> 7] \o <<Low(len), High(len)>>
        \o Digest(m, HASH_SIZE) \o Digest(m, SIG_SIZE) \o m

EnvelopeSize(len, random) == 1 + random + 2 + HASH_SIZE + SIG_SIZE + len

(* Mutants: a last chunk is made even of a multiple of the chunk size; the *)
(* last chunk lacks a byte.                                                *)
Chunks_OneMore(len, random) == EnvelopeSize(len, random) \div CHUNK_SIZE + 1

(* The number of chunks of an envelope, and chunk j of the bytes e.        *)
Chunks(len, random) ==
  (EnvelopeSize(len, random) + CHUNK_SIZE - 1) \div CHUNK_SIZE
Chunk_OneShort(e, j) ==
  SubSeq(e, (j - 1) * CHUNK_SIZE + 1,
         IF j * CHUNK_SIZE < Len(e) THEN j * CHUNK_SIZE ELSE Len(e) - 1)
Chunk(e, j) ==
  SubSeq(e, (j - 1) * CHUNK_SIZE + 1,
         IF j * CHUNK_SIZE < Len(e) THEN j * CHUNK_SIZE ELSE Len(e))

(* What encipher returns with the sync marker behind it, and its size as   *)
(* it is written in front of it.                                           *)
PackSize(len, random) ==
  2 + ENC_CHUNK_SIZE * Chunks(len, random) + SYNC_MARKER_SIZE
Pack(len, random) ==
  LET k == Chunks(len, random)
      e == Envelope(len, random)
      chunks == [j \in 1 .. k |-> Chunk(e, j)]
      Symbol(i) == IF i % ENC_CHUNK_SIZE = 0
                   THEN chunks[i \div ENC_CHUNK_SIZE + 1] ELSE <<>>
  IN  [i \in 1 .. PackSize(len, random) |->
         CASE i = 1 -> <<Low(k)>>
           [] i = 2 -> <<High(k)>>
           [] i > PackSize(len, random) - SYNC_MARKER_SIZE -> <<0>>
           [] OTHER -> Symbol(i - 3)]
Header(len, random) == PackSize(len, random) % U16

-----------------------------------------------------------------------------
(* The receiver: Client::ReadHandler and Crypt::decipher.                  *)

EndsInMarker(body) ==
  \A i \in Len(body) - SYNC_MARKER_SIZE + 1 .. Len(body) : body[i] = <<0>>

(* decipher finds the chunks that the first two bytes announce.            *)
ChunkCount(pack) == pack[1][1] + 256 * pack[2][1]
HasAllChunks(pack) == Len(pack) - 2 >= ENC_CHUNK_SIZE * ChunkCount(pack)

(* The decrypted chunks, each brought to the chunk size, put together.     *)
Decrypted(pack) ==
  [i \in 1 .. CHUNK_SIZE * ChunkCount(pack) |->
     LET chunk == pack[3 + ENC_CHUNK_SIZE * ((i - 1) \div CHUNK_SIZE)]
         o == 1 + ((i - 1) % CHUNK_SIZE)
     IN  IF o <= Len(chunk) THEN chunk[o] ELSE 0]

(* decipher: the fields of the envelope at their offsets; an empty text    *)
(* when the signature or the checksum is not that of the message.          *)
Decipher(pack) ==
  LET e == Decrypted(pack)
      size == e[1] + 2
      crc == size + 2
      sign == crc + HASH_SIZE
      first == sign + SIG_SIZE
      m == SubSeq(e, first, first + e[size] + 256 * e[size + 1] - 1)
  IN  IF /\ SubSeq(e, sign, first - 1) = Digest(m, SIG_SIZE)
         /\ SubSeq(e, crc, sign - 1) = Digest(m, HASH_SIZE)
      THEN m ELSE <<>>

-----------------------------------------------------------------------------
(* The sender's WriteImpl, with any random padding.                        *)
Send ==
  /\ at \in {"idle", "shown"}
  /\ n' \in MessageLength
  /\ r' \in RandomLength
  /\ at' = "sent"
  /\ text' = <<>>

(* Mutant: the limit of defs.hpp's comment.                                *)
ServerReads_Wider ==
  /\ at = "sent"
  /\ at' = IF Header(n, r) > MAX_MSG_SIZE THEN "evicted" ELSE "relayed"
  /\ UNCHANGED <<n, r, text>>

(* PersonInRoom::HeaderHandler: the sender of too long a packet is put out *)
(* of the room, any other packet is broadcast with the same header.        *)
ServerReads ==
  /\ at = "sent"
  /\ at' = IF Header(n, r) > MAX_PACK_SIZE THEN "evicted" ELSE "relayed"
  /\ UNCHANGED <<n, r, text>>

(* Client::HeaderHandler.                                                  *)
ClientReadsHeader ==
  /\ at = "relayed"
  /\ at' = IF Header(n, r) \in MIN_PACK_SIZE .. MAX_PACK_SIZE
           THEN "announced" ELSE "recovered"
  /\ UNCHANGED <<n, r, text>>

(* Client::ReadHandler of as many symbols as the header says.              *)
ClientReadsBody ==
  /\ at = "announced"
  /\ LET body == SubSeq(Pack(n, r), 1, Header(n, r))
         pack == SubSeq(body, 1, Len(body) - SYNC_MARKER_SIZE)
     IN  \/ /\ ~EndsInMarker(body)
            /\ at' = "recovered"
            /\ UNCHANGED text
         \/ /\ EndsInMarker(body)
            /\ text' = IF HasAllChunks(pack) THEN Decipher(pack) ELSE <<>>
            /\ at' = IF ~HasAllChunks(pack) THEN "terminated"
                     ELSE IF text' = <<>> THEN "foreign" ELSE "shown"
  /\ UNCHANGED <<n, r>>

Next == Send \/ ServerReads \/ ClientReadsHeader \/ ClientReadsBody

Spec == Init /\ [][Next]_vars

-----------------------------------------------------------------------------
(* Properties.                                                             *)

(* The longest message that fits in 31 chunks with the longest padding,    *)
(* and the longest whose packet's size fits in 16 bits.                    *)
SafeLength == 31 * CHUNK_SIZE - EnvelopeSize(0, 255)
WrapLength == 127 * CHUNK_SIZE - EnvelopeSize(0, 255)

(* Whatever its length and padding, a message that is shown at the far end *)
(* is the message that was sent, to the last byte.                         *)
ShownIsSent == at = "shown" => text = Message(n)

(* A message of at most SafeLength bytes gets through: no limit on the way *)
(* and no check of the receiver stops it, with any padding.                *)
ShortGetsThrough ==
  at \in {"evicted", "recovered", "terminated", "foreign"} => n > SafeLength

(* The server relays nothing that makes the receivers give up their        *)
(* connections, as long as the size of a packet fits in its header.        *)
RelayedIsReadable ==
  at \in {"recovered", "terminated", "foreign"} => n > WrapLength

(* The comment in defs.hpp on the longest packet (32 chunks, the length    *)
(* and the marker: 16418 bytes): a packet of that size is accepted.        *)
LongestPacketAccepted ==
  at = "evicted" => PackSize(n, r) > MAX_MSG_SIZE
=============================================================================
