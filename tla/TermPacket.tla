------------------------------ MODULE TermPacket ------------------------------
(***************************************************************************)
(* The envelope of the terminal client (term/crypt.c, tried out by         *)
(* term/ende.c): encipher and decipher written again in C.  A pack of      *)
(* either program is opened by either decipher.                            *)
(*                                                                         *)
(* Symbols, bytes and digests are those of Packet; a pack is what encipher *)
(* returns, without the marker and the length that srv/Client.cpp adds.    *)
(***************************************************************************)
EXTENDS Packet

CONSTANT SealedLength  \* lengths of the messages that are only sealed and opened

ASSUME SealedAssumption == SealedLength \subseteq Nat \ {0}

VARIABLES
  by,      \* who has sealed the pack: "none", "srv" or "term"
  len,     \* the length of the message
  pad,     \* the random number that the padding is made of
  reader,  \* who has opened it: "none", "srv" or "term"
  got      \* the message that was read, empty if the pack was refused

termVars == <<by, len, pad, reader, got>>

Both == {"srv", "term"}

TermInit == by = "none" /\ len = 0 /\ pad = 0 /\ reader = "none" /\ got = <<>>

-----------------------------------------------------------------------------
(* encipher.                                                               *)

rnd_size(random) == IF random = 0 THEN 255 ELSE random

(* Mutant: the last chunk is not filled up.                               *)
split_buffer_Short(buffer, j) == Chunk(buffer, j)

(* split_buffer: chunk j, the last one filled up with zeros.               *)
split_buffer(buffer, j) ==
  LET chunk == Chunk(buffer, j)
  IN chunk \o [i \in 1 .. CHUNK_SIZE - Len(chunk) |-> 0]

TermPack(length, random) ==
  LET size == rnd_size(random)
      k == Chunks(length, size)
      env == Envelope(length, size)
      chunks == [j \in 1 .. k |-> split_buffer(env, j)]
  IN <<<<Low(k)>>, <<High(k)>>>>
       \o [i \in 1 .. ENC_CHUNK_SIZE * k |->
             IF i % ENC_CHUNK_SIZE = 1 THEN chunks[i \div ENC_CHUNK_SIZE + 1] ELSE <<>>]

SrvPack(length, random) ==
  SubSeq(Pack(length, random), 1, PackSize(length, random) - SYNC_MARKER_SIZE)

-----------------------------------------------------------------------------
(* decipher.                                                               *)

FullChunks(pack) ==
  \A j \in 1 .. ChunkCount(pack) : Len(pack[3 + ENC_CHUNK_SIZE * (j - 1)]) = CHUNK_SIZE

(* Only full chunks, some padding, and every field inside of the envelope. *)
TermDecipher(pack) ==
  LET env == Decrypted(pack)
      size == env[1] + 2
      crc == size + 2
      sign == crc + HASH_SIZE
      first == sign + SIG_SIZE
      last == first + env[size] + 256 * env[size + 1] - 1
      msg == SubSeq(env, first, last)
  IN IF /\ FullChunks(pack)
        /\ env # <<>> /\ env[1] # 0
        /\ first - 1 <= Len(env) /\ last <= Len(env)
        /\ SubSeq(env, crc, sign - 1) = Digest(msg, HASH_SIZE)
        /\ SubSeq(env, sign, first - 1) = Digest(msg, SIG_SIZE)
     THEN msg ELSE <<>>

-----------------------------------------------------------------------------
(* The C encipher ends the program when the length has more than 16 bits.  *)
Seal(program) ==
  /\ by' = program
  /\ len' \in {l \in SealedLength : program = "term" => l < U16}
  /\ pad' \in RandomLength
  /\ reader' = "none" /\ got' = <<>>

Sealed == IF by = "srv" THEN SrvPack(len, pad) ELSE TermPack(len, pad)

Open(program) ==
  /\ by # "none" /\ reader = "none"
  /\ reader' = program
  /\ got' = IF program = "srv" THEN Decipher(Sealed) ELSE TermDecipher(Sealed)
  /\ UNCHANGED <<by, len, pad>>

TermNext == \E program \in Both : Seal(program) \/ Open(program)

BothInit == Init /\ TermInit

(* One machine or the other: a message goes its way to the far end, or a   *)
(* pack is only sealed and opened.                                         *)
BothNext ==
  \/ by = "none" /\ Next /\ UNCHANGED termVars
  \/ at = "idle" /\ TermNext /\ UNCHANGED vars

BothSpec == BothInit /\ [][BothNext]_<<vars, termVars>>

-----------------------------------------------------------------------------
(* Properties.                                                             *)

(* What the C program seals both programs open, and read the message of    *)
(* any length and padding.  What the C++ program seals it opens itself,    *)
(* and the C program only when it is padded and its last chunk is full.    *)
(* Neither ever reads another message.                                     *)
DialectsAgree ==
  reader # "none" /\ len < U16 =>
    got = IF by = "srv" /\ reader = "term"
               /\ (pad = 0 \/ EnvelopeSize(len, pad) % CHUNK_SIZE # 0)
          THEN <<>> ELSE Message(len)
=============================================================================
