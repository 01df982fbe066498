----------------------------- MODULE PacketProofs -----------------------------
(***************************************************************************)
(* Proofs about Packet and TermPacket for messages of every length and     *)
(* every random padding: the layout brings the message through, the limits *)
(* on the way stop none that is short enough, and each program opens what  *)
(* it should of the other's packs.                                         *)
(***************************************************************************)
EXTENDS TermPacket, SequenceTheorems, TLAPS

USE DEF CHUNK_SIZE, ENC_CHUNK_SIZE

(* The sizes of the digests and the bound of a header are expanded only    *)
(* where they are computed with.                                           *)
LEMMA DigestSizes == HASH_SIZE = 32 /\ SIG_SIZE = 512
BY DEF HASH_SIZE, SIG_SIZE

-----------------------------------------------------------------------------
(* Sequences.                                                              *)

(* The sequences of m bytes.                                               *)
Bytes(m) == [1 .. m -> Nat]

(* They are sequences.                                                     *)
LEMMA IsSequence ==
  ASSUME NEW m \in Nat, NEW s \in Bytes(m)
  PROVE  s \in Seq(Nat) /\ Len(s) = m
<1>1. s \in Seq(Nat)
  BY SeqDef DEF Bytes
<1>2. QED
  BY <1>1, LenProperties DEF Bytes

(* The m bytes of s and the k bytes of t behind them.                      *)
Behind(c, m, s, k, t) ==
  /\ c \in Bytes(m + k)
  /\ \A i \in 1 .. m : c[i] = s[i]
  /\ \A i \in 1 .. k : c[m + i] = t[i]

(* The bytes of two sequences one after the other.                         *)
LEMMA Concat ==
  ASSUME NEW m \in Nat, NEW k \in Nat, NEW s \in Bytes(m), NEW t \in Bytes(k)
  PROVE  Behind(s \o t, m, s, k, t)
<1>1. s \in Seq(Nat) /\ Len(s) = m /\ t \in Seq(Nat) /\ Len(t) = k
  BY IsSequence
<1>2. s \o t \in Seq(Nat) /\ Len(s \o t) = m + k
  BY <1>1
<1>3. s \o t \in Bytes(m + k)
  BY <1>2, LenProperties DEF Bytes
<1>4. QED
  BY <1>1, <1>3 DEF Behind

-----------------------------------------------------------------------------
(* The envelope.                                                           *)

(* The bytes of a number of two bytes.                                     *)
LEMMA LowHigh ==
  ASSUME NEW x \in Nat
  PROVE  /\ Low(x) \in Nat /\ High(x) \in Nat
         /\ x < U16 => Low(x) + 256 * High(x) = x
BY DEF Low, High, U16

(* How many chunks an envelope fills, and its size with those of the rest. *)
LEMMA Sizes ==
  ASSUME NEW l \in Nat \ {0}, NEW p \in Byte
  PROVE  /\ p \in Nat /\ p <= 255
         /\ EnvelopeSize(l, p) = 547 + p + l
         /\ Chunks(l, p) \in Nat /\ Chunks(l, p) >= 3
         /\ 255 * (Chunks(l, p) - 1) < EnvelopeSize(l, p)
         /\ EnvelopeSize(l, p) <= 255 * Chunks(l, p)
         /\ PackSize(l, p) = 34 + 512 * Chunks(l, p)
<1>1. p \in Nat /\ p <= 255 /\ l \in Nat /\ l > 0
  BY DEF Byte
<1>2. EnvelopeSize(l, p) = 547 + p + l
  BY <1>1, DigestSizes DEF EnvelopeSize
<1>3. Chunks(l, p) = (801 + p + l) \div 255
  BY <1>1, <1>2 DEF Chunks
<1>4. QED
  BY <1>1, <1>2, <1>3 DEF PackSize, SYNC_MARKER_SIZE

(* A message is a sequence of bytes of its length.                         *)
LEMMA MessageType ==
  ASSUME NEW l \in Nat
  PROVE  Message(l) \in Bytes(l) /\ Len(Message(l)) = l
<1>1. ASSUME NEW i \in 1 .. l
      PROVE  ((i % 256) * (i % 256)) % 256 \in Nat
  <2>1. i % 256 \in Nat
    OBVIOUS
  <2>2. (i % 256) * (i % 256) \in Nat
    BY <2>1
  <2>3. QED
    BY <2>2
<1>2. Message(l) \in Bytes(l)
  BY <1>1 DEF Message, Bytes
<1>3. QED
  BY <1>2, IsSequence

(* A digest is a sequence of bytes of its size.                            *)
LEMMA DigestType ==
  ASSUME NEW l \in Nat, NEW size \in Nat
  PROVE  Digest(Message(l), size) \in Bytes(size)
<1>1. Len(Message(l)) = l
  BY MessageType
<1>2. \A i \in 1 .. size : (l + i) % 256 \in Nat
  OBVIOUS
<1>3. QED
  BY <1>1, <1>2 DEF Digest, Bytes

(* Where encipher puts the fields of an envelope.                          *)
LEMMA Fields ==
  ASSUME NEW l \in Nat \ {0}, NEW p \in Byte
  PROVE  LET e == Envelope(l, p)
         IN  /\ e \in Bytes(EnvelopeSize(l, p))
             /\ e[1] = p /\ e[p + 2] = Low(l) /\ e[p + 3] = High(l)
             /\ \A i \in 1 .. HASH_SIZE : e[p + 3 + i] = Digest(Message(l), HASH_SIZE)[i]
             /\ \A i \in 1 .. SIG_SIZE : e[p + 35 + i] = Digest(Message(l), SIG_SIZE)[i]
             /\ \A i \in 1 .. l : e[p + 547 + i] = Message(l)[i]
<1> DEFINE a1 == <<p>>
           a2 == [i \in 1 .. p |-> 7]
           a3 == <<Low(l), High(l)>>
           a4 == Digest(Message(l), HASH_SIZE)
           a5 == Digest(Message(l), SIG_SIZE)
           a6 == Message(l)
<1>1. p \in Nat /\ l \in Nat /\ EnvelopeSize(l, p) = 547 + p + l
  BY Sizes
<1> DEFINE k1 == 1
           k3 == 2
           k4 == HASH_SIZE
           k5 == SIG_SIZE
<1>2. k1 \in Nat /\ a1 \in Bytes(k1) /\ a1[1] = p
  BY <1>1 DEF Bytes
<1>3. a2 \in Bytes(p)
  BY <1>1 DEF Bytes
<1>4. k3 \in Nat /\ a3 \in Bytes(k3) /\ a3[1] = Low(l) /\ a3[2] = High(l)
  BY <1>1, LowHigh DEF Bytes
<1>5. k4 \in Nat /\ a4 \in Bytes(k4)
  BY <1>1, DigestSizes, DigestType
<1>6. k5 \in Nat /\ a5 \in Bytes(k5)
  BY <1>1, DigestSizes, DigestType
<1>7. a6 \in Bytes(l)
  BY <1>1, MessageType
<1>8. Envelope(l, p) = ((((a1 \o a2) \o a3) \o a4) \o a5) \o a6
  BY DEF Envelope
<1> DEFINE o2 == k1 + p
           o3 == o2 + k3
           o4 == o3 + k4
           o5 == o4 + k5
           o6 == o5 + l
<1>9. o2 = 1 + p /\ o3 = 3 + p /\ o4 = 35 + p /\ o5 = 547 + p /\ o6 = EnvelopeSize(l, p)
  BY <1>1, DigestSizes
<1>10. o2 \in Nat /\ o3 \in Nat /\ o4 \in Nat /\ o5 \in Nat
  BY <1>1, <1>9
<1> HIDE DEF a1, a2, a3, a4, a5, a6, k1, k3, k4, k5
<1> DEFINE b2 == a1 \o a2
           b3 == b2 \o a3
           b4 == b3 \o a4
           b5 == b4 \o a5
           b6 == b5 \o a6
<1>11. l \in Nat /\ p \in Nat
  BY <1>1
<1> HIDE DEF b2, b3, b4, b5, b6, o2, o3, o4, o5, o6
<1>12. /\ b2 \in Bytes(o2)
       /\ \A i \in 1 .. k1 : b2[i] = a1[i]
       /\ \A i \in 1 .. p : b2[k1 + i] = a2[i]
  <2>1. k1 \in Nat /\ a1 \in Bytes(k1) /\ p \in Nat /\ a2 \in Bytes(p)
    BY <1>10, <1>11, <1>2, <1>3
  <2>2. Behind(b2, k1, a1, p, a2)
    BY <2>1, Concat DEF b2
  <2>3. QED
    BY <2>2 DEF Behind, o2
<1>13. /\ b3 \in Bytes(o3)
       /\ \A i \in 1 .. o2 : b3[i] = b2[i]
       /\ \A i \in 1 .. k3 : b3[o2 + i] = a3[i]
  <2>1. o2 \in Nat /\ b2 \in Bytes(o2) /\ k3 \in Nat /\ a3 \in Bytes(k3)
    BY <1>10, <1>11, <1>4, <1>12
  <2>2. Behind(b3, o2, b2, k3, a3)
    BY <2>1, Concat DEF b3
  <2>3. QED
    BY <2>2 DEF Behind, o3
<1>14. /\ b4 \in Bytes(o4)
       /\ \A i \in 1 .. o3 : b4[i] = b3[i]
       /\ \A i \in 1 .. k4 : b4[o3 + i] = a4[i]
  <2>1. o3 \in Nat /\ b3 \in Bytes(o3) /\ k4 \in Nat /\ a4 \in Bytes(k4)
    BY <1>10, <1>11, <1>5, <1>13
  <2>2. Behind(b4, o3, b3, k4, a4)
    BY <2>1, Concat DEF b4
  <2>3. QED
    BY <2>2 DEF Behind, o4
<1>15. /\ b5 \in Bytes(o5)
       /\ \A i \in 1 .. o4 : b5[i] = b4[i]
       /\ \A i \in 1 .. k5 : b5[o4 + i] = a5[i]
  <2>1. o4 \in Nat /\ b4 \in Bytes(o4) /\ k5 \in Nat /\ a5 \in Bytes(k5)
    BY <1>10, <1>11, <1>6, <1>14
  <2>2. Behind(b5, o4, b4, k5, a5)
    BY <2>1, Concat DEF b5
  <2>3. QED
    BY <2>2 DEF Behind, o5
<1>16. /\ b6 \in Bytes(o6)
       /\ \A i \in 1 .. o5 : b6[i] = b5[i]
       /\ \A i \in 1 .. l : b6[o5 + i] = a6[i]
  <2>1. o5 \in Nat /\ b5 \in Bytes(o5) /\ l \in Nat /\ a6 \in Bytes(l)
    BY <1>10, <1>11, <1>7, <1>15
  <2>2. Behind(b6, o5, b5, l, a6)
    BY <2>1, Concat DEF b6
  <2>3. QED
    BY <2>2 DEF Behind, o6
<1>17. Envelope(l, p) = b6
  BY <1>8 DEF b2, b3, b4, b5, b6
<1>18. b6[1] = p /\ b6[p + 2] = a3[1] /\ b6[p + 3] = a3[2]
  <2>1. /\ 1 \in 1 .. k1 /\ 1 \in 1 .. o2 /\ 1 \in 1 .. o3 /\ 1 \in 1 .. o4
        /\ 1 \in 1 .. o5
    BY <1>9, <1>11 DEF k1
  <2>2. /\ o2 + 1 = p + 2 /\ 1 \in 1 .. k3 /\ o2 + 1 \in 1 .. o3
        /\ o2 + 1 \in 1 .. o4 /\ o2 + 1 \in 1 .. o5
    BY <1>9, <1>11 DEF k3
  <2>3. /\ o2 + 2 = p + 3 /\ 2 \in 1 .. k3 /\ o2 + 2 \in 1 .. o3
        /\ o2 + 2 \in 1 .. o4 /\ o2 + 2 \in 1 .. o5
    BY <1>9, <1>11 DEF k3
  <2>4. b6[1] = a1[1]
    BY <2>1, <1>12, <1>13, <1>14, <1>15, <1>16
  <2>5. b6[o2 + 1] = a3[1]
    BY <2>2, <1>13, <1>14, <1>15, <1>16
  <2>6. b6[o2 + 2] = a3[2]
    BY <2>3, <1>13, <1>14, <1>15, <1>16
  <2>7. QED
    BY <1>2, <2>2, <2>3, <2>4, <2>5, <2>6
<1>19. \A i \in 1 .. HASH_SIZE : b6[p + 3 + i] = a4[i]
  <2> TAKE i \in 1 .. HASH_SIZE
  <2>1. o3 + i = p + 3 + i /\ o3 + i \in 1 .. o4 /\ o3 + i \in 1 .. o5 /\ i \in 1 .. k4
    BY <1>9, <1>11, DigestSizes DEF k4
  <2>2. b6[o3 + i] = a4[i]
    BY <1>14, <1>15, <1>16, <2>1
  <2>3. QED
    BY <2>1, <2>2
<1>20. \A i \in 1 .. SIG_SIZE : b6[p + 35 + i] = a5[i]
  <2> TAKE i \in 1 .. SIG_SIZE
  <2>1. o4 + i = p + 35 + i /\ o4 + i \in 1 .. o5 /\ i \in 1 .. k5
    BY <1>9, <1>11, DigestSizes DEF k5
  <2>2. b6[o4 + i] = a5[i]
    BY <1>15, <1>16, <2>1
  <2>3. QED
    BY <2>1, <2>2
<1>21. \A i \in 1 .. l : b6[p + 547 + i] = a6[i]
  BY <1>9, <1>11, <1>16
<1>22. QED
  BY <1>4, <1>9, <1>16, <1>17, <1>18, <1>19, <1>20, <1>21 DEF a4, a5, a6

-----------------------------------------------------------------------------
(* Opening a pack.                                                         *)

(* The bytes of chunk j: the last one has what is left.                    *)
BytesOf(l, p, j) ==
  IF j < Chunks(l, p) THEN CHUNK_SIZE ELSE EnvelopeSize(l, p) - (j - 1) * CHUNK_SIZE

(* Every byte of an envelope is in its place in its chunk.                 *)
LEMMA ChunkIs ==
  ASSUME NEW l \in Nat \ {0}, NEW p \in Byte, NEW j \in 1 .. Chunks(l, p)
  PROVE  LET c == Chunk(Envelope(l, p), j)
             m == BytesOf(l, p, j)
         IN  /\ c \in Bytes(m) /\ Len(c) = m
             /\ \A o \in 1 .. m : c[o] = Envelope(l, p)[(j - 1) * CHUNK_SIZE + o]
<1> DEFINE e == Envelope(l, p)
           E == EnvelopeSize(l, p)
           k == Chunks(l, p)
           m == BytesOf(l, p, j)
           from == (j - 1) * CHUNK_SIZE + 1
           to == IF j * CHUNK_SIZE < E THEN j * CHUNK_SIZE ELSE E
<1>1. E \in Nat /\ e \in Bytes(E)
  <2>1. e \in Bytes(E)
    BY Fields
  <2>2. E \in Nat
    BY Sizes
  <2>3. QED
    BY <2>1, <2>2
<1>2. Len(e) = E
  BY <1>1, IsSequence
<1>3. Chunk(e, j) = SubSeq(e, from, to)
  BY <1>2 DEF Chunk
<1>4. k \in Nat /\ 255 * (k - 1) < E /\ E <= 255 * k /\ j \in Nat /\ 1 <= j /\ j <= k
  BY Sizes
<1>5. from \in Nat /\ to \in Nat /\ 1 <= from /\ from <= to /\ to <= E
  BY <1>1, <1>4
<1>6. to - from + 1 = m /\ m \in Nat
  BY <1>1, <1>4 DEF BytesOf
<1>7. \A i \in from .. to : e[i] \in Nat
  BY <1>1, <1>5 DEF Bytes
<1> HIDE DEF e, E, k, m, to
<1>8. /\ SubSeq(e, from, to) \in Seq(Nat)
      /\ Len(SubSeq(e, from, to)) = to - from + 1
      /\ \A i \in 1 .. to - from + 1 : SubSeq(e, from, to)[i] = e[from + i - 1]
  BY <1>5, <1>7, SubSeqProperties
<1>9. Chunk(e, j) \in Bytes(m) /\ Len(Chunk(e, j)) = m
  <2> DEFINE c == SubSeq(e, from, to)
  <2>1. c \in Seq(Nat) /\ Len(c) = m
    BY <1>6, <1>8
  <2> HIDE DEF c
  <2>2. c \in Bytes(m)
    BY <2>1, LenProperties DEF Bytes
  <2>3. QED
    BY <1>3, <2>1, <2>2 DEF c
<1>10. \A o \in 1 .. m : Chunk(e, j)[o] = e[(j - 1) * CHUNK_SIZE + o]
  <2> TAKE o \in 1 .. m
  <2>1. from + o - 1 = (j - 1) * CHUNK_SIZE + o
    BY <1>4, <1>6
  <2>2. o \in 1 .. to - from + 1
    BY <1>6
  <2>3. SubSeq(e, from, to)[o] = e[from + o - 1]
    BY <1>8, <2>2
  <2> HIDE DEF from
  <2>4. QED
    BY <1>3, <2>1, <2>3
<1>11. QED
  BY <1>9, <1>10 DEF e, E, k, m

(* Which chunk a byte of the envelope goes into, and where.                *)
ChunkOf(i) == 1 + ((i - 1) \div CHUNK_SIZE)
PlaceOf(i) == 1 + ((i - 1) % CHUNK_SIZE)

LEMMA Place ==
  ASSUME NEW l \in Nat \ {0}, NEW p \in Byte, NEW i \in 1 .. EnvelopeSize(l, p)
  PROVE  LET c == Chunk(Envelope(l, p), ChunkOf(i))
         IN  /\ ChunkOf(i) \in 1 .. Chunks(l, p)
             /\ PlaceOf(i) \in 1 .. CHUNK_SIZE /\ PlaceOf(i) <= Len(c)
             /\ c[PlaceOf(i)] = Envelope(l, p)[i]
<1> DEFINE E == EnvelopeSize(l, p)
           k == Chunks(l, p)
           e == Envelope(l, p)
<1>1. E \in Nat /\ k \in Nat /\ 255 * (k - 1) < E /\ E <= 255 * k
  BY Sizes
<1>2. /\ ChunkOf(i) \in 1 .. k /\ PlaceOf(i) \in 1 .. CHUNK_SIZE
      /\ (ChunkOf(i) - 1) * CHUNK_SIZE + PlaceOf(i) = i
  BY <1>1 DEF ChunkOf, PlaceOf
<1>3. PlaceOf(i) \in 1 .. BytesOf(l, p, ChunkOf(i))
  BY <1>1, <1>2 DEF BytesOf
<1>4. \A j \in 1 .. k :
        /\ Len(Chunk(e, j)) = BytesOf(l, p, j)
        /\ \A o \in 1 .. BytesOf(l, p, j) :
             Chunk(e, j)[o] = e[(j - 1) * CHUNK_SIZE + o]
  BY ChunkIs
<1> HIDE DEF E, k, e
<1>5. PlaceOf(i) <= Len(Chunk(e, ChunkOf(i)))
  BY <1>2, <1>3, <1>4
<1>6. Chunk(e, ChunkOf(i))[PlaceOf(i)] = e[(ChunkOf(i) - 1) * CHUNK_SIZE + PlaceOf(i)]
  BY <1>2, <1>3, <1>4
<1>7. QED
  BY <1>2, <1>5, <1>6 DEF E, k, e

(* A pack that holds the envelope of a message: the number of the chunks,  *)
(* and every byte in its place, with or without something behind it.       *)
Holds(pack, l, p) ==
  /\ pack[1] = <<Low(Chunks(l, p))>> /\ pack[2] = <<High(Chunks(l, p))>>
  /\ \A i \in 1 .. EnvelopeSize(l, p) :
       LET c == pack[3 + ENC_CHUNK_SIZE * (ChunkOf(i) - 1)]
       IN  PlaceOf(i) <= Len(c) /\ c[PlaceOf(i)] = Envelope(l, p)[i]

(* decipher puts its chunks together again.                                *)
LEMMA DecryptedIs ==
  ASSUME NEW l \in Nat \ {0}, NEW p \in Byte, l < U16, NEW pack, Holds(pack, l, p)
  PROVE  /\ ChunkCount(pack) = Chunks(l, p)
         /\ \A i \in 1 .. EnvelopeSize(l, p) : Decrypted(pack)[i] = Envelope(l, p)[i]
<1> DEFINE E == EnvelopeSize(l, p)
           k == Chunks(l, p)
<1>1. E \in Nat /\ k \in Nat /\ k < U16 /\ 255 * (k - 1) < E /\ E <= 255 * k
  BY Sizes DEF U16
<1>2. ChunkCount(pack) = k
  <2>1. pack[1][1] = Low(k) /\ pack[2][1] = High(k)
    BY DEF Holds
  <2>2. QED
    BY <1>1, <2>1, LowHigh DEF ChunkCount
<1>3. ASSUME NEW i \in 1 .. E
      PROVE  Decrypted(pack)[i] = Envelope(l, p)[i]
  <2> DEFINE c == pack[3 + ENC_CHUNK_SIZE * (ChunkOf(i) - 1)]
  <2>1. PlaceOf(i) <= Len(c) /\ c[PlaceOf(i)] = Envelope(l, p)[i]
    BY <1>3 DEF Holds
  <2>2. i \in 1 .. CHUNK_SIZE * ChunkCount(pack)
    BY <1>1, <1>2
  <2>3. ChunkOf(i) - 1 = (i - 1) \div CHUNK_SIZE
    BY <1>1 DEF ChunkOf
  <2>4. Decrypted(pack)[i] = IF PlaceOf(i) <= Len(c) THEN c[PlaceOf(i)] ELSE 0
    BY <2>2, <2>3 DEF Decrypted, PlaceOf
  <2>5. QED
    BY <2>1, <2>4
<1>4. QED
  BY <1>2, <1>3

(* The m bytes t are found behind the first f of d, and read from there.   *)
Run(d, f, m, t) == \A i \in 1 .. m : d[f + i] = t[i]

LEMMA Part ==
  ASSUME NEW d, NEW f \in Nat, NEW m \in Nat, NEW t \in Bytes(m), Run(d, f, m, t)
  PROVE  SubSeq(d, f + 1, f + m) = t
<1> USE DEF Run
<1>1. t \in Seq(Nat) /\ Len(t) = m
  BY IsSequence
<1>2. \A i \in f + 1 .. f + m : d[i] \in Nat
  <2> TAKE i \in f + 1 .. f + m
  <2>1. i - f \in 1 .. m /\ f + (i - f) = i
    OBVIOUS
  <2>2. d[f + (i - f)] = t[i - f]
    BY <2>1
  <2>3. QED
    BY <1>1, <2>1, <2>2
<1> DEFINE s == SubSeq(d, f + 1, f + m)
<1>3. s \in Seq(Nat) /\ Len(s) = m /\ \A i \in 1 .. m : s[i] = d[(f + 1) + i - 1]
  <2>1. /\ s \in Seq(Nat)
        /\ Len(s) = IF f + 1 <= f + m THEN (f + m) - (f + 1) + 1 ELSE 0
        /\ \A i \in 1 .. (f + m) - (f + 1) + 1 : s[i] = d[(f + 1) + i - 1]
    BY <1>2, SubSeqProperties
  <2>2. (f + m) - (f + 1) + 1 = m
    OBVIOUS
  <2> HIDE DEF s
  <2>3. QED
    BY <2>1, <2>2
<1> HIDE DEF s
<1>4. \A i \in 1 .. m : s[i] = t[i]
  <2> TAKE i \in 1 .. m
  <2>1. (f + 1) + i - 1 = f + i
    OBVIOUS
  <2>2. QED
    BY <1>3, <2>1
<1>5. s = t
  BY <1>1, <1>3, <1>4, SeqEqual
<1>6. QED
  BY <1>5 DEF s

(* The fields of an envelope as decipher finds them.                       *)
Opened(d, l, p) == \A i \in 1 .. EnvelopeSize(l, p) : d[i] = Envelope(l, p)[i]

LEMMA Found ==
  ASSUME NEW l \in Nat \ {0}, NEW p \in Byte, l < U16, NEW d, Opened(d, l, p)
  PROVE  /\ d[1] = p
         /\ d[p + 2] \in Nat /\ d[p + 3] \in Nat
         /\ d[p + 2] + 256 * d[p + 3] = l
         /\ SubSeq(d, p + 4, p + 35) = Digest(Message(l), HASH_SIZE)
         /\ SubSeq(d, p + 36, p + 547) = Digest(Message(l), SIG_SIZE)
         /\ SubSeq(d, p + 548, p + 547 + l) = Message(l)
<1> DEFINE E == EnvelopeSize(l, p)
           e == Envelope(l, p)
           t4 == Digest(Message(l), HASH_SIZE)
           t5 == Digest(Message(l), SIG_SIZE)
           t6 == Message(l)
           k4 == HASH_SIZE
           k5 == SIG_SIZE
           f4 == p + 3
           f5 == p + 35
           f6 == p + 547
<1>1. p \in Nat /\ l \in Nat /\ l > 0
  BY Sizes
<1>2. E = 547 + p + l
  BY Sizes
<1>3. e[1] = p /\ e[p + 2] = Low(l) /\ e[p + 3] = High(l)
  BY Fields
<1>4. \A i \in 1 .. k4 : e[f4 + i] = t4[i]
  BY Fields
<1>5. \A i \in 1 .. k5 : e[f5 + i] = t5[i]
  BY Fields
<1>6. \A i \in 1 .. l : e[f6 + i] = t6[i]
  BY Fields
<1>7. k4 \in Nat /\ t4 \in Bytes(k4)
  BY <1>1, DigestSizes, DigestType
<1>8. k5 \in Nat /\ t5 \in Bytes(k5)
  BY <1>1, DigestSizes, DigestType
<1>9. t6 \in Bytes(l)
  BY <1>1, MessageType
<1>10. \A i \in 1 .. E : d[i] = e[i]
  BY DEF Opened
<1> HIDE DEF E, e, t4, t5, t6
<1>11. d[1] = p /\ d[p + 2] = Low(l) /\ d[p + 3] = High(l)
  <2>1. 1 \in 1 .. E /\ p + 2 \in 1 .. E /\ p + 3 \in 1 .. E
    BY <1>1, <1>2
  <2>2. QED
    BY <1>3, <1>10, <2>1
<1>12. d[p + 2] \in Nat /\ d[p + 3] \in Nat /\ d[p + 2] + 256 * d[p + 3] = l
  BY <1>1, <1>11, LowHigh
<1>13. /\ f4 \in Nat /\ f5 \in Nat /\ f6 \in Nat
       /\ f4 + 1 = p + 4 /\ f4 + k4 = p + 35
       /\ f5 + 1 = p + 36 /\ f5 + k5 = p + 547
       /\ f6 + 1 = p + 548 /\ f6 + l = p + 547 + l
  BY <1>1, DigestSizes
<1>14. /\ \A i \in 1 .. k4 : f4 + i \in 1 .. E
       /\ \A i \in 1 .. k5 : f5 + i \in 1 .. E
       /\ \A i \in 1 .. l : f6 + i \in 1 .. E
  BY <1>1, <1>2, DigestSizes
<1> HIDE DEF k4, k5, f4, f5, f6
<1>15. SubSeq(d, f4 + 1, f4 + k4) = t4
  <2>1. Run(d, f4, k4, t4)
    BY <1>4, <1>10, <1>14 DEF Run
  <2>2. f4 \in Nat /\ k4 \in Nat /\ t4 \in Bytes(k4)
    BY <1>7, <1>13
  <2>3. QED
    BY <2>1, <2>2, Part
<1>16. SubSeq(d, f5 + 1, f5 + k5) = t5
  <2>1. Run(d, f5, k5, t5)
    BY <1>5, <1>10, <1>14 DEF Run
  <2>2. f5 \in Nat /\ k5 \in Nat /\ t5 \in Bytes(k5)
    BY <1>8, <1>13
  <2>3. QED
    BY <2>1, <2>2, Part
<1>17. SubSeq(d, f6 + 1, f6 + l) = t6
  <2>1. Run(d, f6, l, t6)
    BY <1>6, <1>10, <1>14 DEF Run
  <2>2. f6 \in Nat /\ l \in Nat /\ t6 \in Bytes(l)
    BY <1>1, <1>9, <1>13
  <2>3. QED
    BY <2>1, <2>2, Part
<1>18. SubSeq(d, p + 4, p + 35) = t4
  BY <1>13, <1>15
<1>19. SubSeq(d, p + 36, p + 547) = t5
  BY <1>13, <1>16
<1>20. SubSeq(d, p + 548, p + 547 + l) = t6
  BY <1>13, <1>17
<1>21. QED
  BY <1>11, <1>12, <1>18, <1>19, <1>20 DEF t4, t5, t6

(* decipher of the C++ program reads what the pack holds.                  *)
LEMMA DecipherReads ==
  ASSUME NEW l \in Nat \ {0}, NEW p \in Byte, l < U16, NEW pack, Holds(pack, l, p)
  PROVE  Decipher(pack) = Message(l)
<1> DEFINE d == Decrypted(pack)
           t4 == Digest(Message(l), HASH_SIZE)
           t5 == Digest(Message(l), SIG_SIZE)
<1>1. p \in Nat /\ l \in Nat
  BY Sizes
<1>2. Opened(d, l, p)
  BY DecryptedIs DEF Opened
<1> HIDE DEF d
<1>3. /\ d[1] = p /\ d[p + 2] \in Nat /\ d[p + 3] \in Nat
      /\ d[p + 2] + 256 * d[p + 3] = l
  BY <1>2, Found
<1>4. SubSeq(d, p + 4, p + 35) = t4
  BY <1>2, Found
<1>5. SubSeq(d, p + 36, p + 547) = t5
  BY <1>2, Found
<1>6. SubSeq(d, p + 548, p + 547 + l) = Message(l)
  BY <1>2, Found
<1> DEFINE size == d[1] + 2
           crc == size + 2
           sign == crc + HASH_SIZE
           first == sign + SIG_SIZE
           last == first + d[size] + 256 * d[size + 1] - 1
           msg == SubSeq(d, first, last)
<1>7. size = p + 2 /\ crc = p + 4 /\ sign - 1 = p + 35 /\ sign = p + 36
  BY <1>1, <1>3, DigestSizes
<1>8. first - 1 = p + 547 /\ first = p + 548 /\ size + 1 = p + 3
  BY <1>1, <1>3, DigestSizes
<1>9. d[size] = d[p + 2] /\ d[size + 1] = d[p + 3]
  BY <1>7, <1>8
<1> HIDE DEF size, crc, sign, first
<1>10. /\ d[size] \in Nat /\ d[size + 1] \in Nat
       /\ d[size] + 256 * d[size + 1] = l
  BY <1>3, <1>9
<1>11. last = p + 547 + l
  BY <1>1, <1>8, <1>10
<1> HIDE DEF last, msg
<1>12. msg = Message(l)
  BY <1>6, <1>8, <1>11 DEF msg
<1>13. SubSeq(d, sign, first - 1) = t5 /\ SubSeq(d, crc, sign - 1) = t4
  BY <1>4, <1>5, <1>7, <1>8
<1>14. Decipher(pack) = IF /\ SubSeq(d, sign, first - 1) = Digest(msg, SIG_SIZE)
                           /\ SubSeq(d, crc, sign - 1) = Digest(msg, HASH_SIZE)
                        THEN msg ELSE <<>>
  BY DEF Decipher, d, size, crc, sign, first, last, msg
<1>15. QED
  BY <1>12, <1>13, <1>14

-----------------------------------------------------------------------------
(* The packs.                                                              *)

(* Every chunk of the envelope stands for itself at its place.             *)
HasChunks(pack, l, p) ==
  \A j \in 1 .. Chunks(l, p) :
    pack[3 + ENC_CHUNK_SIZE * (j - 1)] = Chunk(Envelope(l, p), j)

(* encipher of the C++ program, its marker included, symbol by symbol.     *)
LEMMA PackIs ==
  ASSUME NEW l \in Nat \ {0}, NEW p \in Byte
  PROVE  LET k == Chunks(l, p)
             size == PackSize(l, p)
             pack == Pack(l, p)
         IN  /\ Len(pack) = size
             /\ pack[1] = <<Low(k)>> /\ pack[2] = <<High(k)>>
             /\ HasChunks(pack, l, p)
             /\ \A i \in 3 .. size - SYNC_MARKER_SIZE :
                  (i - 3) % ENC_CHUNK_SIZE # 0 => pack[i] = <<>>
             /\ \A i \in 1 .. SYNC_MARKER_SIZE :
                  pack[size - SYNC_MARKER_SIZE + i] = <<0>>
<1> DEFINE k == Chunks(l, p)
           size == PackSize(l, p)
           pack == Pack(l, p)
           e == Envelope(l, p)
           m == SYNC_MARKER_SIZE
           first == <<Low(k)>>
           second == <<High(k)>>
           chunks == [j \in 1 .. k |-> Chunk(e, j)]
           Symbol(i) == IF i % ENC_CHUNK_SIZE = 0
                        THEN chunks[i \div ENC_CHUNK_SIZE + 1] ELSE <<>>
<1>1. k \in Nat /\ k >= 3 /\ m = 32 /\ size = 34 + 512 * k
  BY Sizes DEF SYNC_MARKER_SIZE
<1>2. pack = [i \in 1 .. size |->
                CASE i = 1 -> first
                  [] i = 2 -> second
                  [] i > size - m -> <<0>>
                  [] OTHER -> Symbol(i - 3)]
  BY DEF Pack
<1> HIDE DEF k, size, pack, e, m, first, second, Symbol
<1>3. Len(pack) = size
  <2>1. size \in Nat /\ DOMAIN pack = 1 .. size
    BY <1>1, <1>2
  <2>2. QED
    BY <2>1
<1>4. pack[1] = first /\ pack[2] = second
  <2>1. 1 \in 1 .. size /\ 2 \in 1 .. size
    BY <1>1
  <2>2. \A i \in 1 .. size : (i = 1 => pack[i] = first) /\ (i = 2 => pack[i] = second)
    BY <1>1, <1>2
  <2>3. QED
    BY <2>1, <2>2
<1>5. ASSUME NEW j \in 1 .. k
      PROVE  pack[3 + ENC_CHUNK_SIZE * (j - 1)] = Chunk(e, j)
  <2> DEFINE i == 3 + ENC_CHUNK_SIZE * (j - 1)
  <2>1. i \in 1 .. size /\ i # 1 /\ i # 2 /\ ~(i > size - m)
    BY <1>1
  <2>2. (i - 3) % ENC_CHUNK_SIZE = 0 /\ (i - 3) \div ENC_CHUNK_SIZE + 1 = j
    BY <1>1
  <2> HIDE DEF i
  <2>3. pack[i] = Symbol(i - 3)
    BY <1>2, <2>1
  <2>4. QED
    BY <2>2, <2>3 DEF i, Symbol
<1>6. ASSUME NEW i \in 3 .. size - m, (i - 3) % ENC_CHUNK_SIZE # 0
      PROVE  pack[i] = <<>>
  <2>1. i \in 1 .. size /\ i # 1 /\ i # 2 /\ ~(i > size - m)
    BY <1>1, <1>6
  <2>2. pack[i] = Symbol(i - 3)
    BY <1>2, <2>1
  <2>3. QED
    BY <1>6, <2>2 DEF Symbol
<1>7. ASSUME NEW i \in 1 .. m
      PROVE  pack[size - m + i] = <<0>>
  <2> DEFINE x == size - m + i
  <2>1. x \in 1 .. size /\ x # 1 /\ x # 2 /\ x > size - m
    BY <1>1
  <2> HIDE DEF x
  <2>2. pack[x] = <<0>>
    BY <1>2, <2>1
  <2>3. QED
    BY <2>2 DEF x
<1>8. HasChunks(pack, l, p)
  BY <1>5 DEF HasChunks, k, e
<1>9. QED
  BY <1>3, <1>4, <1>6, <1>7, <1>8 DEF k, size, pack, m, first, second

(* The first symbols of a pack.                                            *)
LEMMA Prefix ==
  ASSUME NEW pack, NEW m \in Nat
  PROVE  /\ Len(SubSeq(pack, 1, m)) = m
         /\ \A i \in 1 .. m : SubSeq(pack, 1, m)[i] = pack[i]
<1> DEFINE S == {pack[i] : i \in 1 .. m}
<1>1. \A i \in 1 .. m : pack[i] \in S
  OBVIOUS
<1> HIDE DEF S
<1>2. /\ Len(SubSeq(pack, 1, m)) = IF 1 <= m THEN m - 1 + 1 ELSE 0
      /\ \A i \in 1 .. m - 1 + 1 : SubSeq(pack, 1, m)[i] = pack[1 + i - 1]
  BY <1>1, SubSeqProperties
<1>3. QED
  BY <1>2

(* What is needed for a pack to hold an envelope.                          *)
LEMMA HoldsIf ==
  ASSUME NEW l \in Nat \ {0}, NEW p \in Byte, NEW pack,
         pack[1] = <<Low(Chunks(l, p))>>, pack[2] = <<High(Chunks(l, p))>>,
         \A j \in 1 .. Chunks(l, p) :
           LET c == pack[3 + ENC_CHUNK_SIZE * (j - 1)]
               d == Chunk(Envelope(l, p), j)
           IN  Len(d) <= Len(c) /\ \A o \in 1 .. Len(d) : c[o] = d[o]
  PROVE  Holds(pack, l, p)
<1>1. ASSUME NEW i \in 1 .. EnvelopeSize(l, p)
      PROVE  LET c == pack[3 + ENC_CHUNK_SIZE * (ChunkOf(i) - 1)]
             IN  PlaceOf(i) <= Len(c) /\ c[PlaceOf(i)] = Envelope(l, p)[i]
  <2> DEFINE d == Chunk(Envelope(l, p), ChunkOf(i))
             j == ChunkOf(i)
             o == PlaceOf(i)
             c == pack[3 + ENC_CHUNK_SIZE * (j - 1)]
  <2>1. /\ j \in 1 .. Chunks(l, p) /\ o \in 1 .. CHUNK_SIZE /\ o <= Len(d)
        /\ d[o] = Envelope(l, p)[i]
    BY Place
  <2>2. Len(d) \in Nat
    BY <2>1, ChunkIs, IsSequence
  <2>3. Len(d) <= Len(c) /\ \A x \in 1 .. Len(d) : c[x] = d[x]
    BY <2>1
  <2> HIDE DEF d, j, o, c
  <2>4. o \in 1 .. Len(d)
    BY <2>1, <2>2
  <2>5. QED
    BY <2>1, <2>3, <2>4 DEF d, j, o, c
<1>2. QED
  BY <1>1 DEF Holds

(* The symbols that encipher of the C++ program returns, which stand in    *)
(* front of the marker.                                                    *)
Enciphered(pack, l, p) ==
  \A i \in 1 .. PackSize(l, p) - SYNC_MARKER_SIZE : pack[i] = Pack(l, p)[i]

LEMMA EncipheredIs ==
  ASSUME NEW l \in Nat \ {0}, NEW p \in Byte, NEW pack, Enciphered(pack, l, p)
  PROVE  LET k == Chunks(l, p)
         IN  /\ pack[1] = <<Low(k)>> /\ pack[2] = <<High(k)>>
             /\ \A j \in 1 .. k :
                  pack[3 + ENC_CHUNK_SIZE * (j - 1)] = Chunk(Envelope(l, p), j)
<1> DEFINE k == Chunks(l, p)
           m == PackSize(l, p) - SYNC_MARKER_SIZE
           whole == Pack(l, p)
           first == <<Low(k)>>
           second == <<High(k)>>
<1>1. k \in Nat /\ k >= 3 /\ m = 2 + 512 * k
  BY Sizes DEF SYNC_MARKER_SIZE
<1>2. whole[1] = first /\ whole[2] = second
  BY PackIs
<1>3. \A j \in 1 .. k : whole[3 + ENC_CHUNK_SIZE * (j - 1)] = Chunk(Envelope(l, p), j)
  <2>1. HasChunks(whole, l, p)
    BY PackIs
  <2>2. QED
    BY <2>1 DEF HasChunks
<1>4. \A i \in 1 .. m : pack[i] = whole[i]
  BY DEF Enciphered
<1> HIDE DEF k, m, whole, first, second
<1>5. 1 \in 1 .. m /\ 2 \in 1 .. m
  BY <1>1
<1>6. \A j \in 1 .. k : 3 + ENC_CHUNK_SIZE * (j - 1) \in 1 .. m
  BY <1>1
<1>7. pack[1] = first /\ pack[2] = second
  BY <1>2, <1>4, <1>5
<1>8. \A j \in 1 .. k : pack[3 + ENC_CHUNK_SIZE * (j - 1)] = Chunk(Envelope(l, p), j)
  BY <1>3, <1>4, <1>6
<1>9. QED
  BY <1>7, <1>8 DEF k, first, second

(* They hold the envelope.                                                 *)
LEMMA EncipheredHolds ==
  ASSUME NEW l \in Nat \ {0}, NEW p \in Byte, NEW pack, Enciphered(pack, l, p)
  PROVE  Holds(pack, l, p)
<1> DEFINE e == Envelope(l, p)
<1>1. pack[1] = <<Low(Chunks(l, p))>> /\ pack[2] = <<High(Chunks(l, p))>>
  BY EncipheredIs
<1>2. ASSUME NEW j \in 1 .. Chunks(l, p)
      PROVE  LET c == pack[3 + ENC_CHUNK_SIZE * (j - 1)]
                 d == Chunk(e, j)
             IN  Len(d) <= Len(c) /\ \A o \in 1 .. Len(d) : c[o] = d[o]
  <2>1. pack[3 + ENC_CHUNK_SIZE * (j - 1)] = Chunk(e, j)
    BY EncipheredIs
  <2>2. Len(Chunk(e, j)) \in Nat
    BY ChunkIs, IsSequence
  <2> HIDE DEF e
  <2>3. QED
    BY <2>1, <2>2
<1>3. QED
  BY <1>1, <1>2, HoldsIf DEF e

LEMMA SrvPackIs ==
  ASSUME NEW l \in Nat \ {0}, NEW p \in Byte
  PROVE  Enciphered(SrvPack(l, p), l, p)
<1>1. PackSize(l, p) - SYNC_MARKER_SIZE \in Nat
  BY Sizes DEF SYNC_MARKER_SIZE
<1>2. QED
  BY <1>1, Prefix DEF Enciphered, SrvPack

(* split_buffer: a chunk, filled up.                                       *)
LEMMA SplitIs ==
  ASSUME NEW l \in Nat \ {0}, NEW p \in Byte, NEW j \in 1 .. Chunks(l, p)
  PROVE  LET c == split_buffer(Envelope(l, p), j)
             d == Chunk(Envelope(l, p), j)
         IN  /\ c \in Bytes(CHUNK_SIZE)
             /\ Len(d) \in Nat /\ Len(d) <= CHUNK_SIZE
             /\ \A o \in 1 .. Len(d) : c[o] = d[o]
<1> DEFINE e == Envelope(l, p)
           d == Chunk(e, j)
           m == BytesOf(l, p, j)
           z == CHUNK_SIZE - m
           zeros == [i \in 1 .. z |-> 0]
<1>1. m \in Nat /\ m <= CHUNK_SIZE /\ z \in Nat /\ m + z = CHUNK_SIZE
  <2>1. EnvelopeSize(l, p) \in Nat /\ Chunks(l, p) \in Nat
    BY Sizes
  <2>2. /\ 255 * (Chunks(l, p) - 1) < EnvelopeSize(l, p)
        /\ EnvelopeSize(l, p) <= 255 * Chunks(l, p)
    BY Sizes
  <2>3. QED
    BY <2>1, <2>2 DEF BytesOf
<1>2. d \in Bytes(m) /\ Len(d) = m
  BY ChunkIs
<1>3. zeros \in Bytes(z)
  BY <1>1 DEF Bytes
<1>4. split_buffer(e, j) = d \o zeros
  BY <1>2 DEF split_buffer
<1> HIDE DEF d, m, z, zeros, e
<1>5. d \o zeros \in Bytes(m + z) /\ \A o \in 1 .. m : (d \o zeros)[o] = d[o]
  <2>1. m \in Nat /\ z \in Nat /\ d \in Bytes(m) /\ zeros \in Bytes(z)
    BY <1>1, <1>2, <1>3
  <2>2. Behind(d \o zeros, m, d, z, zeros)
    BY <2>1, Concat
  <2>3. QED
    BY <2>2 DEF Behind
<1>6. QED
  BY <1>1, <1>2, <1>4, <1>5 DEF d, e

(* A pack of the C program holds its envelope, and its chunks are full.    *)
LEMMA TermPackIs ==
  ASSUME NEW l \in Nat \ {0}, NEW random \in Byte
  PROVE  LET p == rnd_size(random)
             k == Chunks(l, p)
             pack == TermPack(l, random)
         IN  /\ pack[1] = <<Low(k)>> /\ pack[2] = <<High(k)>>
             /\ \A j \in 1 .. k :
                  pack[3 + ENC_CHUNK_SIZE * (j - 1)] = split_buffer(Envelope(l, p), j)
<1> DEFINE p == rnd_size(random)
           k == Chunks(l, p)
           e == Envelope(l, p)
           pack == TermPack(l, random)
           first == <<Low(k)>>
           second == <<High(k)>>
           chunks == [j \in 1 .. k |-> split_buffer(e, j)]
           symbols == [i \in 1 .. ENC_CHUNK_SIZE * k |->
                         IF i % ENC_CHUNK_SIZE = 1
                         THEN chunks[i \div ENC_CHUNK_SIZE + 1] ELSE <<>>]
           m == ENC_CHUNK_SIZE * k
           S == {first, second} \cup {symbols[i] : i \in 1 .. m}
<1>1. p \in Byte
  BY DEF rnd_size, Byte
<1>2. k \in Nat /\ k >= 3
  BY <1>1, Sizes
<1>3. pack = <<first, second>> \o symbols
  BY DEF TermPack
<1> HIDE DEF p, k, e, pack, first, second, chunks
<1>4. symbols \in [1 .. m -> S] /\ m \in Nat
  BY <1>2
<1>5. \A j \in 1 .. k : symbols[1 + ENC_CHUNK_SIZE * (j - 1)] = split_buffer(e, j)
  <2> TAKE j \in 1 .. k
  <2> DEFINE i == 1 + ENC_CHUNK_SIZE * (j - 1)
  <2>1. i \in 1 .. m /\ i % ENC_CHUNK_SIZE = 1 /\ i \div ENC_CHUNK_SIZE + 1 = j
    BY <1>2
  <2> HIDE DEF i
  <2>2. symbols[i] = chunks[j]
    BY <2>1
  <2>3. QED
    BY <2>2 DEF i, chunks
<1>6. <<first, second>> \in Seq(S)
  OBVIOUS
<1> HIDE DEF symbols, m, S
<1>7. symbols \in Seq(S) /\ Len(symbols) = m
  BY <1>4, SeqDef, LenProperties
<1>8. pack[1] = first /\ pack[2] = second
  BY <1>3, <1>6, <1>7
<1>9. \A i \in 1 .. m : pack[2 + i] = symbols[i]
  BY <1>3, <1>4, <1>6, <1>7
<1>10. ASSUME NEW j \in 1 .. k
       PROVE  pack[3 + ENC_CHUNK_SIZE * (j - 1)] = split_buffer(e, j)
  <2> DEFINE i == 1 + ENC_CHUNK_SIZE * (j - 1)
  <2>1. i \in 1 .. m /\ 2 + i = 3 + ENC_CHUNK_SIZE * (j - 1)
    BY <1>2 DEF m
  <2>2. symbols[i] = split_buffer(e, j)
    BY <1>5
  <2> HIDE DEF i
  <2>3. pack[2 + i] = split_buffer(e, j)
    BY <1>9, <2>1, <2>2
  <2>4. QED
    BY <2>1, <2>3
<1>11. QED
  BY <1>8, <1>10 DEF p, k, e, pack, first, second

LEMMA TermPackHolds ==
  ASSUME NEW l \in Nat \ {0}, NEW random \in Byte
  PROVE  Holds(TermPack(l, random), l, rnd_size(random))
<1> DEFINE p == rnd_size(random)
           pack == TermPack(l, random)
           e == Envelope(l, p)
<1>1. p \in Byte
  BY DEF rnd_size, Byte
<1>2. pack[1] = <<Low(Chunks(l, p))>> /\ pack[2] = <<High(Chunks(l, p))>>
  BY TermPackIs
<1>3. ASSUME NEW j \in 1 .. Chunks(l, p)
      PROVE  LET c == pack[3 + ENC_CHUNK_SIZE * (j - 1)]
                 d == Chunk(e, j)
             IN  Len(d) <= Len(c) /\ \A o \in 1 .. Len(d) : c[o] = d[o]
  <2> DEFINE c == pack[3 + ENC_CHUNK_SIZE * (j - 1)]
             d == Chunk(e, j)
             k == CHUNK_SIZE
  <2>1. c = split_buffer(e, j)
    BY TermPackIs
  <2>2. /\ split_buffer(e, j) \in Bytes(k)
        /\ Len(d) \in Nat /\ Len(d) <= k
        /\ \A o \in 1 .. Len(d) : split_buffer(e, j)[o] = d[o]
    BY <1>1, SplitIs
  <2>3. k \in Nat
    OBVIOUS
  <2> HIDE DEF c, d, k
  <2>4. Len(c) = k
    BY <2>1, <2>2, <2>3, IsSequence
  <2>5. QED
    BY <2>1, <2>2, <2>4 DEF c, d
<1> HIDE DEF pack, p
<1>4. QED
  BY <1>1, <1>2, <1>3, HoldsIf DEF pack, p, e

(* A pack of the C program has full chunks only.                           *)
LEMMA TermPackFull ==
  ASSUME NEW l \in Nat \ {0}, NEW random \in Byte, l < U16
  PROVE  FullChunks(TermPack(l, random))
<1> DEFINE p == rnd_size(random)
           k == CHUNK_SIZE
           pack == TermPack(l, random)
<1>1. p \in Byte /\ k \in Nat
  BY DEF rnd_size, Byte
<1>2. ChunkCount(pack) = Chunks(l, p)
  BY <1>1, TermPackHolds, DecryptedIs
<1> HIDE DEF p
<1>3. ASSUME NEW j \in 1 .. Chunks(l, p)
      PROVE  Len(pack[3 + ENC_CHUNK_SIZE * (j - 1)]) = k
  <2>1. pack[3 + ENC_CHUNK_SIZE * (j - 1)] = split_buffer(Envelope(l, p), j)
    BY TermPackIs DEF p
  <2>2. split_buffer(Envelope(l, p), j) \in Bytes(k)
    BY <1>1, SplitIs
  <2> HIDE DEF k, pack
  <2>3. QED
    BY <1>1, <2>1, <2>2, IsSequence
<1> HIDE DEF pack
<1>4. QED
  BY <1>2, <1>3 DEF FullChunks, pack

(* One of the C++ program only if its last chunk happens to be full.       *)
LEMMA SrvPackFull ==
  ASSUME NEW l \in Nat \ {0}, NEW p \in Byte, l < U16
  PROVE  FullChunks(SrvPack(l, p)) <=> EnvelopeSize(l, p) % CHUNK_SIZE = 0
<1> DEFINE E == EnvelopeSize(l, p)
           k == Chunks(l, p)
           full == CHUNK_SIZE
           pack == SrvPack(l, p)
<1>1. ChunkCount(pack) = k
  BY SrvPackIs, EncipheredHolds, DecryptedIs
<1>2. ASSUME NEW j \in 1 .. k
      PROVE  Len(pack[3 + ENC_CHUNK_SIZE * (j - 1)]) = BytesOf(l, p, j)
  BY SrvPackIs, EncipheredIs, ChunkIs
<1>3. E \in Nat /\ k \in Nat /\ k >= 3 /\ 255 * (k - 1) < E /\ E <= 255 * k
  BY Sizes
<1> HIDE DEF pack
<1>4. FullChunks(pack) <=> \A j \in 1 .. k : BytesOf(l, p, j) = full
  <2> HIDE DEF CHUNK_SIZE, k
  <2>1. QED
    BY <1>1, <1>2 DEF FullChunks
<1> HIDE DEF E, k
<1>5. (\A j \in 1 .. k : BytesOf(l, p, j) = full) <=> BytesOf(l, p, k) = full
  BY <1>3 DEF BytesOf, k
<1>6. BytesOf(l, p, k) = E - (k - 1) * CHUNK_SIZE
  BY <1>3 DEF BytesOf, k, E
<1>7. BytesOf(l, p, k) = full <=> E = 255 * k
  BY <1>3, <1>6
<1>8. E = 255 * k <=> E % CHUNK_SIZE = 0
  BY <1>3
<1>9. QED
  BY <1>4, <1>5, <1>7, <1>8 DEF pack, E

(* decipher of the C program reads what the pack holds, if it is padded    *)
(* and its chunks are full.                                                *)
LEMMA TermDecipherReads ==
  ASSUME NEW l \in Nat \ {0}, NEW p \in Byte, l < U16, NEW pack, Holds(pack, l, p)
  PROVE  TermDecipher(pack) =
           IF FullChunks(pack) /\ p # 0 THEN Message(l) ELSE <<>>
<1> DEFINE d == Decrypted(pack)
           t4 == Digest(Message(l), HASH_SIZE)
           t5 == Digest(Message(l), SIG_SIZE)
           size == d[1] + 2
           crc == size + 2
           sign == crc + HASH_SIZE
           first == sign + SIG_SIZE
           last == first + d[size] + 256 * d[size + 1] - 1
           msg == SubSeq(d, first, last)
<1>1. p \in Nat /\ l \in Nat
  BY Sizes
<1>2. Opened(d, l, p)
  BY DecryptedIs DEF Opened
<1>3. d # <<>> /\ Len(d) \in Nat /\ Len(d) >= p + 547 + l
  <2> DEFINE m == CHUNK_SIZE * ChunkCount(pack)
  <2>1. m \in Nat /\ m > 0 /\ m >= p + 547 + l
    <3>1. ChunkCount(pack) = Chunks(l, p)
      BY DecryptedIs
    <3>2. QED
      BY <1>1, <3>1, Sizes
  <2>2. DOMAIN d = 1 .. m
    BY DEF Decrypted
  <2>3. Len(d) = m
    BY <2>1, <2>2 DEF Decrypted
  <2> HIDE DEF d, m
  <2>4. QED
    BY <1>1, <2>1, <2>2, <2>3
<1> HIDE DEF d
<1>4. /\ d[1] = p /\ d[p + 2] \in Nat /\ d[p + 3] \in Nat
      /\ d[p + 2] + 256 * d[p + 3] = l
  BY <1>2, Found
<1>5. SubSeq(d, p + 4, p + 35) = t4
  BY <1>2, Found
<1>6. SubSeq(d, p + 36, p + 547) = t5
  BY <1>2, Found
<1>7. SubSeq(d, p + 548, p + 547 + l) = Message(l)
  BY <1>2, Found
<1>8. size = p + 2 /\ crc = p + 4 /\ sign - 1 = p + 35 /\ sign = p + 36
  BY <1>1, <1>4, DigestSizes
<1>9. first - 1 = p + 547 /\ first = p + 548 /\ size + 1 = p + 3
  BY <1>1, <1>4, DigestSizes
<1>10. d[size] = d[p + 2] /\ d[size + 1] = d[p + 3]
  BY <1>8, <1>9
<1> HIDE DEF size, crc, sign, first
<1>11. /\ d[size] \in Nat /\ d[size + 1] \in Nat
       /\ d[size] + 256 * d[size + 1] = l
  BY <1>4, <1>10
<1>12. last = p + 547 + l
  BY <1>1, <1>9, <1>11
<1> HIDE DEF last, msg
<1>13. msg = Message(l)
  BY <1>7, <1>9, <1>12 DEF msg
<1>14. SubSeq(d, sign, first - 1) = t5 /\ SubSeq(d, crc, sign - 1) = t4
  BY <1>5, <1>6, <1>8, <1>9
<1>15. first - 1 <= Len(d) /\ last <= Len(d)
  BY <1>1, <1>3, <1>9, <1>12
<1>16. TermDecipher(pack) =
         IF /\ FullChunks(pack)
            /\ d # <<>> /\ d[1] # 0
            /\ first - 1 <= Len(d) /\ last <= Len(d)
            /\ SubSeq(d, crc, sign - 1) = Digest(msg, HASH_SIZE)
            /\ SubSeq(d, sign, first - 1) = Digest(msg, SIG_SIZE)
         THEN msg ELSE <<>>
  BY DEF TermDecipher, d, size, crc, sign, first, last, msg
<1>17. QED
  BY <1>3, <1>4, <1>13, <1>14, <1>15, <1>16

(* Each program opens what it should of a pack of the other.               *)
LEMMA Dialects ==
  ASSUME NEW l \in Nat \ {0}, NEW random \in Byte, l < U16
  PROVE  /\ Decipher(SrvPack(l, random)) = Message(l)
         /\ Decipher(TermPack(l, random)) = Message(l)
         /\ TermDecipher(TermPack(l, random)) = Message(l)
         /\ TermDecipher(SrvPack(l, random)) =
              IF random = 0 \/ EnvelopeSize(l, random) % CHUNK_SIZE # 0
              THEN <<>> ELSE Message(l)
<1> DEFINE p == rnd_size(random)
           srv == SrvPack(l, random)
           term == TermPack(l, random)
<1>1. p \in Byte /\ p # 0
  BY DEF rnd_size, Byte
<1>2. Holds(srv, l, random)
  BY SrvPackIs, EncipheredHolds
<1>3. Holds(term, l, p)
  BY TermPackHolds
<1>4. FullChunks(term)
  BY TermPackFull
<1>5. FullChunks(srv) <=> EnvelopeSize(l, random) % CHUNK_SIZE = 0
  BY SrvPackFull
<1> HIDE DEF p, srv, term
<1>6. Decipher(srv) = Message(l)
  BY <1>2, DecipherReads
<1>7. Decipher(term) = Message(l)
  BY <1>1, <1>3, DecipherReads
<1>8. TermDecipher(term) = Message(l)
  BY <1>1, <1>3, <1>4, TermDecipherReads
<1>9. TermDecipher(srv) = IF FullChunks(srv) /\ random # 0 THEN Message(l) ELSE <<>>
  BY <1>2, TermDecipherReads
<1>10. QED
  BY <1>5, <1>6, <1>7, <1>8, <1>9 DEF srv, term

-----------------------------------------------------------------------------
(* The limits on the way.                                                  *)

(* The sizes of packets against the limits of the two lengths.             *)
LEMMA Limits ==
  ASSUME NEW l \in Nat \ {0}, NEW p \in Byte
  PROVE  /\ PackSize(l, p) \in Nat /\ PackSize(l, p) >= MIN_PACK_SIZE
         /\ l <= SafeLength => PackSize(l, p) <= MAX_PACK_SIZE
         /\ l <= WrapLength => PackSize(l, p) < U16
         /\ PackSize(l, p) < U16 => l < U16 /\ Header(l, p) = PackSize(l, p)
<1> DEFINE k == Chunks(l, p)
           N == PackSize(l, p)
<1>1. /\ p \in Nat /\ p <= 255 /\ l \in Nat /\ k \in Nat /\ k >= 3
      /\ 255 * (k - 1) < 547 + p + l /\ 547 + p + l <= 255 * k
      /\ N = 34 + 512 * k
  BY Sizes
<1>2. SafeLength = 7103 /\ WrapLength = 31583
  BY DigestSizes DEF SafeLength, WrapLength, EnvelopeSize
<1> HIDE DEF k, N
<1>3. N \in Nat /\ N >= MIN_PACK_SIZE
  BY <1>1 DEF MIN_PACK_SIZE
<1>4. l <= SafeLength => N <= MAX_PACK_SIZE
  BY <1>1, <1>2 DEF MAX_PACK_SIZE
<1>5. l <= WrapLength => N < U16
  BY <1>1, <1>2 DEF U16
<1>6. N < U16 => l < U16 /\ N % U16 = N
  BY <1>1 DEF U16
<1>7. QED
  BY <1>3, <1>4, <1>5, <1>6 DEF N, Header

(* A packet whose size fits in its header is read to its end, has its      *)
(* chunks and is opened.                                                   *)
LEMMA Arrives ==
  ASSUME NEW l \in Nat \ {0}, NEW p \in Byte, PackSize(l, p) < U16
  PROVE  LET body == SubSeq(Pack(l, p), 1, Header(l, p))
             pack == SubSeq(body, 1, Len(body) - SYNC_MARKER_SIZE)
         IN  /\ EndsInMarker(body) /\ HasAllChunks(pack)
             /\ Decipher(pack) = Message(l)
<1> DEFINE N == PackSize(l, p)
           m == SYNC_MARKER_SIZE
           whole == Pack(l, p)
           body == SubSeq(whole, 1, N)
           pack == SubSeq(body, 1, N - m)
           k == Chunks(l, p)
<1>1. /\ l < U16 /\ Header(l, p) = N /\ k \in Nat
      /\ N = 34 + 512 * k /\ m = 32
  BY Limits, Sizes DEF SYNC_MARKER_SIZE
<1>2. N \in Nat /\ N - m \in Nat /\ N - m = 2 + 512 * k
  BY <1>1
<1>3. \A i \in 1 .. m : whole[N - m + i] = <<0>>
  BY PackIs
<1> HIDE DEF N, m, whole, body, pack, k
<1>4. Len(body) = N /\ \A i \in 1 .. N : body[i] = whole[i]
  BY <1>2, Prefix DEF body
<1>5. Len(pack) = N - m /\ \A i \in 1 .. N - m : pack[i] = body[i]
  BY <1>2, Prefix DEF pack
<1>6. EndsInMarker(body)
  <2>1. ASSUME NEW i \in N - m + 1 .. N
        PROVE  body[i] = <<0>>
    <3>1. i - (N - m) \in 1 .. m /\ N - m + (i - (N - m)) = i /\ i \in 1 .. N
      BY <1>1, <1>2
    <3>2. whole[N - m + (i - (N - m))] = <<0>>
      BY <1>3, <3>1
    <3>3. QED
      BY <1>4, <3>1, <3>2
  <2>2. QED
    BY <1>4, <2>1 DEF EndsInMarker, m
<1>7. Enciphered(pack, l, p)
  <2>1. \A i \in 1 .. N - m : i \in 1 .. N
    BY <1>1, <1>2
  <2>2. \A i \in 1 .. N - m : pack[i] = whole[i]
    BY <1>4, <1>5, <2>1
  <2>3. QED
    BY <2>2 DEF Enciphered, N, m, whole
<1>8. Holds(pack, l, p)
  BY <1>7, EncipheredHolds
<1>9. HasAllChunks(pack)
  <2>1. ChunkCount(pack) = k
    BY <1>1, <1>8, DecryptedIs DEF k
  <2>2. Len(pack) - 2 = ENC_CHUNK_SIZE * k
    BY <1>1, <1>2, <1>5
  <2>3. Len(pack) - 2 >= ENC_CHUNK_SIZE * k
    BY <1>1, <2>2
  <2>4. QED
    BY <2>1, <2>3 DEF HasAllChunks
<1>10. Decipher(pack) = Message(l)
  BY <1>1, <1>8, DecipherReads
<1>11. QED
  BY <1>1, <1>4, <1>6, <1>9, <1>10 DEF body, pack, whole, m

(* One whose size does not fit, and whose header passes for a size all the *)
(* same, is cut off in the middle of a chunk: no marker is found.          *)
LEMMA CutOff ==
  ASSUME NEW l \in Nat \ {0}, NEW p \in Byte, PackSize(l, p) >= U16,
         Header(l, p) >= MIN_PACK_SIZE
  PROVE  ~EndsInMarker(SubSeq(Pack(l, p), 1, Header(l, p)))
<1> DEFINE N == PackSize(l, p)
           H == Header(l, p)
           m == SYNC_MARKER_SIZE
           whole == Pack(l, p)
           body == SubSeq(whole, 1, H)
           i == H - 30
<1>1. Chunks(l, p) \in Nat /\ N = 34 + 512 * Chunks(l, p) /\ N >= 65536
  BY Sizes DEF U16
<1>2. m = 32 /\ H = N % 65536 /\ H >= 1570
  BY DEF SYNC_MARKER_SIZE, Header, U16, MIN_PACK_SIZE
<1>3. H \in Nat /\ H <= N - 65536
  BY <1>1, <1>2
<1>4. (i - 3) % ENC_CHUNK_SIZE # 0
  BY <1>1, <1>2
<1>5. i \in 3 .. N - m /\ i \in 1 .. H /\ i \in H - m + 1 .. H
  BY <1>1, <1>2, <1>3
<1>6. \A x \in 3 .. N - m : (x - 3) % ENC_CHUNK_SIZE # 0 => whole[x] = <<>>
  BY PackIs
<1> HIDE DEF N, H, m, whole, body, i
<1>7. Len(body) = H /\ \A x \in 1 .. H : body[x] = whole[x]
  BY <1>3, Prefix DEF body
<1>8. body[i] = <<>>
  BY <1>4, <1>5, <1>6, <1>7
<1>9. <<>> # <<0>>
  OBVIOUS
<1>10. ~EndsInMarker(body)
  BY <1>5, <1>7, <1>8, <1>9 DEF EndsInMarker, m
<1>11. QED
  BY <1>10 DEF body, whole, H

-----------------------------------------------------------------------------
(* The way of a message and the opening of packs, as state machines.       *)

(* Where a message can be, and what is then known of its packet.           *)
OnItsWay ==
  /\ at \in {"idle", "sent", "relayed", "announced", "evicted", "recovered", "shown"}
  /\ at # "idle" => n \in MessageLength /\ r \in RandomLength
  /\ at = "evicted" => Header(n, r) > MAX_PACK_SIZE
  /\ at \in {"relayed", "announced"} => Header(n, r) <= MAX_PACK_SIZE
  /\ at = "announced" => Header(n, r) >= MIN_PACK_SIZE
  /\ at = "recovered" => PackSize(n, r) >= U16
  /\ at = "shown" => text = Message(n)

(* A pack that was sealed, and what was read if it was opened.             *)
SealedAndOpened ==
  /\ by \in {"none", "srv", "term"}
  /\ by # "none" => len \in SealedLength /\ pad \in RandomLength
  /\ reader \in {"none", "srv", "term"}
  /\ by = "none" => reader = "none"
  /\ DialectsAgree

IInv == OnItsWay /\ SealedAndOpened

(* A length and a padding that were drawn.                                 *)
LEMMA Drawn ==
  /\ \A l \in MessageLength : l \in Nat \ {0}
  /\ \A l \in SealedLength : l \in Nat \ {0}
  /\ \A p \in RandomLength : p \in Byte
BY ConstantsAssumption, SealedAssumption

(* Sending draws a message anew.                                           *)
LEMMA SendStep == ASSUME OnItsWay, Send PROVE OnItsWay'
BY DEF OnItsWay, Send

(* The server compares the header with the longest packet.                 *)
LEMMA ServerReadsStep == ASSUME OnItsWay, ServerReads PROVE OnItsWay'
<1>1. n \in MessageLength /\ r \in RandomLength
  BY DEF OnItsWay, ServerReads
<1>2. Header(n, r) \in Nat
  <2>1. PackSize(n, r) \in Nat
    BY <1>1, Drawn, Limits
  <2>2. QED
    BY <2>1 DEF Header, U16
<1>3. (Header(n, r))' = Header(n, r)
  BY DEF ServerReads, Header, PackSize, Chunks, EnvelopeSize
<1>4. at' = IF Header(n, r) > MAX_PACK_SIZE THEN "evicted" ELSE "relayed"
  BY DEF ServerReads
<1>5. n' = n /\ r' = r
  BY DEF ServerReads
<1>6. MAX_PACK_SIZE \in Nat
  BY DEF MAX_PACK_SIZE
<1>7. CASE Header(n, r) > MAX_PACK_SIZE
  BY <1>1, <1>3, <1>4, <1>5, <1>7 DEF OnItsWay
<1>8. CASE ~(Header(n, r) > MAX_PACK_SIZE)
  <2>1. Header(n, r) <= MAX_PACK_SIZE
    BY <1>2, <1>6, <1>8
  <2>2. QED
    BY <1>1, <1>3, <1>4, <1>5, <1>8, <2>1 DEF OnItsWay
<1>9. QED
  BY <1>7, <1>8

(* The receiver does with the longest and the shortest packet: only a      *)
(* length that has wrapped is too short.                                   *)
LEMMA ClientReadsHeaderStep == ASSUME OnItsWay, ClientReadsHeader PROVE OnItsWay'
<1>1. n \in MessageLength /\ r \in RandomLength
  BY DEF OnItsWay, ClientReadsHeader
<1>2. Header(n, r) <= MAX_PACK_SIZE
  BY DEF OnItsWay, ClientReadsHeader
<1>3. /\ PackSize(n, r) \in Nat /\ PackSize(n, r) >= MIN_PACK_SIZE
      /\ PackSize(n, r) < U16 => Header(n, r) = PackSize(n, r)
  BY <1>1, Drawn, Limits
<1>4. Header(n, r) \in Nat
  BY <1>3 DEF Header, U16
<1>5. U16 \in Nat /\ MIN_PACK_SIZE \in Nat /\ MAX_PACK_SIZE \in Nat
  BY DEF U16, MIN_PACK_SIZE, MAX_PACK_SIZE
<1>6. n' = n /\ r' = r
  BY DEF ClientReadsHeader
<1>7. (Header(n, r))' = Header(n, r) /\ (PackSize(n, r))' = PackSize(n, r)
  BY <1>6 DEF Header, PackSize, Chunks, EnvelopeSize
<1>8. CASE Header(n, r) \in MIN_PACK_SIZE .. MAX_PACK_SIZE
  <2>1. at' = "announced" /\ Header(n, r) >= MIN_PACK_SIZE
    BY <1>4, <1>5, <1>8 DEF ClientReadsHeader
  <2>2. QED
    BY <1>1, <1>2, <1>6, <1>7, <2>1 DEF OnItsWay
<1>9. CASE Header(n, r) \notin MIN_PACK_SIZE .. MAX_PACK_SIZE
  <2>1. at' = "recovered"
    BY <1>9 DEF ClientReadsHeader
  <2>2. Header(n, r) < MIN_PACK_SIZE
    BY <1>2, <1>4, <1>5, <1>9
  <2>3. PackSize(n, r) >= U16
    BY <1>3, <1>4, <1>5, <2>2
  <2>4. QED
    BY <1>1, <1>6, <1>7, <2>1, <2>3 DEF OnItsWay
<1>10. QED
  BY <1>8, <1>9

(* The body either has the marker at its end and is opened, or was cut off *)
(* by a length that has wrapped.                                           *)
LEMMA ClientReadsBodyStep == ASSUME OnItsWay, ClientReadsBody PROVE OnItsWay'
<1> DEFINE body == SubSeq(Pack(n, r), 1, Header(n, r))
           pack == SubSeq(body, 1, Len(body) - SYNC_MARKER_SIZE)
<1>1. /\ n \in MessageLength /\ r \in RandomLength
      /\ n \in Nat \ {0} /\ r \in Byte
  BY Drawn DEF OnItsWay, ClientReadsBody
<1>2. Header(n, r) >= MIN_PACK_SIZE
  BY DEF OnItsWay, ClientReadsBody
<1>3. PackSize(n, r) \in Nat /\ U16 \in Nat
  BY <1>1, Limits DEF U16
<1>4. n' = n /\ r' = r
  BY DEF ClientReadsBody
<1>5. (PackSize(n, r))' = PackSize(n, r) /\ (Message(n))' = Message(n)
  BY <1>4 DEF PackSize, Chunks, EnvelopeSize, Message
<1>6. \/ ~EndsInMarker(body) /\ at' = "recovered"
      \/ /\ EndsInMarker(body)
         /\ text' = IF HasAllChunks(pack) THEN Decipher(pack) ELSE <<>>
         /\ at' = IF ~HasAllChunks(pack) THEN "terminated"
                  ELSE IF text' = <<>> THEN "foreign" ELSE "shown"
  BY DEF ClientReadsBody
<1>7. CASE PackSize(n, r) < U16
  <2>1. EndsInMarker(body) /\ HasAllChunks(pack) /\ Decipher(pack) = Message(n)
    BY <1>1, <1>7, Arrives
  <2>2. Message(n) # <<>>
    <3>1. Len(Message(n)) = n /\ n > 0
      BY <1>1, MessageType
    <3>2. QED
      BY <3>1
  <2> HIDE DEF body, pack
  <2>3. at' = "shown" /\ text' = Message(n)
    BY <1>6, <2>1, <2>2
  <2>4. QED
    BY <1>1, <1>4, <1>5, <2>3 DEF OnItsWay
<1>8. CASE ~(PackSize(n, r) < U16)
  <2>1. PackSize(n, r) >= U16
    BY <1>3, <1>8
  <2>2. ~EndsInMarker(body)
    BY <1>1, <1>2, <2>1, CutOff
  <2>3. at' = "recovered"
    BY <1>6, <2>2
  <2>4. QED
    BY <1>1, <1>4, <1>5, <2>1, <2>3 DEF OnItsWay
<1>9. QED
  BY <1>7, <1>8

(* The first machine stands still.                                         *)
LEMMA WayStutters == ASSUME OnItsWay, UNCHANGED vars PROVE OnItsWay'
BY DEF OnItsWay, vars, Header, PackSize, Chunks, EnvelopeSize, Message

(* Sealing draws a message anew.                                           *)
LEMMA SealStep ==
  ASSUME SealedAndOpened, NEW program \in Both, Seal(program)
  PROVE  SealedAndOpened'
BY DEF SealedAndOpened, Seal, Both, DialectsAgree

(* Opening reads what the two programs agree on.                           *)
LEMMA OpenStep ==
  ASSUME SealedAndOpened, NEW program \in Both, Open(program)
  PROVE  SealedAndOpened'
<1>1. /\ by \in Both /\ len \in SealedLength /\ pad \in RandomLength
      /\ len \in Nat \ {0} /\ pad \in Byte
  BY Drawn DEF SealedAndOpened, Open, Both
<1>2. by' = by /\ len' = len /\ pad' = pad /\ reader' = program
  BY DEF Open
<1>3. got' = IF program = "srv" THEN Decipher(Sealed) ELSE TermDecipher(Sealed)
  BY DEF Open
<1>4. Sealed = IF by = "srv" THEN SrvPack(len, pad) ELSE TermPack(len, pad)
  BY DEF Sealed
<1> DEFINE wanted == IF by = "srv" /\ program = "term"
                        /\ (pad = 0 \/ EnvelopeSize(len, pad) % CHUNK_SIZE # 0)
                     THEN <<>> ELSE Message(len)
<1>5. ASSUME len < U16
      PROVE  got' = wanted
  <2>1. /\ Decipher(SrvPack(len, pad)) = Message(len)
        /\ Decipher(TermPack(len, pad)) = Message(len)
        /\ TermDecipher(TermPack(len, pad)) = Message(len)
        /\ TermDecipher(SrvPack(len, pad)) =
             IF pad = 0 \/ EnvelopeSize(len, pad) % CHUNK_SIZE # 0
             THEN <<>> ELSE Message(len)
    BY <1>1, <1>5, Dialects
  <2>2. QED
    BY <1>1, <1>3, <1>4, <2>1, Zenon DEF Both
<1>6. wanted = (IF by = "srv" /\ reader = "term"
                   /\ (pad = 0 \/ EnvelopeSize(len, pad) % CHUNK_SIZE # 0)
                THEN <<>> ELSE Message(len))'
  BY <1>2 DEF EnvelopeSize, Message
<1>7. DialectsAgree'
  BY <1>2, <1>5, <1>6 DEF DialectsAgree
<1>8. QED
  BY <1>1, <1>2, <1>7 DEF SealedAndOpened, Both

(* The second machine stands still.                                        *)
LEMMA OpeningStutters == ASSUME SealedAndOpened, UNCHANGED termVars PROVE SealedAndOpened'
BY DEF SealedAndOpened, termVars, DialectsAgree, EnvelopeSize, Message

(* A packet is never misread: the invariant holds of every length and      *)
(* padding, with either machine running.                                   *)
THEOREM Invariance == BothSpec => []IInv
<1>1. BothInit => IInv
  BY DEF BothInit, Init, TermInit, IInv, OnItsWay, SealedAndOpened, DialectsAgree
<1>2. IInv /\ [BothNext]_<<vars, termVars>> => IInv'
  <2> SUFFICES ASSUME IInv, [BothNext]_<<vars, termVars>> PROVE IInv'
    OBVIOUS
  <2> USE DEF IInv
  <2>1. CASE Next /\ UNCHANGED termVars
    <3>1. SealedAndOpened'
      BY <2>1, OpeningStutters
    <3>2. OnItsWay'
      BY <2>1, SendStep, ServerReadsStep, ClientReadsHeaderStep, ClientReadsBodyStep
         DEF Next
    <3>3. QED
      BY <3>1, <3>2
  <2>2. CASE TermNext /\ UNCHANGED vars
    <3>1. OnItsWay'
      BY <2>2, WayStutters
    <3>2. SealedAndOpened'
      BY <2>2, SealStep, OpenStep DEF TermNext
    <3>3. QED
      BY <3>1, <3>2
  <2>3. CASE UNCHANGED <<vars, termVars>>
    BY <2>3, WayStutters, OpeningStutters
  <2>4. QED
    BY <2>1, <2>2, <2>3 DEF BothNext
<1>3. QED
  BY <1>1, <1>2, PTL DEF BothSpec

(* Whatever its length and padding, a message that the receiving client    *)
(* shows is the message that was sent.                                     *)
THEOREM ShownAlwaysSent == BothSpec => []ShownIsSent
<1>1. IInv => ShownIsSent
  BY DEF IInv, OnItsWay, ShownIsSent
<1>2. QED
  BY <1>1, Invariance, PTL

(* No limit of the server or of the client and no check of decipher stops  *)
(* a message of at most SafeLength bytes.                                  *)
THEOREM ShortAlwaysGetsThrough == BothSpec => []ShortGetsThrough
<1>1. ASSUME IInv PROVE ShortGetsThrough
  <2> SUFFICES ASSUME at \in {"evicted", "recovered", "terminated", "foreign"}
               PROVE  n > SafeLength
    BY DEF ShortGetsThrough
  <2>1. n \in Nat \ {0} /\ r \in Byte
    BY <1>1, Drawn DEF IInv, OnItsWay
  <2>2. \/ Header(n, r) > MAX_PACK_SIZE
        \/ PackSize(n, r) >= U16
    BY <1>1 DEF IInv, OnItsWay
  <2>3. /\ PackSize(n, r) \in Nat
        /\ n <= SafeLength => PackSize(n, r) <= MAX_PACK_SIZE
        /\ PackSize(n, r) < U16 => Header(n, r) = PackSize(n, r)
    BY <2>1, Limits
  <2>4. SafeLength \in Nat /\ MAX_PACK_SIZE < U16 /\ MAX_PACK_SIZE \in Nat /\ U16 \in Nat
    BY DigestSizes DEF SafeLength, EnvelopeSize, MAX_PACK_SIZE, U16
  <2>5. QED
    BY <2>1, <2>2, <2>3, <2>4
<1>2. QED
  BY <1>1, Invariance, PTL

(* Nothing that the server relays makes a receiver give up its connection  *)
(* while the sizes of packets fit in their headers.                        *)
THEOREM RelayedAlwaysReadable == BothSpec => []RelayedIsReadable
<1>1. ASSUME IInv PROVE RelayedIsReadable
  <2> SUFFICES ASSUME at \in {"recovered", "terminated", "foreign"}
               PROVE  n > WrapLength
    BY DEF RelayedIsReadable
  <2>1. n \in Nat \ {0} /\ r \in Byte
    BY <1>1, Drawn DEF IInv, OnItsWay
  <2>2. PackSize(n, r) >= U16
    BY <1>1 DEF IInv, OnItsWay
  <2>3. PackSize(n, r) \in Nat /\ (n <= WrapLength => PackSize(n, r) < U16)
    BY <2>1, Limits
  <2>4. WrapLength \in Nat /\ U16 \in Nat
    BY DigestSizes DEF WrapLength, EnvelopeSize, U16
  <2>5. QED
    BY <2>1, <2>2, <2>3, <2>4
<1>2. QED
  BY <1>1, Invariance, PTL

(* A pack of either program is opened by the other exactly when it should  *)
(* be, and is never read as another message.                               *)
THEOREM DialectsAlwaysAgree == BothSpec => []DialectsAgree
<1>1. IInv => DialectsAgree
  BY DEF IInv, SealedAndOpened
<1>2. QED
  BY <1>1, Invariance, PTL
=============================================================================
