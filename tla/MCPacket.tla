------------------------------- MODULE MCPacket -------------------------------
(* Packet and TermPacket at their boundaries: the shortest messages, the   *)
(* ends of the first chunks, the longest message that always fits and the  *)
(* shortest that never does, the wrap of the 16-bit header and messages    *)
(* beyond it.  The sealed packs have no header: the ends of chunks only.   *)
EXTENDS TermPacket

Messages == {1, 2, 3, 217, 218, 219, 472, 473, 474, 7103, 7104, 7105, 7357,
             7358, 7359, 31583, 31584, 31838, 31839, 32092, 32093, 32094,
             35900, 48200}
SealedMessages == {1, 2, 3, 217, 218, 219, 472, 473, 474, 7103, 7357, 31838}
Paddings == {0, 1, 2, 127, 128, 253, 254, 255}
=============================================================================
