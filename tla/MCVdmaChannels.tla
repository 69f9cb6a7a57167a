--------------------------- MODULE MCVdmaChannels ---------------------------
(* An instance of VdmaChannels for TLC: two core ops of one channel each. *)
EXTENDS VdmaChannels

CONSTANTS A, B

OwnGroup == [c \in {A, B} |-> c]
TwoOne == [c \in {A, B} |-> IF c = A THEN 2 ELSE 1]

(* The descriptors of the chunks of requests of one and two descriptors, and of one that
   TransferSplitter makes two chunks of. *)
MCSplits == {<<1>>, <<2>>, <<2, 1>>}
=============================================================================
