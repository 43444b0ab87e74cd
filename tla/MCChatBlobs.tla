----------------------------- MODULE MCChatBlobs -----------------------------
(* Instances of ChatBlobs for TLC. *)
EXTENDS ChatBlobs, TLC

CONSTANTS room1, msg1, msg2, att1, att2, c1, c2

InOne == [x \in Message |-> room1]
OnOne == [x \in Att |-> msg1]
OnOwn == [x \in Att |-> IF x = att1 THEN msg1 ELSE msg2]

Alike == Permutations(Caller)
=============================================================================
