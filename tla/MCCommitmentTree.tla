-------------------------- MODULE MCCommitmentTree --------------------------
(* Three sidechains and up to two outputs, so that an absent one has no, a   *)
(* left, a right or both neighbours and a list of two has an order; every   *)
(* operation on arguments its library can read and on ones it cannot, lists *)
(* of elements with one too long among them; proofs of any age and put      *)
(* together from others.                                                    *)
EXTENDS CommitmentTree

CONSTANTS s1, s2, s3, e, data, long

MCIds == <<s1, s2, s3>>
MCOther == {e}
MCLonger == [a \in {long} |-> s1]
MCOps == DOMAIN Reads

MCArguments ==
  [id |-> {s1, s2, s3, NoElement},
   field |-> {e, WrongLength},
   nullableField |-> {e, NoElement},
   buffer |-> {<<1>>, <<0, 0, 0>>, Null},
   fields |-> {<<e, long>>, <<e, NoElement>>, Null},
   nullableFields |-> {<<long>>, <<WrongLength>>, Null},
   transfers |-> {<<data>>, <<data, WrongLength>>},
   optional |-> {<<>>, Null},
   bytes |-> {data},
   nullable |-> {Null}]

==============================================================================
