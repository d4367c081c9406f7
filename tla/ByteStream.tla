----------------------------- MODULE ByteStream -----------------------------
(***************************************************************************)
(* What a serial line promises: the bytes accepted, numbered 1, 2, ..., are *)
(* delivered once each, in order, and at most Capacity are under way.       *)
(***************************************************************************)
EXTENDS Naturals, Sequences

CONSTANT Capacity

VARIABLES accepted,   \* how many bytes have been accepted
          delivered   \* the bytes delivered

Init == accepted = 0 /\ delivered = <<>>

Accept ==
  /\ accepted - Len(delivered) < Capacity
  /\ accepted' = accepted + 1
  /\ UNCHANGED delivered

Deliver ==
  /\ Len(delivered) < accepted
  /\ delivered' = Append(delivered, Len(delivered) + 1)
  /\ UNCHANGED accepted

Next == Accept \/ Deliver

Spec == Init /\ [][Next]_<<accepted, delivered>>
=============================================================================
