---------------------------- MODULE LossyStream ----------------------------
(***************************************************************************)
(* What the receive half of a serial port promises.  Bytes come in, the     *)
(* k-th is the number k; each is delivered, in order and once, or lost.    *)
(* Bytes that were promised are lost only when the port is closed, and      *)
(* nothing waits in a closed port.                                         *)
(***************************************************************************)
EXTENDS Naturals, Sequences, FiniteSets, SequencesExt

VARIABLES came, delivered, lost, promised, open

vars == <<came, delivered, lost, promised, open>>

Waiting == (1 .. came) \ (lost \union ToSet(delivered))
Before(k) == {j \in Waiting : j < k}
Less(n) == IF n > 0 THEN n - 1 ELSE 0

Init ==
  came = 0 /\ delivered = <<>> /\ lost = {} /\ promised = 0 /\ open = FALSE

Deliver ==
  /\ \E k \in Waiting : Before(k) = {} /\ delivered' = Append(delivered, k)
  /\ promised' = Less(promised)
  /\ UNCHANGED <<came, lost, open>>

(* A byte may come in, and bytes that are not promised may get lost. *)
ComeOrLose ==
  /\ came' \in {came, came + 1}
  /\ lost \subseteq lost'
  /\ \A k \in lost' \ lost : /\ k \in (1 .. came') \ ToSet(delivered)
                             /\ Cardinality(Before(k)) >= promised
  /\ open \/ 1 .. came' \subseteq lost' \union ToSet(delivered)
  /\ UNCHANGED <<delivered, promised, open>>

Promise ==
  /\ promised' \in 0 .. Cardinality(Waiting)
  /\ UNCHANGED <<came, delivered, lost, open>>

Open == open' = TRUE /\ UNCHANGED <<came, delivered, lost, promised>>

Close ==
  /\ lost' = lost \union Waiting
  /\ promised' = 0 /\ open' = FALSE
  /\ UNCHANGED <<came, delivered>>

Next == Deliver \/ ComeOrLose \/ Promise \/ Open \/ Close

Spec == Init /\ [][Next]_vars
=============================================================================
