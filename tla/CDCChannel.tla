----------------------------- MODULE CDCChannel -----------------------------
(***************************************************************************)
(* What the reading thread promises the rest of CDCImpl: the messages the  *)
(* device sends are handed to processMessage in order, each exactly once.  *)
(* CDCFraming implements it on the byte stream; CDCCommand starts from it. *)
(***************************************************************************)
EXTENDS Naturals, Sequences

CONSTANT Messages

VARIABLES sent, delivered

vars == <<sent, delivered>>

Init == sent = <<>> /\ delivered = <<>>

Send == /\ \E m \in Messages : sent' = Append(sent, m)
        /\ UNCHANGED delivered

(* One round of the reader may deliver several messages. *)
Deliver == /\ \E n \in (Len(delivered) + 1)..Len(sent) : delivered' = SubSeq(sent, 1, n)
           /\ UNCHANGED sent

Next == Send \/ Deliver

Spec == Init /\ [][Next]_vars
=============================================================================
