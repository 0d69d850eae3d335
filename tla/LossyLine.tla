----------------------------- MODULE LossyLine -----------------------------
(***************************************************************************)
(* What the desk asks of its connection to the router, in either           *)
(* direction.  Messages are numbered in the order they are told; the line  *)
(* may lose any of them, but delivers the others in order, each once, and  *)
(* nothing that was not told.                                              *)
(***************************************************************************)
EXTENDS Naturals, Sequences

VARIABLES
  told,   \* number of the newest message told
  heard   \* numbers of the messages delivered, oldest first

Newest == IF heard = << >> THEN 0 ELSE heard[Len(heard)]

Init ==
  /\ told = 0
  /\ heard = << >>

\* One message or several at once.
Tell ==
  /\ told' \in Nat /\ told' > told
  /\ UNCHANGED heard

Hear ==
  /\ \E n \in Newest + 1 .. told : heard' = Append(heard, n)
  /\ UNCHANGED told

Next == Tell \/ Hear

Spec == Init /\ [][Next]_<< told, heard >>
=============================================================================
