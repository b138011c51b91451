------------------------------ MODULE AtMostOnce ------------------------------
(***************************************************************************)
(* What a SecOC data identifier promises its receiver over a bus that      *)
(* loses, repeats and reorders: of the numbered messages of the sender it  *)
(* handles some, each at most once, in the order they were built.          *)
(***************************************************************************)
EXTENDS Naturals, Sequences

VARIABLES sent,     \* messages 1..sent were built
          handled   \* those handled, in the order of handling

vars == <<sent, handled>>

Last == IF handled = <<>> THEN 0 ELSE handled[Len(handled)]

Init == sent = 0 /\ handled = <<>>

Build == sent' = sent + 1 /\ UNCHANGED handled

Handle == \E k \in 1..sent : /\ k > Last
                             /\ handled' = Append(handled, k)
                             /\ UNCHANGED sent

Next == Build \/ Handle

Spec == Init /\ [][Next]_vars
===============================================================================
