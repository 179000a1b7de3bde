-------------------------- MODULE NumberDispenser --------------------------
(***************************************************************************)
(* What nextSeq of common/system/rand.go promises its callers: a counter   *)
(* per day and flag.  A draw takes the next number at once, whoever else   *)
(* draws, no number is taken back, and only a day whose numbers are all    *)
(* drawn is refused.  The last of the Capacity numbers, 9999, is kept      *)
(* back: the comments of rand.go count it in, its check does not.          *)
(* SeqGenerator implements this module.                                    *)
(***************************************************************************)
EXTENDS Naturals, Sequences

CONSTANTS Key, Capacity

VARIABLES issued,  \* issued[k] : the numbers drawn for k so far
          refused  \* the keys a call was refused for

vars == <<issued, refused>>

Init == /\ issued = [k \in Key |-> <<>>]
        /\ refused = {}

Left(k) == Len(issued[k]) < Capacity - 1

Draw(k) == /\ Left(k)
           /\ issued' = [issued EXCEPT ![k] = Append(@, Len(@))]
           /\ UNCHANGED refused

Refuse(k) == /\ ~Left(k)
             /\ refused' = refused \cup {k}
             /\ UNCHANGED issued

Next == \E k \in Key : Draw(k) \/ Refuse(k)

Spec == Init /\ [][Next]_vars
=============================================================================
