---------------------------- MODULE ResourcePool ----------------------------
(***************************************************************************)
(* What a pool of borrowed resources promises, whatever implements it: a   *)
(* resource passes from the pool to one taker and from the taker back to   *)
(* the pool, never from taker to taker, and a taker has at most one.       *)
(***************************************************************************)
CONSTANTS Resource, Taker, Nobody

VARIABLE holder   \* holder[r]: who has resource r, Nobody if the pool has it

Init == holder = [r \in Resource |-> Nobody]

Has(t) == \E r \in Resource : holder[r] = t

Take(t, r) ==
    /\ holder[r] = Nobody
    /\ ~Has(t)
    /\ holder' = [holder EXCEPT ![r] = t]

Give(r) ==
    /\ holder[r] # Nobody
    /\ holder' = [holder EXCEPT ![r] = Nobody]

Next == \E r \in Resource : Give(r) \/ \E t \in Taker : Take(t, r)

Spec == Init /\ [][Next]_holder
=============================================================================
