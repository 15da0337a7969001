--------------------------- MODULE WriteOnceStore ---------------------------
(***************************************************************************)
(* What a content store promises: a key is bound at most once, and what it *)
(* is bound to never changes and never goes away.  The release baselines   *)
(* and the patch artifacts under .soroq are two of them.                   *)
(***************************************************************************)
CONSTANTS Keys, Values, Unbound

VARIABLE store

Init == store = [k \in Keys |-> Unbound]

Publish(k, x) ==
    /\ store[k] = Unbound
    /\ store' = [store EXCEPT ![k] = x]

Next == \E k \in Keys, x \in Values : Publish(k, x)

Spec == Init /\ [][Next]_store
=============================================================================
