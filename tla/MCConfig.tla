------------------------------ MODULE MCConfig ------------------------------
(***************************************************************************)
(* What commands that run at once make of a project's soroq.yaml: builds   *)
(* of declared flavors, which replace it for a while (FlavorSwap), or      *)
(* releases and patches of the functions it lists, here of two lists of    *)
(* the same two functions (IndexedLane).  A behaviour is of one subject;   *)
(* the other rests.                                                        *)
(***************************************************************************)
EXTENDS FlavorSwap, IndexedLane, TLC

CONSTANTS fn1, fn2, dev, prod, id1, id2

VARIABLE subject

(* Processes are interchangeable; so are flavors and release ids, which    *)
(* are all swapped at once.                                                *)
Swapped(x, y) == x :> y @@ y :> x
Symmetry == Permutations(Procs) \cup {Swapped(dev, prod) @@ Swapped(id1, id2)}

MCLists == {<<fn1, fn2>>, <<fn2, fn1>>}

IndexedRests == listed = [list |-> <<fn1, fn2>>, code |-> CHOOSE k \in Codes : TRUE] /\ IndexedInit

FlavorsRest == Init /\ file.asset = NoFile

IndexedOnly == subject = "indexed" /\ IndexedInit /\ FlavorsRest

ConfigInit == IndexedOnly \/ (subject = "flavors" /\ Init /\ IndexedRests)

ConfigNext ==
    \/ subject = "flavors" /\ Next /\ UNCHANGED <<subject, indexedVars>>
    \/ subject = "indexed" /\ IndexedNext /\ UNCHANGED <<subject, vars>>
=============================================================================
