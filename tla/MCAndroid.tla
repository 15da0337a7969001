----------------------------- MODULE MCAndroid -----------------------------
(***************************************************************************)
(* The instances of the Android lanes that TLC checks together: releases   *)
(* and patches of one named flavor, with interchangeable toolchains, or    *)
(* the delta of a patch, on payloads of a few bytes with the thresholds of *)
(* the code scaled down.  A behaviour is of one subject; the other rests.  *)
(***************************************************************************)
EXTENDS AndroidPatch, AndroidDelta

CONSTANT MaxDisturbances \* bound on what happens between the commands

VARIABLE subject

ToolchainSymmetry == Permutations(Toolchains)

MCStrategies == (1..14) \ {9}
MCBases == {<<>>} \cup [1..3 -> {0, 1}]
MCCandidates == {<<>>} \cup [1..2 -> {0, 1}] \cup [1..4 -> {0, 1, 3}]

\* bytes of two bits
MCByteXor(a, b) == 2 * ((a \div 2 + b \div 2) % 2) + ((a + b) % 2)

\* a bit of the number in each byte, and one that says whether more follow
MCUvarint(n) == IF n < 2 THEN <<n>> ELSE <<2 + (n % 2), n \div 2>>

DeltaRests == version = 1 /\ base = <<>> /\ cand = <<>> /\ DeltaInit

AndroidInit ==
    \/ subject = "releases" /\ Init /\ DeltaRests
    \/ subject = "delta" /\ DeltaInit /\ Init

(* Edits and checkouts, setups and faults; a fresh clone comes free. *)
Disturbances == tree.source - 1 + used.setups + used.faults

(* The commands and faults of a behaviour may all be spent; a delta always *)
(* comes to its end.                                                       *)
AndroidNext ==
    \/ /\ subject = "releases" /\ UNCHANGED <<subject, deltaVars>>
       /\ \/ Next /\ Disturbances' <= MaxDisturbances
          \/ UNCHANGED vars
    \/ subject = "delta" /\ DeltaNext /\ UNCHANGED <<subject, vars>>
=============================================================================
