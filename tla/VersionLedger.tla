---------------------------- MODULE VersionLedger ----------------------------
(***************************************************************************)
(* What hosted publication promises, with neither operators nor devices:   *)
(* numbers are handed out one after the other in each deployment scope,    *)
(* and a publication that is announced as done owns one of them, which no  *)
(* other publication of the scope is ever announced under.                 *)
(***************************************************************************)
EXTENDS Naturals

CONSTANTS Scopes, Contents

VARIABLES
    handedOut,  \* per scope, how many numbers have been handed out
    ledger      \* the publications announced: <<scope, version, content>>

ledgerVars == <<handedOut, ledger>>

Init ==
    /\ handedOut = [s \in Scopes |-> 0]
    /\ ledger = {}

(* A registration; most come to nothing, and none gives its number back. *)
HandOut(s) ==
    /\ handedOut' = [handedOut EXCEPT ![s] = @ + 1]
    /\ UNCHANGED ledger

Announce(s, version, content) ==
    /\ version \in 1 .. handedOut[s]
    /\ \A e \in ledger : e[1] = s => e[2] # version
    /\ ledger' = ledger \cup {<<s, version, content>>}
    /\ UNCHANGED handedOut

Next ==
    \E s \in Scopes :
        \/ HandOut(s)
        \/ \E version \in 1 .. handedOut[s], content \in Contents :
               Announce(s, version, content)

Spec == Init /\ [][Next]_ledgerVars
=============================================================================
