----------------------------- MODULE Ownership -----------------------------
(***************************************************************************)
(* What inventory.yaml promises, whatever the order in which enkictl, its  *)
(* crashes and the rest of the cluster take their steps:                   *)
(*   - enkictl creates or labels an object only where its ledger already   *)
(*     claims the identity, so nothing it made can be lost track of;       *)
(*   - it gives a claim up only when the identity holds no object;         *)
(*   - it deletes an object only where it has claimed the identity, if the *)
(*     object carries its label and the ledger does not name another uid.  *)
(* Inventory.tla is the detailed specification that implements this one.   *)
(***************************************************************************)
EXTENDS Cluster

VARIABLE ledger     \* Resource -> how far the identity is claimed, which uid

vars == <<clusterVars, ledger>>

Entry == [state : {"never", "claimed", "released"}, uid : Nat]

Init ==
    /\ ClusterInit
    /\ ledger = [r \in Resource |-> [state |-> "never", uid |-> 0]]

Claim(R) ==
    /\ ledger' = [r \in Resource |->
                    IF r \in R /\ ledger[r].state # "claimed"
                    THEN [state |-> "claimed", uid |-> 0]
                    ELSE ledger[r]]
    /\ UNCHANGED clusterVars

Learn(r) ==
    /\ ledger[r].state = "claimed"
    /\ Live(r)
    /\ ledger' = [ledger EXCEPT ![r].uid = object[r].uid]
    /\ UNCHANGED clusterVars

Relinquish(r) ==
    /\ ledger[r].state = "claimed"
    /\ ~Live(r)
    /\ ledger' = [ledger EXCEPT ![r].state = "released"]
    /\ UNCHANGED clusterVars

Put(r) ==
    /\ ledger[r].state = "claimed"
    /\ ApplyObject(r)
    /\ UNCHANGED ledger

Delete(r) ==
    /\ ledger[r].state # "never"
    /\ object[r].label = "mine"
    /\ ledger[r].uid \in {0, object[r].uid}
    /\ DeleteObject(r)
    /\ UNCHANGED ledger

World(r) ==
    /\ Vanish(r) \/ \E label \in Label : Appear(r, label)
    /\ UNCHANGED ledger

Next ==
    \/ \E R \in SUBSET Resource : Claim(R)
    \/ \E r \in Resource :
        Learn(r) \/ Relinquish(r) \/ Put(r) \/ Delete(r) \/ World(r)

Spec == Init /\ [][Next]_vars

(***************************************************************************)
(* Every live object that enkictl created is at an identity it claims.     *)
(***************************************************************************)
Claimed == \A r \in Resource : object[r].uid \in made => ledger[r].state = "claimed"

=============================================================================
