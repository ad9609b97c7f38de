------------------------------ MODULE Cluster ------------------------------
(***************************************************************************)
(* The Kubernetes API as enkictl uses it.  Nothing here is under cli/: the *)
(* module says what the commands of lifecycle.py rely on.                  *)
(*                                                                         *)
(* A resource identity (apiVersion, kind, namespace, name) holds at most   *)
(* one object.  The API server gives every object a uid that is never used *)
(* again, so an object that was deleted and made anew is told apart from   *)
(* the old one.  Of an object's labels only enki.stack/installation        *)
(* matters: "mine" is this installation's id, "other" another one's, "none"*)
(* no label.  An object with a finalizer stays, terminating, until the     *)
(* finalizer is done.                                                      *)
(***************************************************************************)
EXTENDS Naturals

CONSTANT Resource       \* identities the CLI may manage

VARIABLES
    object,     \* Resource -> the object it holds, or Vacant
    minted,     \* the last uid given out
    made        \* observability: uids of the objects enkictl itself created

clusterVars == <<object, minted, made>>

Label == {"mine", "none", "other"}

Object == [uid : Nat, label : Label, terminating : BOOLEAN]

Vacant == [uid |-> 0, label |-> "none", terminating |-> FALSE]

Fresh(label) == [uid |-> minted + 1, label |-> label, terminating |-> FALSE]

Live(r) == object[r].uid # 0

ClusterTypeOK ==
    /\ object \in [Resource -> Object]
    /\ minted \in Nat
    /\ made \subseteq 1..minted

ClusterInit ==
    /\ object = [r \in Resource |-> Vacant]
    /\ minted = 0
    /\ made = {}

(***************************************************************************)
(* The rest of the world: another tool, a controller or an operator makes  *)
(* an object where there is none (a restored backup carries our label too),*)
(* or one goes away: a finalizer ends, or somebody deletes it.             *)
(***************************************************************************)
Appear(r, label) ==
    /\ ~Live(r)
    /\ object' = [object EXCEPT ![r] = Fresh(label)]
    /\ minted' = minted + 1
    /\ UNCHANGED made

Vanish(r) ==
    /\ Live(r)
    /\ object' = [object EXCEPT ![r] = Vacant]
    /\ UNCHANGED <<minted, made>>

(***************************************************************************)
(* kubectl apply or kubectl label: creates the object, or changes the one  *)
(* that is there, whoever made it, and leaves our label on it.             *)
(***************************************************************************)
ApplyObject(r) ==
    \/ /\ ~Live(r)
       /\ object' = [object EXCEPT ![r] = Fresh("mine")]
       /\ minted' = minted + 1
       /\ made' = made \cup {minted + 1}
    \/ /\ Live(r)
       /\ object' = [object EXCEPT ![r].label = "mine"]
       /\ UNCHANGED <<minted, made>>

(***************************************************************************)
(* DELETE: the object is gone at once, or once its finalizer is done.      *)
(***************************************************************************)
DeleteObject(r) ==
    /\ Live(r)
    /\ object' \in {[object EXCEPT ![r] = Vacant],
                    [object EXCEPT ![r].terminating = TRUE]}
    /\ UNCHANGED <<minted, made>>

=============================================================================
