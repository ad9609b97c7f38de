----------------------------- MODULE PhaseOrder -----------------------------
(***************************************************************************)
(* What installs and removals promise about the phases in the cluster,     *)
(* whatever the inventory says, however profile.yaml is revised and        *)
(* wherever a command stops:                                               *)
(*   - a phase is put in place, or applied again, only on top of all the   *)
(*     phases before it, and for the topology that those are of;           *)
(*   - a phase in place changes its topology only by way of its removal;   *)
(*   - a phase is taken away only when none of those after it is in place. *)
(* Components.tla is the detailed specification that implements this one.  *)
(***************************************************************************)
CONSTANTS
    Phase,          \* the phases of all components
    Order,          \* the pairs of phases of which the first comes before
    Domain,         \* topologies
    NoDomain        \* of a phase that is not in place

VARIABLE built      \* Phase -> the topology it is in place for

Init == built = [p \in Phase |-> NoDomain]

Put(p, d) ==
    /\ built[p] \in {NoDomain, d}
    /\ \A q \in Phase : <<q, p>> \in Order => built[q] = d
    /\ built' = [built EXCEPT ![p] = d]

Remove(p) ==
    /\ \A q \in Phase : <<p, q>> \in Order => built[q] = NoDomain
    /\ built' = [built EXCEPT ![p] = NoDomain]

Next == \E p \in Phase : Remove(p) \/ \E d \in Domain : Put(p, d)

Spec == Init /\ [][Next]_built

=============================================================================
