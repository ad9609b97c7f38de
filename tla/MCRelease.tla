----------------------------- MODULE MCRelease -----------------------------
(***************************************************************************)
(* A workload and a Secret of one chart, and what controllers add: a pod   *)
(* with its token, a ConfigMap, a claim from a template.                   *)
(***************************************************************************)
EXTENDS Release

CONSTANTS workload, secret, role, pod, token, config, volume

MCParent ==
    [c \in Child |-> IF c = token /\ pod \in Child THEN pod ELSE workload]

=============================================================================
