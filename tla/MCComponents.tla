---------------------------- MODULE MCComponents ----------------------------
(***************************************************************************)
(* Instances of Components for TLC: a part of the real registry, with the  *)
(* number of phases of each component.                                     *)
(***************************************************************************)
EXTENDS Components, TLC

CONSTANTS gateway, auth, monitoring, searxng, librechat

\* Three components in a chain; the first has two phases, as ai-gateway has.
ChainNeeds == gateway :> {} @@ auth :> {gateway} @@ monitoring :> {auth}
ChainLength == gateway :> 2 @@ auth :> 1 @@ monitoring :> 1

\* No addons.
NoRequires == [a \in {} |-> {}]

\* An addon that requires a component and uses another addon.
OneNeeds == gateway :> {}
OneLength == gateway :> 1
LibreChatRequires == searxng :> {} @@ librechat :> {gateway}
LibreChatUses == searxng :> {} @@ librechat :> {searxng}

=============================================================================
