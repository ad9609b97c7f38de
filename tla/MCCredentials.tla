--------------------------- MODULE MCCredentials ---------------------------
(***************************************************************************)
(* Instances of Credentials for TLC: auth, with Dex's Secret, and          *)
(* monitoring, which shares a client credential with it and has one of its *)
(* own.                                                                    *)
(***************************************************************************)
EXTENDS Credentials, TLC

CONSTANTS auth, monitoring, grafana, grafanaAdmin, librechat, activepieces,
          dexSecrets, oidcCredentials, grafanaAdminSecret

AuthFirst == auth :> {} @@ monitoring :> {auth}

KeyOwner == [k \in Key |-> IF k = grafanaAdmin THEN monitoring ELSE auth]

SecretOf == [s \in Secret |-> IF s = dexSecrets THEN auth ELSE monitoring]

SecretKeys ==
    [s \in Secret |->
        CASE s = dexSecrets         -> Key \ {grafanaAdmin}
          [] s = oidcCredentials    -> {grafana}
          [] s = grafanaAdminSecret -> {grafanaAdmin}]

\* As in check_credentials: not the Activepieces key.
SecretLocked == [s \in Secret |-> SecretKeys[s] \ {activepieces}]

=============================================================================
