---------------------------- MODULE Credentials ----------------------------
(***************************************************************************)
(* The generated credentials of the components (cli/enkictl/lifecycle.py:  *)
(* required_credentials, conflicts, check_credentials, secret, credentials)*)
(* A credential lives in three places: secrets.yaml, which the operator    *)
(* keeps and may lose or edit, the Secrets of the cluster, and the list of *)
(* registered credentials in inventory.yaml.  A command reads secrets.yaml *)
(* into memory, completes it, and writes the places one after the other.   *)
(*                                                                         *)
(* Only what credentials depend on is here of installing and removing:     *)
(* dependencies, the phase of each component, the Secrets, Dex's list of   *)
(* clients.  The value of a key is its generation, 0 for none.             *)
(***************************************************************************)
EXTENDS Naturals

CONSTANTS
    Component,      \* the components with credentials
    Needs,          \* Component -> all the components it depends on
    Auth,           \* the component that runs Dex
    Key,            \* generated credentials
    Owner,          \* Key -> the component that generates it
    Secret,         \* Secrets that carry credentials
    Of,             \* Secret -> the component that applies it
    Keys,           \* Secret -> the keys it carries
    Locked,         \* Secret -> the keys check_credentials compares
    DexSecret,      \* dex-secrets
    Migrated,       \* clients older inventories lack: librechat, bundler
    Recovered,      \* the client recovered from Dex: activepieces
    Editable,       \* keys the operator sets or removes by hand
    NoSecret,       \* no Secret
    MaxGeneration,  \* bound on the values of a key
    MaxFaults       \* bound on failures and kills

\* Dex's Secret is the one of auth, and carries keys that auth generates; each
\* component has the keys it generates in its Secrets.
ASSUME CredentialAssumption ==
    /\ Needs \in [Component -> SUBSET Component]
    /\ Owner \in [Key -> Component]
    /\ Of \in [Secret -> Component]
    /\ Keys \in [Secret -> SUBSET Key]
    /\ Locked \in [Secret -> SUBSET Key]
    /\ Auth \in Component
    /\ DexSecret \in Secret
    /\ \A s \in Secret : Of[s] = Auth <=> s = DexSecret
    /\ \A k \in Keys[DexSecret] : Owner[k] = Auth
    /\ \A k \in Key : \E s \in Secret : Of[s] = Owner[k] /\ k \in Keys[s]
    /\ Migrated \cup Recovered \subseteq Keys[DexSecret]
    /\ Editable \subseteq Key
    /\ NoSecret \notin Secret
    /\ MaxGeneration \in Nat \ {0}
    /\ MaxFaults \in Nat

VARIABLES
    local,          \* secrets.yaml: Key -> value
    backup,         \* the last value of each key that enkictl wrote there
    secret,         \* Secret -> Key -> value in the cluster
    present,        \* the Secrets that exist
    clients,        \* the static clients in dex-config
    registered,     \* inventory.yaml: the registered credentials
    recorded,       \* inventory.yaml: Secrets recorded as applied
    status,         \* inventory.yaml: Component -> status
    memory,         \* the running command's copy of secrets.yaml
    pc,             \* what it does next
    purge,          \* --purge
    acting,         \* the components it is about
    todo,           \* those it has not finished
    component,      \* the one it is at, in a set
    pending,        \* its Secrets not yet applied
    current,        \* the Secret being applied
    used,           \* observability: Key -> number of values there have been
    edited,         \* observability: keys the operator set or removed
    faults          \* how many faults there have been

cluster == <<secret, present, clients>>
inventory == <<registered, recorded, status>>
command == <<memory, pc, purge, acting, todo, component, pending, current>>
history == <<used, edited, faults>>
vars == <<local, backup, cluster, inventory, command, history>>

Value == 0..MaxGeneration

Step == {"idle", "preflight", "issue", "saveSecrets", "register", "secrets",
         "put", "record", "apply", "finish", "removal", "purge"}

TypeOK ==
    /\ local \in [Key -> Value] /\ backup \in [Key -> Value]
    /\ secret \in [Secret -> [Key -> Value]]
    /\ \A s \in Secret, k \in Key :
        secret[s][k] # 0 => s \in present /\ k \in Keys[s] /\ secret[s][k] <= used[k]
    /\ present \subseteq Secret
    /\ clients \subseteq Keys[DexSecret]
    /\ registered \subseteq Key
    /\ recorded \subseteq present
    /\ status \in [Component -> {"absent", "partial", "installed", "gone"}]
    /\ memory \in [Key -> Value]
    /\ pc \in Step
    /\ purge \in BOOLEAN
    /\ acting \subseteq Component /\ todo \subseteq acting /\ component \subseteq todo
    /\ pending \subseteq {s \in Secret : Of[s] \in component}
    /\ current \in pending \cup {NoSecret}
    /\ current # NoSecret <=> pc \in {"put", "record"}
    /\ used \in [Key -> Value] /\ edited \subseteq Editable
    /\ faults \in 0..MaxFaults

Nothing == [k \in Key |-> 0]

Rest ==
    /\ memory = Nothing
    /\ pc = "idle"
    /\ purge = FALSE
    /\ acting = {} /\ todo = {} /\ component = {} /\ pending = {}
    /\ current = NoSecret

\* A profile that was never installed, or whose auth an older release
\* installed: later clients may be in Dex, but are not in the inventory.
Init ==
    /\ Rest
    /\ edited = {} /\ faults = 0
    /\ \/ /\ local = Nothing
          /\ secret = [s \in Secret |-> Nothing] /\ present = {} /\ clients = {}
          /\ registered = {} /\ recorded = {}
          /\ status = [c \in Component |-> "absent"]
          /\ used = Nothing
       \/ LET early == {k \in Keys[DexSecret] : Owner[k] = Auth} \ (Migrated \cup Recovered)
          IN \E stored, listed \in SUBSET (Migrated \cup Recovered) :
            /\ local = [k \in Key |-> IF k \in early THEN 1 ELSE 0]
            /\ secret = [s \in Secret |-> [k \in Key |->
                            IF s = DexSecret /\ k \in early \cup stored THEN 1 ELSE 0]]
            /\ present = {DexSecret} /\ clients = early \cup listed
            /\ registered = early /\ recorded = {DexSecret}
            /\ status = [c \in Component |-> IF c = Auth THEN "installed" ELSE "absent"]
            /\ used = [k \in Key |-> IF k \in early \cup stored THEN 1 ELSE 0]
    /\ backup = local

-----------------------------------------------------------------------------
(***************************************************************************)
(* Decisions                                                               *)
(***************************************************************************)

SecretsOf(C) == {s \in Secret : Of[s] \in C}

\* required_credentials
Required == UNION {Keys[s] : s \in SecretsOf(acting)}

Missing == {k \in Required : memory[k] = 0}

\* Mutant: a Secret is only refused when nothing in it agrees.
Mismatch_Any(s) ==
    /\ s \in present
    /\ \A k \in Locked[s] : secret[s][k] # memory[k]

\* check_credentials raises; a later client may still be missing in Dex.
Mismatch(s) ==
    /\ s \in present
    /\ \E k \in Locked[s] :
        /\ secret[s][k] # memory[k]
        /\ k \in Migrated => secret[s][k] # 0

\* conflicts: what may not be generated, and what must agree.
PreflightAccepted ==
    /\ \A k \in Missing : k \notin registered /\ Owner[k] \in acting
    /\ Missing = {} => \A s \in SecretsOf(acting) : ~Mismatch(s)

\* credentials: keys that are looked for in Dex first.
Sought ==
    IF Auth \in acting
    THEN {k \in Missing : k \in Recovered \/ (k \in Migrated /\ k \notin registered)}
    ELSE {}

\* A client whose credential Dex ought to have, and has not.
Unrecoverable == {k \in Sought : secret[DexSecret][k] = 0 /\ k \in clients}

\* "Restore missing generated credential".  The code counts every applied Secret
\* of the owner, here only those with generated credentials are: a key is registered
\* before any Secret of its owner is recorded, or its Secret is in an older inventory.
Withheld ==
    {k \in Missing \ Sought :
        \/ Owner[k] \notin acting
        \/ k \in registered
        \/ SecretsOf({Owner[k]}) \cap recorded # {}}

\* Mutant: what Dex has is not looked at.
Generated_Always == Missing

\* Keys that get a new value.
Generated == {k \in Missing : k \in Sought => secret[DexSecret][k] = 0}

\* The process ends.
Quit ==
    /\ memory' = Nothing
    /\ pc' = "idle"
    /\ purge' = FALSE
    /\ acting' = {} /\ todo' = {} /\ component' = {} /\ pending' = {}
    /\ current' = NoSecret

-----------------------------------------------------------------------------
(***************************************************************************)
(* enkictl component install                                               *)
(***************************************************************************)

StartInstall(T) ==
    /\ pc = "idle"
    /\ T # {}
    /\ \A k \in Key : used[k] < MaxGeneration     \* bound
    /\ acting' = T \cup {d \in UNION {Needs[c] : c \in T} : status[d] # "installed"}
    /\ todo' = acting'
    /\ memory' = local
    /\ pc' = "preflight"
    /\ UNCHANGED <<local, backup, cluster, inventory, history, purge, component, pending, current>>

Preflight ==
    /\ pc = "preflight"
    /\ PreflightAccepted
    /\ pc' = "issue"
    /\ UNCHANGED <<local, backup, cluster, inventory, history, memory, purge, acting, todo,
                   component, pending, current>>

RefuseInstall ==
    /\ pc = "preflight"
    /\ ~PreflightAccepted
    /\ Quit
    /\ UNCHANGED <<local, backup, cluster, inventory, history>>

\* The next component's phase begins: recover and generate what is missing.
Issue(c) ==
    /\ pc = "issue"
    /\ c \in todo /\ Needs[c] \cap todo = {}
    /\ Unrecoverable = {} /\ Withheld = {}
    /\ status' = [status EXCEPT ![c] = "partial"]
    /\ memory' = [k \in Key |->
                    IF k \in Generated THEN used[k] + 1
                    ELSE IF k \in Missing THEN secret[DexSecret][k]
                    ELSE memory[k]]
    /\ used' = [k \in Key |-> IF k \in Generated THEN used[k] + 1 ELSE used[k]]
    /\ component' = {c}
    /\ pending' = SecretsOf({c})
    /\ pc' = "saveSecrets"
    /\ UNCHANGED <<local, backup, cluster, registered, recorded, purge, acting, todo, current,
                   edited, faults>>

\* credentials raises; install's handler saves the keys it registered so far.
RefuseIssue(c) ==
    /\ pc = "issue"
    /\ c \in todo /\ Needs[c] \cap todo = {}
    /\ Unrecoverable \cup Withheld # {}
    /\ status' = [status EXCEPT ![c] = "partial"]
    /\ registered' \in IF Unrecoverable # {} THEN {registered}
                       ELSE {registered \cup K : K \in SUBSET (Required \ Withheld)}
    /\ Quit
    /\ UNCHANGED <<local, backup, cluster, recorded, history>>

\* Mutant: the file is not written.
SaveSecrets_Unwritten ==
    /\ pc = "saveSecrets"
    /\ pc' = "register"
    /\ UNCHANGED <<local, backup, cluster, inventory, history, memory, purge, acting, todo,
                   component, pending, current>>

SaveSecrets ==
    /\ pc = "saveSecrets"
    /\ local' = memory
    /\ backup' = [k \in Key |-> IF memory[k] # 0 THEN memory[k] ELSE backup[k]]
    /\ pc' = "register"
    /\ UNCHANGED <<cluster, inventory, history, memory, purge, acting, todo,
                   component, pending, current>>

Register ==
    /\ pc = "register"
    /\ registered' = registered \cup Required
    /\ pc' = "secrets"
    /\ UNCHANGED <<local, backup, cluster, recorded, status, history, memory, purge, acting, todo,
                   component, pending, current>>

\* secret: compared again, right before it is applied.
CheckSecret(s) ==
    /\ pc = "secrets"
    /\ s \in pending
    /\ ~Mismatch(s)
    /\ current' = s
    /\ pc' = "put"
    /\ UNCHANGED <<local, backup, cluster, inventory, history, memory, purge, acting, todo,
                   component, pending>>

RefuseSecret(s) ==
    /\ pc = "secrets"
    /\ s \in pending
    /\ Mismatch(s)
    /\ Quit
    /\ UNCHANGED <<local, backup, cluster, inventory, history>>

PutSecret ==
    /\ pc = "put"
    /\ secret' = [secret EXCEPT ![current] =
                    [k \in Key |-> IF k \in Keys[current] THEN memory[k] ELSE 0]]
    /\ present' = present \cup {current}
    /\ pc' = "record"
    /\ UNCHANGED <<local, backup, clients, inventory, history, memory, purge, acting, todo,
                   component, pending, current>>

\* Mutant: the Secret is applied again and again.
RecordSecret_Stays ==
    /\ pc = "record"
    /\ recorded' = recorded \cup {current}
    /\ pc' = "secrets"
    /\ UNCHANGED <<local, backup, cluster, registered, status, history, memory, purge, acting,
                   todo, component, pending, current>>

RecordSecret ==
    /\ pc = "record"
    /\ recorded' = recorded \cup {current}
    /\ pending' = pending \ {current}
    /\ current' = NoSecret
    /\ pc' = "secrets"
    /\ UNCHANGED <<local, backup, cluster, registered, status, history, memory, purge, acting,
                   todo, component>>

\* The rest of the phase; Dex gets its configuration with all its clients.
ApplyPhase ==
    /\ pc = "secrets"
    /\ pending = {}
    /\ clients' = IF Auth \in component THEN Keys[DexSecret] ELSE clients
    /\ pc' = "finish"
    /\ UNCHANGED <<local, backup, secret, present, inventory, history, memory, purge, acting, todo,
                   component, pending, current>>

FinishComponent ==
    /\ pc = "finish"
    /\ status' = [c \in Component |-> IF c \in component THEN "installed" ELSE status[c]]
    /\ todo' = todo \ component
    /\ component' = {}
    /\ pc' = "issue"
    /\ UNCHANGED <<local, backup, cluster, registered, recorded, history, memory, purge, acting,
                   pending, current>>

FinishInstall ==
    /\ pc = "issue"
    /\ todo = {}
    /\ Quit
    /\ UNCHANGED <<local, backup, cluster, inventory, history>>

-----------------------------------------------------------------------------
(***************************************************************************)
(* enkictl component uninstall [--purge]                                   *)
(***************************************************************************)

StartUninstall(T, p) ==
    /\ pc = "idle"
    /\ T # {}
    /\ \A c \in T : status[c] # "absent"
    /\ \A c \in Component \ T : status[c] \in {"partial", "installed"} => Needs[c] \cap T = {}
    /\ acting' = T
    /\ purge' = p
    /\ status' = [c \in Component |-> IF c \in T THEN "partial" ELSE status[c]]
    /\ pc' = "removal"
    /\ UNCHANGED <<local, backup, cluster, registered, recorded, history, memory, todo, component,
                   pending, current>>

\* The phases: among their objects is Dex's configuration.
RemovePhases ==
    /\ pc = "removal"
    /\ clients' = IF Auth \in acting THEN {} ELSE clients
    /\ pc' = "purge"
    /\ UNCHANGED <<local, backup, secret, present, inventory, history, memory, purge, acting, todo,
                   component, pending, current>>

PurgeSecret(s) ==
    /\ pc = "purge" /\ purge
    /\ s \in SecretsOf(acting) \cap present
    /\ secret' = [secret EXCEPT ![s] = Nothing]
    /\ present' = present \ {s}
    /\ recorded' = recorded \ {s}
    /\ UNCHANGED <<local, backup, clients, registered, status, history, command>>

FinishUninstall ==
    /\ pc = "purge"
    /\ purge => SecretsOf(acting) \cap present = {}
    /\ status' = [c \in Component |-> IF c \in acting THEN "gone" ELSE status[c]]
    /\ Quit
    /\ UNCHANGED <<local, backup, cluster, registered, recorded, history>>

-----------------------------------------------------------------------------
\* A failed tool call, a timeout, a kill.
Fault ==
    /\ pc # "idle"
    /\ faults < MaxFaults
    /\ faults' = faults + 1
    /\ Quit
    /\ UNCHANGED <<local, backup, cluster, inventory, used, edited>>

\* A checkout without secrets.yaml, and its backup.
LoseSecrets ==
    /\ pc = "idle"
    /\ local' = Nothing
    /\ UNCHANGED <<backup, cluster, inventory, command, history>>

RestoreSecrets ==
    /\ pc = "idle"
    /\ local' = backup
    /\ UNCHANGED <<backup, cluster, inventory, command, history>>

\* The operator sets or removes a value.
EditSecrets(k) ==
    /\ pc = "idle"
    /\ used[k] < MaxGeneration - 1                \* bound
    /\ \/ local' = [local EXCEPT ![k] = used[k] + 1] /\ used' = [used EXCEPT ![k] = @ + 1]
       \/ local' = [local EXCEPT ![k] = 0] /\ UNCHANGED used
    /\ edited' = edited \cup {k}
    /\ UNCHANGED <<backup, cluster, inventory, command, faults>>

Next ==
    \/ \E T \in SUBSET Component : StartInstall(T)
    \/ Preflight
    \/ RefuseInstall
    \/ \E c \in Component : Issue(c)
    \/ \E c \in Component : RefuseIssue(c)
    \/ SaveSecrets
    \/ Register
    \/ \E s \in Secret : CheckSecret(s)
    \/ \E s \in Secret : RefuseSecret(s)
    \/ PutSecret
    \/ RecordSecret
    \/ ApplyPhase
    \/ FinishComponent
    \/ FinishInstall
    \/ \E T \in SUBSET Component, p \in BOOLEAN : StartUninstall(T, p)
    \/ RemovePhases
    \/ \E s \in Secret : PurgeSecret(s)
    \/ FinishUninstall
    \/ Fault
    \/ LoseSecrets
    \/ RestoreSecrets
    \/ \E k \in Editable : EditSecrets(k)

Spec == Init /\ [][Next]_vars

-----------------------------------------------------------------------------
(***************************************************************************)
(* Properties                                                              *)
(***************************************************************************)

(***************************************************************************)
(* docs/cli.md: generated credentials "must not be silently rotated on     *)
(* subsequent runs".  Without --purge a value in a Secret stays, whatever  *)
(* was lost, edited or interrupted, and no new value is generated for a    *)
(* credential that is in use: that a Secret carries or Dex is set up with. *)
(***************************************************************************)
NeverRotated ==
    [][/\ \A s \in Secret, k \in Key :
            secret[s][k] # 0 /\ secret'[s][k] # secret[s][k] => purge /\ secret'[s][k] = 0
       /\ \A k \in Key :
            pc = "issue" /\ used'[k] # used[k] =>
                k \notin clients /\ \A s \in Secret : secret[s][k] = 0]_vars

(***************************************************************************)
(* Of a credential that the operator left alone there is one value: all the*)
(* Secrets that carry it, those of a component and those of Dex, and       *)
(* secrets.yaml, if it is there, have the same.                            *)
(***************************************************************************)
Agree ==
    \A k \in Key \ edited, s \in Secret :
        secret[s][k] # 0 =>
            /\ local[k] \in {0, secret[s][k]}
            /\ \A t \in Secret : secret[t][k] \in {0, secret[s][k]}

(***************************************************************************)
(* "Restore missing generated credential" can be obeyed: what the inventory*)
(* has registered was in secrets.yaml before, wherever a run was stopped.  *)
(***************************************************************************)
RegisteredSaved == \A k \in registered \ edited : backup[k] # 0

=============================================================================
