------------------------- MODULE CredentialsProofs -------------------------
(***************************************************************************)
(* Proofs about the generated credentials, for any components, Secrets and *)
(* keys, and any number of commands, failures, edits and lost files.       *)
(***************************************************************************)
EXTENDS Credentials, TLAPS

\* What an older inventory may lack.
Late == Migrated \cup Recovered

\* The credential's value is in secrets.yaml, and the components' are complete.
Applying == {"register", "secrets", "put", "record", "finish"}

\* How far the command is.
Phases ==
    /\ pc \in {"idle", "removal", "purge"} => todo = {}
    /\ component # {} => pc \in Applying \cup {"saveSecrets"}
    /\ pc \in {"preflight", "issue"} \cup Applying => memory = local
    /\ pc \in Applying \cup {"saveSecrets"} => Missing = {}
    /\ pc \in Applying \ {"register"} => Required \subseteq registered
    /\ pc = "finish" => pending = {}
    /\ pc = "record" => current \in present

\* There is room for the values a run generates.
Bounded ==
    /\ \A k \in Key : local[k] <= used[k] /\ backup[k] <= used[k] /\ memory[k] <= used[k]
    /\ pc = "preflight" \/ (pc = "issue" /\ Missing # {}) =>
        \A k \in Key : used[k] < MaxGeneration

\* What conflicts() accepted is still so when the credentials are generated.
Accepted == pc = "issue" => \A k \in Missing : k \notin registered /\ Owner[k] \in acting

\* A credential in use is registered, or it is one that older releases left in Dex.
InUse ==
    /\ \A s \in Secret, k \in Key :
        secret[s][k] # 0 => k \in registered \/ (s = DexSecret /\ k \in Late)
    /\ clients \subseteq registered \cup Late
    /\ \A s \in recorded, t \in Secret :
        Of[t] = Of[s] => Keys[t] \subseteq registered \cup Late

\* The one value of a credential is what was written to secrets.yaml last.
OneValue ==
    \A k \in Key \ edited :
        /\ local[k] \in {0, backup[k]}
        /\ k \in registered => backup[k] # 0
        /\ \A s \in Secret : secret[s][k] # 0 =>
            /\ backup[k] \in {0, secret[s][k]}
            /\ pc = "saveSecrets" => memory[k] \in {0, secret[s][k]}

\* What was compared is what will be replaced.
Compared == pc = "put" => ~Mismatch(current)

Inductive == TypeOK /\ Phases /\ Bounded /\ Accepted /\ InUse /\ OneValue /\ Compared
-----------------------------------------------------------------------------
(***************************************************************************)
(* Lemmas: what the steps do.                                              *)
(***************************************************************************)

\* What TypeOK and the assumptions say of the values.
LEMMA Values ==
    ASSUME TypeOK
    PROVE  /\ \A k \in Key : local[k] \in Nat /\ backup[k] \in Nat
           /\ \A k \in Key : memory[k] \in Nat /\ used[k] \in Nat
           /\ \A s \in Secret, k \in Key : secret[s][k] \in Nat
           /\ MaxGeneration \in Nat \ {0}
           /\ 0 \in Value /\ 1 \in Value /\ Value \subseteq Nat
           /\ Nothing \in [Key -> Value]
BY CredentialAssumption DEF TypeOK, Value, Nothing

LEMMA Constants ==
    /\ Late \subseteq Keys[DexSecret] /\ Late \subseteq Key
    /\ \A s \in Secret : Keys[s] \subseteq Key /\ Of[s] \in Component
    /\ DexSecret \in Secret /\ Of[DexSecret] = Auth /\ Auth \in Component
    /\ \A s \in Secret : Of[s] = Auth => s = DexSecret
    /\ \A k \in Keys[DexSecret] : Owner[k] = Auth
    /\ Editable \subseteq Key
    /\ NoSecret \notin Secret
BY CredentialAssumption DEF Late

\* What a component's phase is about is required.
LEMMA PendingRequired ==
    ASSUME TypeOK, NEW s \in pending
    PROVE  s \in Secret /\ Keys[s] \subseteq Required
BY DEF TypeOK, Required, SecretsOf

\* credentials() never gives up on a key that conflicts() accepted, unless Dex
\* has the client without its key: its last refusal is never reached.
LEMMA NothingWithheld ==
    ASSUME TypeOK, Accepted, InUse, pc = "issue"
    PROVE  Withheld = {}
<1> SUFFICES ASSUME NEW k \in Withheld PROVE FALSE
  OBVIOUS
<1>1. k \in Missing /\ k \notin Sought /\ k \in Key
  BY Constants DEF Withheld, Missing, Required, SecretsOf
<1>2. k \notin registered /\ Owner[k] \in acting
  BY <1>1 DEF Accepted
<1>3. PICK s \in recorded : Of[s] = Owner[k]
  BY <1>1, <1>2 DEF Withheld, SecretsOf
<1>4. PICK t \in Secret : Of[t] = Owner[k] /\ k \in Keys[t]
  BY <1>1, CredentialAssumption
<1>5. k \in Late
  BY <1>2, <1>3, <1>4 DEF InUse
<1>6. Auth \in acting
  BY <1>2, <1>5, Constants
<1>7. QED
  BY <1>1, <1>2, <1>5, <1>6 DEF Sought, Late

\* A key that gets a new value is in no Secret, and no client of Dex's has it.
LEMMA GeneratedUnused ==
    ASSUME TypeOK, Accepted, InUse, pc = "issue", Unrecoverable = {}, NEW k \in Generated
    PROVE  k \notin clients /\ \A s \in Secret : secret[s][k] = 0
<1>1. k \in Missing /\ k \in Key
  BY Constants DEF Generated, Missing, Required, SecretsOf
<1>2. k \notin registered /\ Owner[k] \in acting
  BY <1>1 DEF Accepted
<1>3. CASE k \in Sought
  BY <1>1, <1>2, <1>3, Constants DEF Unrecoverable, Generated, InUse
<1>4. CASE k \notin Sought
  <2>1. k \notin Late
    BY <1>1, <1>2, <1>4, Constants DEF Sought, Late
  <2>2. QED
    BY <1>1, <1>2, <2>1 DEF InUse
<1>5. QED
  BY <1>3, <1>4

\* What credentials() makes of secrets.yaml is complete.
LEMMA IssueCompletes ==
    ASSUME TypeOK, Phases, Bounded, Accepted, InUse, NEW c \in Component, Issue(c)
    PROVE  /\ pc = "issue" /\ pc' = "saveSecrets"
           /\ c \in todo /\ component' = {c} /\ pending' = SecretsOf({c})
           /\ UNCHANGED <<local, backup, secret, present, clients, registered, recorded, purge,
                          acting, todo, current, edited, faults>>
           /\ memory' \in [Key -> Value] /\ used' \in [Key -> Value]
           /\ \A k \in Key : used[k] <= used'[k] /\ memory'[k] <= used'[k]
           /\ \A k \in Key : used'[k] # used[k] => k \in Generated
           /\ \A k \in Required : memory'[k] # 0
           /\ \A k \in Key :
                \/ memory'[k] = local[k]
                \/ memory'[k] = secret[DexSecret][k] /\ k \notin registered
                \/ k \in Generated
<1> USE DEF Issue, cluster, inventory, command, history
<1>1. \A k \in Generated : used[k] + 1 \in Value
  <2> SUFFICES ASSUME NEW k \in Generated PROVE used[k] + 1 \in Value
    OBVIOUS
  <2>1. k \in Key /\ Missing # {}
    BY Constants DEF Generated, Missing, Required, SecretsOf
  <2>2. used[k] < MaxGeneration
    BY <2>1 DEF Bounded
  <2>3. QED
    BY <2>1, <2>2, Values DEF Value
<1>2. \A k \in Key : secret[DexSecret][k] \in Value /\ secret[DexSecret][k] <= used[k]
  <2>1. \A k \in Key : used[k] \in Nat
    BY Values
  <2>2. QED
    BY <2>1, Constants DEF TypeOK
<1>3. memory' \in [Key -> Value] /\ used' \in [Key -> Value]
  BY <1>1, <1>2 DEF TypeOK
<1>4. Required \subseteq Key /\ Missing \subseteq Required
  BY Constants DEF Required, SecretsOf, Missing
<1>5. \A k \in Key : used[k] <= used'[k] /\ memory'[k] <= used'[k]
  BY <1>1, <1>2, Values DEF Bounded
<1>6. \A k \in Required : memory'[k] # 0
  <2> SUFFICES ASSUME NEW k \in Required PROVE memory'[k] # 0
    OBVIOUS
  <2>1. k \in Key /\ used[k] + 1 # 0
    BY <1>4, Values
  <2>2. CASE k \in Generated
    BY <2>1, <2>2
  <2>3. CASE k \notin Generated
    BY <2>1, <2>3 DEF Generated, Missing
  <2>4. QED
    BY <2>2, <2>3
<1>7. \A k \in Missing : k \notin registered
  BY DEF Accepted
<1>8. memory = local
  BY DEF Phases
<1>9. QED
  BY <1>3, <1>4, <1>5, <1>6, <1>7, <1>8

\* The commands end, refused, interrupted or finished, with what they have done.
Ends ==
    \/ RefuseInstall \/ (\E c \in Component : RefuseIssue(c)) \/ (\E s \in Secret : RefuseSecret(s))
    \/ FinishInstall \/ FinishUninstall \/ Fault

LEMMA EndsQuits ==
    ASSUME TypeOK, Accepted, InUse, Ends
    PROVE  /\ Quit
           /\ UNCHANGED <<local, backup, secret, present, clients, registered, recorded,
                          used, edited>>
           /\ status' \in [Component -> {"absent", "partial", "installed", "gone"}]
           /\ faults' \in 0..MaxFaults
<1>1. CASE \E c \in Component : RefuseIssue(c)
  BY <1>1, NothingWithheld DEF RefuseIssue, TypeOK, cluster, history
<1>2. CASE Fault
  BY <1>2, CredentialAssumption DEF Fault, TypeOK, cluster, inventory
<1>3. CASE FinishUninstall
  BY <1>3 DEF FinishUninstall, TypeOK, cluster, history
<1>4. CASE RefuseInstall \/ FinishInstall \/ \E s \in Secret : RefuseSecret(s)
  BY <1>4 DEF RefuseInstall, RefuseSecret, FinishInstall, TypeOK, cluster, inventory, history
<1>5. QED
  BY <1>1, <1>2, <1>3, <1>4 DEF Ends

\* The file gets what is in memory; what was written before is kept in backup.
LEMMA SaveWrites ==
    ASSUME TypeOK, SaveSecrets
    PROVE  /\ pc = "saveSecrets" /\ pc' = "register"
           /\ local' = memory /\ backup' \in [Key -> Value]
           /\ \A k \in Key : backup'[k] = IF memory[k] # 0 THEN memory[k] ELSE backup[k]
           /\ UNCHANGED <<secret, present, clients, registered, recorded, status, memory, purge,
                          acting, todo, component, pending, current, used, edited, faults>>
BY DEF SaveSecrets, TypeOK, cluster, inventory, history

LEMMA PutPuts ==
    ASSUME TypeOK, PutSecret
    PROVE  /\ pc = "put" /\ pc' = "record" /\ current \in pending /\ current \in Secret
           /\ present' = present \cup {current}
           /\ secret' \in [Secret -> [Key -> Value]]
           /\ \A k \in Key : secret'[current][k] = IF k \in Keys[current] THEN memory[k] ELSE 0
           /\ \A s \in Secret : s # current => secret'[s] = secret[s]
           /\ UNCHANGED <<local, backup, clients, registered, recorded, status, memory, purge,
                          acting, todo, component, pending, current, used, edited, faults>>
<1>1. current \in pending /\ current \in Secret
  BY DEF PutSecret, TypeOK
<1>2. [k \in Key |-> IF k \in Keys[current] THEN memory[k] ELSE 0] \in [Key -> Value]
  BY Values DEF TypeOK
<1>3. secret' \in [Secret -> [Key -> Value]]
  BY <1>1, <1>2 DEF PutSecret, TypeOK
<1>4. QED
  BY <1>1, <1>3 DEF PutSecret, TypeOK, inventory, history

LEMMA PurgeClears ==
    ASSUME TypeOK, NEW s \in Secret, PurgeSecret(s)
    PROVE  /\ pc = "purge" /\ purge /\ present' = present \ {s} /\ recorded' = recorded \ {s}
           /\ secret' \in [Secret -> [Key -> Value]]
           /\ \A k \in Key : secret'[s][k] = 0
           /\ \A t \in Secret : t # s => secret'[t] = secret[t]
           /\ UNCHANGED <<local, backup, clients, registered, status, memory, pc, purge,
                          acting, todo, component, pending, current, used, edited, faults>>
<1>1. Nothing \in [Key -> Value] /\ \A k \in Key : Nothing[k] = 0
  BY Values DEF Nothing
<1>2. QED
  BY <1>1 DEF PurgeSecret, TypeOK, command, history

LEMMA EditEdits ==
    ASSUME TypeOK, NEW k \in Editable, EditSecrets(k)
    PROVE  /\ pc = "idle" /\ edited' = edited \cup {k} /\ k \in Key
           /\ local' \in [Key -> Value] /\ used' \in [Key -> Value]
           /\ \A j \in Key : used[j] <= used'[j]
           /\ local'[k] <= used'[k]
           /\ \A j \in Key : j # k => local'[j] = local[j]
           /\ UNCHANGED <<backup, secret, present, clients, registered, recorded, status, memory,
                          pc, purge, acting, todo, component, pending, current, faults>>
<1>0. k \in Key /\ 0 \in Value /\ used[k] \in Nat
  BY Constants, Values
<1>1. used[k] + 1 \in Value
  BY <1>0, Values DEF EditSecrets, Value
<1>2. CASE local' = [local EXCEPT ![k] = used[k] + 1] /\ used' = [used EXCEPT ![k] = @ + 1]
  BY <1>0, <1>1, <1>2, Values DEF EditSecrets, TypeOK, cluster, inventory, command
<1>3. CASE local' = [local EXCEPT ![k] = 0] /\ UNCHANGED used
  BY <1>0, <1>3, Values DEF EditSecrets, TypeOK, cluster, inventory, command
<1>4. QED
  BY <1>2, <1>3 DEF EditSecrets

\* The steps of the program, and those of its surroundings.
LEMMA Steps ==
    ASSUME Next
    PROVE  \/ Ends
           \/ \E T \in SUBSET Component : StartInstall(T)
           \/ Preflight
           \/ \E c \in Component : Issue(c)
           \/ SaveSecrets \/ Register
           \/ \E s \in Secret : CheckSecret(s)
           \/ PutSecret \/ RecordSecret \/ ApplyPhase \/ FinishComponent
           \/ \E T \in SUBSET Component, p \in BOOLEAN : StartUninstall(T, p)
           \/ RemovePhases
           \/ \E s \in Secret : PurgeSecret(s)
           \/ LoseSecrets \/ RestoreSecrets
           \/ \E k \in Editable : EditSecrets(k)
BY DEF Next, Ends

\* Types; a value in a Secret has been used, and is one that the Secret carries.
LEMMA TypeOKKept ==
    ASSUME TypeOK, Phases, Bounded, Accepted, InUse, Next
    PROVE  TypeOK'
<1> USE Constants, Values
<1>1. CASE Ends
  BY <1>1, EndsQuits DEF Quit, TypeOK, Step
<1>2. ASSUME NEW T \in SUBSET Component, StartInstall(T) PROVE TypeOK'
  <2>1. /\ acting' \subseteq Component /\ todo' = acting'
        /\ pc = "idle" /\ pc' = "preflight" /\ memory' = local
        /\ UNCHANGED <<local, backup, secret, present, clients, registered, recorded, status,
                       purge, component, pending, current, used, edited, faults>>
    BY <1>2, CredentialAssumption DEF StartInstall, cluster, inventory, history
  <2>2. component = {}
    BY <2>1 DEF Phases, Applying
  <2>3. QED
    BY <2>1, <2>2 DEF TypeOK, Step
<1>3. CASE Preflight
  BY <1>3 DEF Preflight, cluster, inventory, history, TypeOK, Step
<1>4. ASSUME NEW c \in Component, Issue(c) PROVE TypeOK'
  <2>1. \A s \in Secret, j \in Key : secret[s][j] <= used[j] => secret[s][j] <= used'[j]
    <3>1. \A j \in Key : used[j] <= used'[j] /\ used'[j] \in Nat
      BY <1>4, IssueCompletes
    <3>2. QED
      BY <3>1
  <2>2. pending' = {s \in Secret : Of[s] \in component'} /\ c \in todo /\ component' = {c}
    BY <1>4, IssueCompletes DEF SecretsOf
  <2>3. status' \in [Component -> {"absent", "partial", "installed", "gone"}]
    BY <1>4 DEF Issue, TypeOK
  <2>4. current = NoSecret
    BY <1>4, IssueCompletes DEF TypeOK
  <2>5. QED
    BY <1>4, <2>1, <2>2, <2>3, <2>4, IssueCompletes DEF TypeOK, Step
<1>5. CASE SaveSecrets
  BY <1>5, SaveWrites DEF TypeOK, Step
<1>6. CASE Register
  <2>1. Required \subseteq Key
    BY DEF Required, SecretsOf
  <2>2. QED
    BY <1>6, <2>1 DEF Register, TypeOK, Step, cluster, history
<1>7. ASSUME NEW s \in Secret, CheckSecret(s) PROVE TypeOK'
  BY <1>7 DEF CheckSecret, cluster, inventory, history, TypeOK, Step
<1>8. CASE PutSecret
  <2>1. \A j \in Key : memory[j] <= used[j]
    BY DEF Bounded
  <2>2. ASSUME NEW s \in Secret, NEW j \in Key, secret'[s][j] # 0
        PROVE  s \in present' /\ j \in Keys[s] /\ secret'[s][j] <= used[j]
    <3>1. CASE s = current
      BY <1>8, <2>1, <2>2, <3>1, PutPuts
    <3>2. CASE s # current
      BY <1>8, <2>2, <3>2, PutPuts DEF TypeOK
    <3>3. QED
      BY <3>1, <3>2
  <2>3. current # NoSecret
    BY <1>8, PutPuts DEF TypeOK
  <2>4. QED
    BY <1>8, <2>2, <2>3, PutPuts DEF TypeOK, Step
<1>9. CASE RecordSecret
  <2>1. current \in present /\ current \in pending
    BY <1>9 DEF RecordSecret, TypeOK, Phases
  <2>2. QED
    BY <1>9, <2>1 DEF RecordSecret, TypeOK, Step, cluster, history
<1>10. CASE ApplyPhase
  BY <1>10 DEF ApplyPhase, inventory, history, TypeOK, Step
<1>11. CASE FinishComponent
  <2>1. pc = "finish" /\ pending = {} /\ current = NoSecret
    BY <1>11 DEF FinishComponent, Phases, TypeOK
  <2>2. status' \in [Component -> {"absent", "partial", "installed", "gone"}]
    BY <1>11 DEF FinishComponent, TypeOK
  <2>3. QED
    BY <1>11, <2>1, <2>2 DEF FinishComponent, TypeOK, Step, cluster, history
<1>12. ASSUME NEW T \in SUBSET Component, NEW p \in BOOLEAN, StartUninstall(T, p) PROVE TypeOK'
  <2>1. todo = {} /\ component = {} /\ current = NoSecret
    BY <1>12 DEF StartUninstall, Phases, Applying, TypeOK
  <2>2. status' \in [Component -> {"absent", "partial", "installed", "gone"}]
    BY <1>12 DEF StartUninstall, TypeOK
  <2>3. QED
    BY <1>12, <2>1, <2>2 DEF StartUninstall, TypeOK, Step, cluster, history
<1>13. CASE RemovePhases
  BY <1>13 DEF RemovePhases, inventory, history, TypeOK, Step
<1>14. ASSUME NEW s \in Secret, PurgeSecret(s) PROVE TypeOK'
  <2>1. ASSUME NEW t \in Secret, NEW j \in Key, secret'[t][j] # 0
        PROVE  t \in present' /\ j \in Keys[t] /\ secret'[t][j] <= used[j]
    BY <1>14, <2>1, PurgeClears DEF TypeOK
  <2>2. QED
    BY <1>14, <2>1, PurgeClears DEF TypeOK
<1>15. CASE LoseSecrets
  BY <1>15 DEF LoseSecrets, cluster, inventory, command, history, Nothing, TypeOK, Step
<1>16. CASE RestoreSecrets
  BY <1>16 DEF RestoreSecrets, cluster, inventory, command, history, TypeOK, Step
<1>17. ASSUME NEW k \in Editable, EditSecrets(k) PROVE TypeOK'
  <2>1. \A s \in Secret, j \in Key : secret[s][j] <= used[j] => secret[s][j] <= used'[j]
    <3>1. \A j \in Key : used[j] <= used'[j] /\ used'[j] \in Nat
      BY <1>17, EditEdits
    <3>2. QED
      BY <3>1
  <2>2. QED
    BY <1>17, <2>1, EditEdits DEF TypeOK
<1>18. QED
  BY <1>1, <1>2, <1>3, <1>4, <1>5, <1>6, <1>7, <1>8, <1>9, <1>10, <1>11, <1>12, <1>13, <1>14,
     <1>15, <1>16, <1>17, Steps

\* How far the command is: FinishComponent and the quitting steps end a phase.
LEMMA PhasesKept ==
    ASSUME TypeOK, Phases, Bounded, Accepted, InUse, Next
    PROVE  Phases'
<1> USE Constants, Values DEF Phases, TypeOK, Applying
<1>1. CASE Ends
  BY <1>1, EndsQuits DEF Quit, Nothing
<1>2. ASSUME NEW T \in SUBSET Component, StartInstall(T) PROVE Phases'
  BY <1>2 DEF StartInstall, cluster, inventory, history
<1>3. CASE Preflight
  BY <1>3 DEF Preflight, cluster, inventory, history
<1>4. ASSUME NEW c \in Component, Issue(c) PROVE Phases'
  BY <1>4, IssueCompletes DEF Required, Missing, SecretsOf
<1>5. CASE SaveSecrets
  BY <1>5, SaveWrites DEF Required, Missing, SecretsOf
<1>6. CASE Register
  BY <1>6 DEF Register, cluster, history, Required, Missing, SecretsOf
<1>7. ASSUME NEW s \in Secret, CheckSecret(s) PROVE Phases'
  BY <1>7 DEF CheckSecret, cluster, inventory, history, Required, Missing, SecretsOf
<1>8. CASE PutSecret
  BY <1>8, PutPuts DEF Required, Missing, SecretsOf
<1>9. CASE RecordSecret
  BY <1>9 DEF RecordSecret, cluster, history, Required, Missing, SecretsOf
<1>10. CASE ApplyPhase
  BY <1>10 DEF ApplyPhase, inventory, history, Required, Missing, SecretsOf
<1>11. CASE FinishComponent
  BY <1>11 DEF FinishComponent, cluster, history, Required, Missing, SecretsOf
<1>12. ASSUME NEW T \in SUBSET Component, NEW p \in BOOLEAN, StartUninstall(T, p) PROVE Phases'
  BY <1>12 DEF StartUninstall, cluster, history
<1>13. CASE RemovePhases
  BY <1>13 DEF RemovePhases, inventory, history
<1>14. ASSUME NEW s \in Secret, PurgeSecret(s) PROVE Phases'
  BY <1>14, PurgeClears
<1>15. CASE LoseSecrets
  BY <1>15 DEF LoseSecrets, cluster, inventory, command, history, Nothing
<1>16. CASE RestoreSecrets
  BY <1>16 DEF RestoreSecrets, cluster, inventory, command, history
<1>17. ASSUME NEW k \in Editable, EditSecrets(k) PROVE Phases'
  BY <1>17, EditEdits
<1> HIDE Constants, Values DEF Phases, TypeOK, Applying
<1>18. QED
  BY <1>1, <1>2, <1>3, <1>4, <1>5, <1>6, <1>7, <1>8, <1>9, <1>10, <1>11, <1>12, <1>13, <1>14,
     <1>15, <1>16, <1>17, Steps

\* Only Issue makes values, once in a run, and there is room for them.
LEMMA BoundedKept ==
    ASSUME TypeOK, Phases, Bounded, Accepted, InUse, Next
    PROVE  Bounded'
<1> USE Constants, Values DEF Bounded, Phases, Applying
<1>1. CASE Ends
  BY <1>1, EndsQuits DEF Quit, Nothing
<1>2. ASSUME NEW T \in SUBSET Component, StartInstall(T) PROVE Bounded'
  BY <1>2 DEF StartInstall, cluster, inventory, history
<1>3. CASE Preflight
  BY <1>3 DEF Preflight, cluster, inventory, history, Required, Missing, SecretsOf
<1>4. ASSUME NEW c \in Component, Issue(c) PROVE Bounded'
  <2>1. \A k \in Key : used'[k] \in Nat /\ local'[k] = local[k] /\ backup'[k] = backup[k]
    BY <1>4, IssueCompletes
  <2>2. \A k \in Key : local[k] <= used'[k] /\ backup[k] <= used'[k]
    <3>1. \A k \in Key : used[k] <= used'[k] /\ local[k] <= used[k] /\ backup[k] <= used[k]
      BY <1>4, IssueCompletes
    <3>2. QED
      BY <2>1, <3>1
  <2>3. \A k \in Key : memory'[k] <= used'[k]
    BY <1>4, IssueCompletes
  <2>4. QED
    BY <1>4, <2>1, <2>2, <2>3, IssueCompletes
<1>5. CASE SaveSecrets
  BY <1>5, SaveWrites
<1>6. CASE Register
  BY <1>6 DEF Register, cluster, history
<1>7. ASSUME NEW s \in Secret, CheckSecret(s) PROVE Bounded'
  BY <1>7 DEF CheckSecret, cluster, inventory, history
<1>8. CASE PutSecret
  BY <1>8, PutPuts
<1>9. CASE RecordSecret
  BY <1>9 DEF RecordSecret, cluster, history
<1>10. CASE ApplyPhase
  BY <1>10 DEF ApplyPhase, inventory, history
<1>11. CASE FinishComponent
  BY <1>11 DEF FinishComponent, cluster, history, Required, Missing, SecretsOf
<1>12. ASSUME NEW T \in SUBSET Component, NEW p \in BOOLEAN, StartUninstall(T, p) PROVE Bounded'
  BY <1>12 DEF StartUninstall, cluster, history
<1>13. CASE RemovePhases
  BY <1>13 DEF RemovePhases, inventory, history
<1>14. ASSUME NEW s \in Secret, PurgeSecret(s) PROVE Bounded'
  BY <1>14, PurgeClears
<1>15. CASE LoseSecrets
  BY <1>15 DEF LoseSecrets, cluster, inventory, command, history, Nothing
<1>16. CASE RestoreSecrets
  BY <1>16 DEF RestoreSecrets, cluster, inventory, command, history
<1>17. ASSUME NEW k \in Editable, EditSecrets(k) PROVE Bounded'
  BY <1>17, EditEdits
<1> HIDE Constants, Values DEF Bounded, Phases, Applying
<1>18. QED
  BY <1>1, <1>2, <1>3, <1>4, <1>5, <1>6, <1>7, <1>8, <1>9, <1>10, <1>11, <1>12, <1>13, <1>14,
     <1>15, <1>16, <1>17, Steps

\* Preflight establishes it; nothing is missing when a later component's turn comes.
LEMMA AcceptedKept ==
    ASSUME TypeOK, Phases, Bounded, Accepted, InUse, Next
    PROVE  Accepted'
<1> USE Constants, Values DEF Accepted, Phases, Applying
<1>1. CASE Ends
  BY <1>1, EndsQuits DEF Quit, Nothing
<1>2. ASSUME NEW T \in SUBSET Component, StartInstall(T) PROVE Accepted'
  BY <1>2 DEF StartInstall, cluster, inventory, history
<1>3. CASE Preflight
  BY <1>3 DEF Preflight, cluster, inventory, history, PreflightAccepted, Required, Missing,
     SecretsOf
<1>4. ASSUME NEW c \in Component, Issue(c) PROVE Accepted'
  BY <1>4, IssueCompletes
<1>5. CASE SaveSecrets
  BY <1>5, SaveWrites
<1>6. CASE Register
  BY <1>6 DEF Register, cluster, history
<1>7. ASSUME NEW s \in Secret, CheckSecret(s) PROVE Accepted'
  BY <1>7 DEF CheckSecret, cluster, inventory, history
<1>8. CASE PutSecret
  BY <1>8, PutPuts
<1>9. CASE RecordSecret
  BY <1>9 DEF RecordSecret, cluster, history
<1>10. CASE ApplyPhase
  BY <1>10 DEF ApplyPhase, inventory, history
<1>11. CASE FinishComponent
  BY <1>11 DEF FinishComponent, cluster, history, Required, Missing, SecretsOf
<1>12. ASSUME NEW T \in SUBSET Component, NEW p \in BOOLEAN, StartUninstall(T, p) PROVE Accepted'
  BY <1>12 DEF StartUninstall, cluster, history
<1>13. CASE RemovePhases
  BY <1>13 DEF RemovePhases, inventory, history
<1>14. ASSUME NEW s \in Secret, PurgeSecret(s) PROVE Accepted'
  BY <1>14, PurgeClears
<1>15. CASE LoseSecrets
  BY <1>15 DEF LoseSecrets, cluster, inventory, command, history, Nothing
<1>16. CASE RestoreSecrets
  BY <1>16 DEF RestoreSecrets, cluster, inventory, command, history
<1>17. ASSUME NEW k \in Editable, EditSecrets(k) PROVE Accepted'
  BY <1>17, EditEdits
<1> HIDE Constants, Values DEF Accepted, Phases, Applying
<1>18. QED
  BY <1>1, <1>2, <1>3, <1>4, <1>5, <1>6, <1>7, <1>8, <1>9, <1>10, <1>11, <1>12, <1>13, <1>14,
     <1>15, <1>16, <1>17, Steps

\* Register comes before the Secrets and the configuration of Dex.
LEMMA InUseKept ==
    ASSUME TypeOK, Phases, Bounded, Accepted, InUse, Next
    PROVE  InUse'
<1> USE Constants, Values DEF InUse, Phases, Applying
<1>1. CASE Ends
  BY <1>1, EndsQuits DEF Quit, Nothing
<1>2. ASSUME NEW T \in SUBSET Component, StartInstall(T) PROVE InUse'
  BY <1>2 DEF StartInstall, cluster, inventory, history
<1>3. CASE Preflight
  BY <1>3 DEF Preflight, cluster, inventory, history
<1>4. ASSUME NEW c \in Component, Issue(c) PROVE InUse'
  BY <1>4, IssueCompletes
<1>5. CASE SaveSecrets
  BY <1>5, SaveWrites
<1>6. CASE Register
  BY <1>6 DEF Register, cluster, history
<1>7. ASSUME NEW s \in Secret, CheckSecret(s) PROVE InUse'
  BY <1>7 DEF CheckSecret, cluster, inventory, history
<1>8. CASE PutSecret
  <2>1. Keys[current] \subseteq registered
    BY <1>8, PutPuts, PendingRequired
  <2>2. ASSUME NEW s \in Secret, NEW j \in Key, secret'[s][j] # 0
        PROVE  j \in registered \/ (s = DexSecret /\ j \in Late)
    BY <1>8, <2>1, <2>2, PutPuts
  <2>3. QED
    BY <1>8, <2>2, PutPuts
<1>9. CASE RecordSecret
  <2>1. current \in pending /\ Of[current] \in acting
    BY <1>9 DEF RecordSecret, TypeOK
  <2>2. \A t \in Secret : Of[t] = Of[current] => Keys[t] \subseteq registered
    BY <1>9, <2>1 DEF RecordSecret, Required, SecretsOf
  <2>3. QED
    BY <1>9, <2>2 DEF RecordSecret, cluster, history
<1>10. CASE ApplyPhase
  <2>1. Auth \in component => Keys[DexSecret] \subseteq registered
    BY <1>10 DEF ApplyPhase, Required, SecretsOf, TypeOK
  <2>2. QED
    BY <1>10, <2>1 DEF ApplyPhase, inventory, history
<1>11. CASE FinishComponent
  BY <1>11 DEF FinishComponent, cluster, history
<1>12. ASSUME NEW T \in SUBSET Component, NEW p \in BOOLEAN, StartUninstall(T, p) PROVE InUse'
  BY <1>12 DEF StartUninstall, cluster, history
<1>13. CASE RemovePhases
  BY <1>13 DEF RemovePhases, inventory, history
<1>14. ASSUME NEW s \in Secret, PurgeSecret(s) PROVE InUse'
  BY <1>14, PurgeClears
<1>15. CASE LoseSecrets
  BY <1>15 DEF LoseSecrets, cluster, inventory, command, history, Nothing
<1>16. CASE RestoreSecrets
  BY <1>16 DEF RestoreSecrets, cluster, inventory, command, history
<1>17. ASSUME NEW k \in Editable, EditSecrets(k) PROVE InUse'
  BY <1>17, EditEdits
<1> HIDE Constants, Values DEF InUse, Phases, Applying
<1>18. QED
  BY <1>1, <1>2, <1>3, <1>4, <1>5, <1>6, <1>7, <1>8, <1>9, <1>10, <1>11, <1>12, <1>13, <1>14,
     <1>15, <1>16, <1>17, Steps

\* SaveSecrets comes before Register, and what a Secret has is never made anew.
LEMMA OneValueKept ==
    ASSUME TypeOK, Phases, Bounded, Accepted, InUse, OneValue, Next
    PROVE  OneValue'
<1> USE Constants, Values DEF OneValue, Phases, Applying
<1>1. CASE Ends
  BY <1>1, EndsQuits DEF Quit, Nothing
<1>2. ASSUME NEW T \in SUBSET Component, StartInstall(T) PROVE OneValue'
  BY <1>2 DEF StartInstall, cluster, inventory, history
<1>3. CASE Preflight
  BY <1>3 DEF Preflight, cluster, inventory, history
<1>4. ASSUME NEW c \in Component, Issue(c) PROVE OneValue'
  <2>1. ASSUME NEW k \in Key \ edited, NEW s \in Secret, secret[s][k] # 0
        PROVE  memory'[k] \in {0, secret[s][k]}
    <3>1. k \notin Generated
      BY <1>4, <2>1, GeneratedUnused DEF Issue
    <3>2. CASE memory'[k] = local[k]
      BY <2>1, <3>2
    <3>3. CASE memory'[k] = secret[DexSecret][k] /\ k \notin registered
      BY <2>1, <3>3 DEF InUse
    <3>4. QED
      BY <1>4, <2>1, <3>1, <3>2, <3>3, IssueCompletes
  <2>2. QED
    BY <1>4, <2>1, IssueCompletes
<1>5. CASE SaveSecrets
  BY <1>5, SaveWrites
<1>6. CASE Register
  <2>1. \A k \in Required : local[k] # 0 /\ k \in Key
    BY <1>6 DEF Register, Missing, Required, SecretsOf
  <2>2. QED
    BY <1>6, <2>1 DEF Register, cluster, history
<1>7. ASSUME NEW s \in Secret, CheckSecret(s) PROVE OneValue'
  BY <1>7 DEF CheckSecret, cluster, inventory, history
<1>8. CASE PutSecret
  BY <1>8, PutPuts
<1>9. CASE RecordSecret
  BY <1>9 DEF RecordSecret, cluster, history
<1>10. CASE ApplyPhase
  BY <1>10 DEF ApplyPhase, inventory, history
<1>11. CASE FinishComponent
  BY <1>11 DEF FinishComponent, cluster, history
<1>12. ASSUME NEW T \in SUBSET Component, NEW p \in BOOLEAN, StartUninstall(T, p) PROVE OneValue'
  BY <1>12 DEF StartUninstall, cluster, history
<1>13. CASE RemovePhases
  BY <1>13 DEF RemovePhases, inventory, history
<1>14. ASSUME NEW s \in Secret, PurgeSecret(s) PROVE OneValue'
  BY <1>14, PurgeClears
<1>15. CASE LoseSecrets
  BY <1>15 DEF LoseSecrets, cluster, inventory, command, history, Nothing
<1>16. CASE RestoreSecrets
  BY <1>16 DEF RestoreSecrets, cluster, inventory, command, history
<1>17. ASSUME NEW k \in Editable, EditSecrets(k) PROVE OneValue'
  BY <1>17, EditEdits
<1> HIDE Constants, Values DEF OneValue, Phases, Applying
<1>18. QED
  BY <1>1, <1>2, <1>3, <1>4, <1>5, <1>6, <1>7, <1>8, <1>9, <1>10, <1>11, <1>12, <1>13, <1>14,
     <1>15, <1>16, <1>17, Steps

\* CheckSecret compares, and nothing comes between it and PutSecret.
LEMMA ComparedKept ==
    ASSUME TypeOK, Phases, Bounded, Accepted, InUse, Compared, Next
    PROVE  Compared'
<1> USE Constants, Values DEF Compared
<1>1. CASE Ends
  BY <1>1, EndsQuits DEF Quit, Nothing
<1>2. ASSUME NEW T \in SUBSET Component, StartInstall(T) PROVE Compared'
  BY <1>2 DEF StartInstall, cluster, inventory, history
<1>3. CASE Preflight
  BY <1>3 DEF Preflight, cluster, inventory, history
<1>4. ASSUME NEW c \in Component, Issue(c) PROVE Compared'
  BY <1>4, IssueCompletes
<1>5. CASE SaveSecrets
  BY <1>5, SaveWrites
<1>6. CASE Register
  BY <1>6 DEF Register, cluster, history
<1>7. ASSUME NEW s \in Secret, CheckSecret(s) PROVE Compared'
  BY <1>7 DEF CheckSecret, cluster, inventory, history, Mismatch
<1>8. CASE PutSecret
  BY <1>8, PutPuts
<1>9. CASE RecordSecret
  BY <1>9 DEF RecordSecret, cluster, history
<1>10. CASE ApplyPhase
  BY <1>10 DEF ApplyPhase, inventory, history
<1>11. CASE FinishComponent
  BY <1>11 DEF FinishComponent, cluster, history
<1>12. ASSUME NEW T \in SUBSET Component, NEW p \in BOOLEAN, StartUninstall(T, p) PROVE Compared'
  BY <1>12 DEF StartUninstall, cluster, history
<1>13. CASE RemovePhases
  BY <1>13 DEF RemovePhases, inventory, history
<1>14. ASSUME NEW s \in Secret, PurgeSecret(s) PROVE Compared'
  BY <1>14, PurgeClears
<1>15. CASE LoseSecrets
  BY <1>15 DEF LoseSecrets, cluster, inventory, command, history, Nothing
<1>16. CASE RestoreSecrets
  BY <1>16 DEF RestoreSecrets, cluster, inventory, command, history
<1>17. ASSUME NEW k \in Editable, EditSecrets(k) PROVE Compared'
  BY <1>17, EditEdits
<1> HIDE Constants, Values DEF Compared
<1>18. QED
  BY <1>1, <1>2, <1>3, <1>4, <1>5, <1>6, <1>7, <1>8, <1>9, <1>10, <1>11, <1>12, <1>13, <1>14,
     <1>15, <1>16, <1>17, Steps

-----------------------------------------------------------------------------

\* An inventory of an older release, as Init has it.
Early == {k \in Keys[DexSecret] : Owner[k] = Auth} \ Late

OlderRelease(stored, listed) ==
    /\ local = [k \in Key |-> IF k \in Early THEN 1 ELSE 0]
    /\ secret = [s \in Secret |-> [k \in Key |->
                    IF s = DexSecret /\ k \in Early \cup stored THEN 1 ELSE 0]]
    /\ present = {DexSecret} /\ clients = Early \cup listed
    /\ registered = Early /\ recorded = {DexSecret}
    /\ status = [c \in Component |-> IF c = Auth THEN "installed" ELSE "absent"]
    /\ used = [k \in Key |-> IF k \in Early \cup stored THEN 1 ELSE 0]

LEMMA InitInductive == Init => Inductive
<1> SUFFICES ASSUME Init PROVE Inductive
  OBVIOUS
<1> USE CredentialAssumption, Constants
<1>1. 0 \in Value /\ 1 \in Value /\ 0 < MaxGeneration /\ 0 \in 0..MaxFaults
  BY DEF Value
<1>2. Phases /\ Accepted /\ Compared
  BY DEF Init, Rest, Phases, Applying, Accepted, Compared
<1>3. Rest /\ edited = {} /\ faults = 0 /\ backup = local
  BY DEF Init
<1>4. CASE /\ local = Nothing
           /\ secret = [s \in Secret |-> Nothing] /\ present = {} /\ clients = {}
           /\ registered = {} /\ recorded = {}
           /\ status = [c \in Component |-> "absent"]
           /\ used = Nothing
  <2>0. Nothing \in [Key -> Value] /\ \A k \in Key : Nothing[k] = 0
    BY <1>1 DEF Nothing
  <2>1. TypeOK
    <3>1. \A s \in Secret, k \in Key : secret[s][k] = 0
      BY <1>4, <2>0
    <3>2. /\ local \in [Key -> Value] /\ backup \in [Key -> Value] /\ used \in [Key -> Value]
          /\ secret \in [Secret -> [Key -> Value]] /\ memory \in [Key -> Value]
          /\ status \in [Component -> {"absent", "partial", "installed", "gone"}]
      BY <1>3, <1>4, <2>0 DEF Rest
    <3>3. QED
      BY <1>1, <1>3, <1>4, <3>1, <3>2 DEF Rest, TypeOK, Step
  <2>2. Bounded /\ InUse /\ OneValue
    BY <1>1, <1>3, <1>4 DEF Rest, Nothing, Bounded, InUse, OneValue
  <2>3. QED
    BY <1>2, <2>1, <2>2 DEF Inductive
<1>5. CASE \E stored, listed \in SUBSET Late : OlderRelease(stored, listed)
  <2> PICK stored, listed \in SUBSET Late : OlderRelease(stored, listed)
    BY <1>5
  <2> USE DEF OlderRelease, Early
  <2>1. TypeOK
    <3>1. /\ local \in [Key -> Value] /\ backup \in [Key -> Value] /\ used \in [Key -> Value]
          /\ secret \in [Secret -> [Key -> Value]]
      BY <1>1, <1>3
    <3>2. /\ memory \in [Key -> Value]
          /\ status \in [Component -> {"absent", "partial", "installed", "gone"}]
      BY <1>1, <1>3 DEF Rest, Nothing
    <3>3. \A s \in Secret, k \in Key :
            secret[s][k] # 0 => s \in present /\ k \in Keys[s] /\ secret[s][k] <= used[k]
      BY <1>1
    <3>4. /\ clients \subseteq Keys[DexSecret] /\ registered \subseteq Key
          /\ present \subseteq Secret /\ recorded \subseteq present
      OBVIOUS
    <3> HIDE DEF OlderRelease, Early
    <3>5. QED
      BY <1>1, <1>3, <3>1, <3>2, <3>3, <3>4 DEF Rest, TypeOK, Step
  <2>2. Bounded
    BY <1>1, <1>3 DEF Rest, Nothing, Bounded
  <2>3. InUse /\ OneValue
    BY <1>1, <1>3 DEF Rest, InUse, OneValue
  <2>4. QED
    BY <1>2, <2>1, <2>2, <2>3 DEF Inductive
<1>6. QED
  BY <1>4, <1>5 DEF Init, OlderRelease, Early, Late

LEMMA StepInductive == Inductive /\ [Next]_vars => Inductive'
<1> SUFFICES ASSUME Inductive, [Next]_vars PROVE Inductive'
  OBVIOUS
<1>1. CASE Next
  BY <1>1, TypeOKKept, PhasesKept, BoundedKept, AcceptedKept, InUseKept, OneValueKept, ComparedKept
     DEF Inductive
<1>2. CASE UNCHANGED vars
  BY <1>2 DEF vars, cluster, inventory, command, history, Inductive, TypeOK, Phases, Bounded,
     Accepted, InUse, OneValue, Compared, Missing, Required, Mismatch
<1>3. QED
  BY <1>1, <1>2

\* The inductive invariant holds: what the theorems follow from.
LEMMA Invariance == Spec => []Inductive
BY InitInductive, StepInductive, PTL DEF Spec

\* Who writes the Secrets, and who makes new values.
LEMMA SecretStays ==
    ASSUME TypeOK, Accepted, InUse, Next, ~PutSecret, \A s \in Secret : ~PurgeSecret(s)
    PROVE  secret' = secret
<1>1. CASE Ends
  BY <1>1, EndsQuits
<1>2. CASE \/ Preflight \/ SaveSecrets \/ Register \/ RecordSecret \/ ApplyPhase
           \/ FinishComponent \/ RemovePhases \/ LoseSecrets \/ RestoreSecrets
  BY <1>2 DEF Preflight, SaveSecrets, Register, RecordSecret, ApplyPhase, FinishComponent,
     RemovePhases, LoseSecrets, RestoreSecrets, cluster
<1>3. CASE \/ \E T \in SUBSET Component : StartInstall(T)
           \/ \E c \in Component : Issue(c)
           \/ \E s \in Secret : CheckSecret(s)
           \/ \E T \in SUBSET Component, p \in BOOLEAN : StartUninstall(T, p)
           \/ \E k \in Editable : EditSecrets(k)
  BY <1>3 DEF StartInstall, Issue, CheckSecret, StartUninstall, EditSecrets, cluster
<1>4. QED
  BY <1>1, <1>2, <1>3, Steps

LEMMA UsedStays ==
    ASSUME TypeOK, Accepted, InUse, Next, pc = "issue", \A c \in Component : ~Issue(c)
    PROVE  used' = used
<1>1. CASE Ends
  BY <1>1, EndsQuits
<1>2. CASE FinishComponent
  BY <1>2 DEF FinishComponent
<1>3. QED
  BY <1>1, <1>2, Steps DEF StartInstall, Preflight, SaveSecrets, Register, CheckSecret, PutSecret,
     RecordSecret, ApplyPhase, StartUninstall, RemovePhases, PurgeSecret, LoseSecrets,
     RestoreSecrets, EditSecrets

\* Type correctness of the generated credentials and the places that keep them.
THEOREM CredentialTypes == Spec => []TypeOK
<1>1. Inductive => TypeOK
  BY DEF Inductive
<1>2. QED
  BY <1>1, Invariance, PTL

\* Of a credential that nobody edited there is one value, everywhere.
THEOREM CredentialsAgree == Spec => []Agree
<1>1. Inductive => Agree
  <2> SUFFICES ASSUME Inductive,
                      NEW k \in Key \ edited, NEW s \in Secret, secret[s][k] # 0
               PROVE  /\ local[k] \in {0, secret[s][k]}
                      /\ \A t \in Secret : secret[t][k] \in {0, secret[s][k]}
    BY DEF Agree
  <2>1. CASE backup[k] = 0
    BY <2>1 DEF Inductive, OneValue, InUse
  <2>2. CASE backup[k] # 0
    BY <2>2 DEF Inductive, OneValue
  <2>3. QED
    BY <2>1, <2>2
<1>2. QED
  BY <1>1, Invariance, PTL

\* What the inventory has registered was written to secrets.yaml before.
THEOREM RegisteredWasSaved == Spec => []RegisteredSaved
<1>1. Inductive => RegisteredSaved
  BY DEF Inductive, OneValue, TypeOK, RegisteredSaved
<1>2. QED
  BY <1>1, Invariance, PTL

\* NeverRotated, of the values that check_credentials compares: all but the
\* Activepieces client's.
LockedNeverRotated ==
    [][/\ \A s \in Secret : \A k \in Key \cap Locked[s] :
            secret[s][k] # 0 /\ secret'[s][k] # secret[s][k] => purge /\ secret'[s][k] = 0
       /\ \A k \in Key :
            pc = "issue" /\ used'[k] # used[k] =>
                k \notin clients /\ \A s \in Secret : secret[s][k] = 0]_vars

\* What check_credentials compares is never replaced, and no credential that is
\* in use is generated anew, compared or not.
THEOREM ComparedNeverRotated == Spec => LockedNeverRotated
<1>1. ASSUME Inductive, Next,
             NEW s \in Secret, NEW k \in Key, k \in Locked[s],
             secret[s][k] # 0, secret'[s][k] # secret[s][k]
      PROVE  purge /\ secret'[s][k] = 0
  <2> USE DEF Inductive
  <2>1. CASE PutSecret
    <3>1. s = current /\ pc = "put"
      BY <1>1, <2>1, PutPuts
    <3>2. s \in present /\ k \in Keys[s]
      BY <1>1 DEF TypeOK
    <3>3. secret[s][k] = memory[k]
      BY <1>1, <3>1, <3>2 DEF Compared, Mismatch
    <3>4. QED
      BY <1>1, <2>1, <3>1, <3>2, <3>3, PutPuts
  <2>2. ASSUME NEW t \in Secret, PurgeSecret(t) PROVE purge /\ secret'[s][k] = 0
    BY <1>1, <2>2, PurgeClears
  <2>3. ~PutSecret /\ (\A t \in Secret : ~PurgeSecret(t)) => secret' = secret
    BY <1>1, SecretStays
  <2>4. QED
    BY <1>1, <2>1, <2>2, <2>3
<1>2. ASSUME Inductive, Next, NEW k \in Key, pc = "issue", used'[k] # used[k]
      PROVE  k \notin clients /\ \A s \in Secret : secret[s][k] = 0
  <2> USE DEF Inductive
  <2>1. PICK c \in Component : Issue(c)
    BY <1>2, UsedStays
  <2>2. k \in Generated
    BY <1>2, <2>1, IssueCompletes
  <2>3. QED
    BY <1>2, <2>1, <2>2, GeneratedUnused DEF Issue
<1> DEFINE Kept ==
        /\ \A s \in Secret : \A k \in Key \cap Locked[s] :
            secret[s][k] # 0 /\ secret'[s][k] # secret[s][k] => purge /\ secret'[s][k] = 0
        /\ \A k \in Key :
            pc = "issue" /\ used'[k] # used[k] =>
                k \notin clients /\ \A s \in Secret : secret[s][k] = 0
<1>3. Inductive /\ [Next]_vars => [Kept]_vars
  BY <1>1, <1>2
<1>4. QED
  BY <1>3, Invariance, PTL DEF Spec, LockedNeverRotated

\* What conflicts() accepted is never refused by the last check of credentials(),
\* lifecycle.py:642-652: nothing that an installation does in between, and no
\* failure, edit or lost file before, leads there.
THEOREM NeverWithheld == Spec => [](pc = "issue" => Withheld = {})
<1>1. Inductive => (pc = "issue" => Withheld = {})
  BY NothingWithheld DEF Inductive
<1>2. QED
  BY <1>1, Invariance, PTL

=============================================================================
