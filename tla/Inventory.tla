----------------------------- MODULE Inventory -----------------------------
(***************************************************************************)
(* The resource ledger of enkictl (cli/enkictl/lifecycle.py): how          *)
(* Installation.apply, register_generated_secret, delete and the loops of  *)
(* install and uninstall around them use inventory.yaml, one cluster       *)
(* request at a time, while the rest of the cluster changes in between and *)
(* the command may fail or be killed anywhere.                             *)
(*                                                                         *)
(* A command runs with the records of inventory.yaml in memory and writes  *)
(* them back (save) before its next cluster request, so one variable, file,*)
(* stands for both; what a command changes and has not saved yet is in     *)
(* `spared'.  An action is one cluster request with the local statements   *)
(* up to the next one.  Resources of a phase are taken in any order.       *)
(***************************************************************************)
EXTENDS Cluster

CONSTANTS
    Crd,            \* CustomResourceDefinitions
    Data,           \* Secrets and PersistentVolumeClaims
    CertSecret,     \* the Secrets that cert-manager writes for a Certificate
    NoResource,     \* no resource
    Meddled,        \* resources that others delete though they are not theirs
    MaxUid,         \* bound: nothing new starts once so many uids are used
    MaxFaults       \* bound on failed tool calls, timeouts and kills

ASSUME KindAssumption ==
    /\ Crd \subseteq Resource
    /\ Data \subseteq Resource
    /\ CertSecret \subseteq Data
    /\ Crd \cap Data = {}
    /\ NoResource \notin Resource

ASSUME BoundAssumption ==
    /\ Meddled \subseteq Resource
    /\ MaxUid \in Nat
    /\ MaxFaults \in Nat

VARIABLES
    file,       \* Resource -> its record in inventory.yaml
    pc,         \* what the running command does next
    purge,      \* --purge
    scope,      \* the resources the command is about
    todo,       \* those its present loop has not reached
    current,    \* the resource between two requests of one operation
    seen,       \* the uid delete() read
    spared,     \* records set to "unverified" and not saved yet
    faults      \* how many faults there have been

cliVars == <<pc, purge, scope, todo, current, seen, spared, faults>>
vars == <<clusterVars, file, cliVars>>

Status == {"absent", "pending", "applied", "deleted", "unverified"}

Record == [status : Status, uid : Nat]      \* uid 0: the record has no uid

NoRecord == [status |-> "absent", uid |-> 0]

Keep == Crd \cup Data

Step == {"idle", "verifyInstall", "apply", "call", "label", "record",
         "verifyRemoval", "delete", "deleteCall", "deleteWait"}

TypeOK ==
    /\ ClusterTypeOK
    /\ file \in [Resource -> Record]
    /\ pc \in Step
    /\ purge \in BOOLEAN
    /\ scope \subseteq Resource
    /\ todo \subseteq scope
    /\ current \in Resource \cup {NoResource}
    /\ current = NoResource <=> pc \notin {"call", "label", "record", "deleteCall", "deleteWait"}
    /\ seen \in Nat
    /\ spared \subseteq CertSecret
    /\ faults \in 0..MaxFaults

Init ==
    /\ ClusterInit
    /\ file = [r \in Resource |-> NoRecord]
    /\ pc = "idle"
    /\ purge = FALSE
    /\ scope = {}
    /\ todo = {}
    /\ current = NoResource
    /\ seen = 0
    /\ spared = {}
    /\ faults = 0

-----------------------------------------------------------------------------
(***************************************************************************)
(* Decisions                                                               *)
(***************************************************************************)

\* Mutant: ownership by recorded uid alone.
Owned_ByUid(r) == Live(r) /\ file[r].uid \in {0, object[r].uid}

\* check_owned: our label, and not another object than the one recorded.
Owned(r) ==
    /\ object[r].label = "mine"
    /\ file[r].uid \in {0, object[r].uid}

\* check_owned raises, or, for a CRD without our label, shared_crd may.
Conflict(r) == Live(r) /\ ~Owned(r)

\* A CRD without our label is shared, not taken over.
Shared(r) == r \in Crd /\ Live(r) /\ object[r].label # "mine"

\* Mutant: a deleted record is used again as it is.
Intended_StaysDeleted(record) ==
    IF record.status = "absent" THEN [status |-> "pending", uid |-> 0] ELSE record

\* Mutant: a deleted record is pending again but keeps its uid.
Intended_KeepsUid(record) ==
    IF record.status \in {"absent", "deleted"}
    THEN [record EXCEPT !.status = "pending"]
    ELSE record

\* intend: a record is made pending before the object can exist.
Intended(record) ==
    IF record.status \in {"absent", "deleted"}
    THEN [status |-> "pending", uid |-> 0]
    ELSE record

\* uninstall cannot tell whose this Secret is and leaves it alone.
Unestablished(r) ==
    /\ r \in CertSecret
    /\ Live(r)
    /\ file[r].uid = 0
    /\ object[r].label = "none"

\* Mutant: only what was recorded as applied is removed.
Removable_AppliedOnly(records) ==
    {r \in scope : /\ records[r].status = "applied"
                   /\ r \notin Keep \/ purge}

\* Mutant: the kinds to keep are removed like the rest.
Removable_NotKeeping(records) == {r \in scope : records[r].status # "unverified"}

\* What the deletion loops of uninstall reach, given the statuses in records.
Removable(records) ==
    {r \in scope : \/ r \notin Keep
                   \/ purge /\ records[r].status # "unverified"}

\* The process ends; what it had in memory is gone.
Reset ==
    /\ pc' = "idle"
    /\ purge' = FALSE
    /\ scope' = {}
    /\ todo' = {}
    /\ current' = NoResource
    /\ seen' = 0
    /\ spared' = {}

Stop == Reset /\ UNCHANGED faults

Goto(step) == pc' = step

\* Mutant: the operation on r ends without forgetting it.
Done_Remembers(r) ==
    /\ todo' = todo \ {r}
    /\ current' = r
    /\ seen' = 0

Done(r) ==
    /\ todo' = todo \ {r}
    /\ current' = NoResource
    /\ seen' = 0

-----------------------------------------------------------------------------
(***************************************************************************)
(* enkictl component install                                               *)
(***************************************************************************)

\* The operator starts an installation of some of the stack's resources.
StartInstall(S) ==
    /\ pc = "idle"
    /\ minted < MaxUid
    /\ Goto("verifyInstall")
    /\ scope' = S
    /\ todo' = S
    /\ UNCHANGED <<clusterVars, file, purge, current, seen, spared, faults>>

\* conflicts: nothing is applied before every live resource was looked at.
VerifyInstall(r) ==
    /\ pc = "verifyInstall"
    /\ r \in todo
    /\ Conflict(r) => Shared(r)
    /\ todo' = todo \ {r}
    /\ UNCHANGED <<clusterVars, file, pc, purge, scope, current, seen, spared, faults>>

RefuseInstall(r) ==
    /\ pc = "verifyInstall"
    /\ r \in todo
    /\ Conflict(r)
    /\ Stop
    /\ UNCHANGED <<clusterVars, file>>

\* install intends the generated Secrets before cert-manager can make them.
BeginApply ==
    /\ pc = "verifyInstall"
    /\ todo = {}
    /\ Goto("apply")
    /\ todo' = scope
    /\ file' = [r \in Resource |->
                  IF r \in scope \cap CertSecret THEN Intended(file[r]) ELSE file[r]]
    /\ UNCHANGED <<clusterVars, purge, scope, current, seen, spared, faults>>

\* Mutant: the intent is kept in memory only.
Apply_Unsaved(r) ==
    /\ pc = "apply"
    /\ r \in todo \ CertSecret
    /\ ~Conflict(r)
    /\ Goto("call")
    /\ current' = r
    /\ UNCHANGED <<clusterVars, file, purge, scope, todo, seen, spared, faults>>

\* apply: look, check, write the intent.
Apply(r) ==
    /\ pc = "apply"
    /\ r \in todo \ CertSecret
    /\ ~Conflict(r)
    /\ file' = [file EXCEPT ![r] = Intended(@)]
    /\ Goto("call")
    /\ current' = r
    /\ UNCHANGED <<clusterVars, purge, scope, todo, seen, spared, faults>>

\* apply of a CRD somebody else installed with the same schema.
ShareCrd(r) ==
    /\ pc = "apply"
    /\ r \in todo
    /\ Shared(r)
    /\ Done(r)
    /\ UNCHANGED <<clusterVars, file, pc, purge, scope, spared, faults>>

RefuseApply(r) ==
    /\ pc = "apply"
    /\ r \in todo \ CertSecret
    /\ Conflict(r)
    /\ Stop
    /\ UNCHANGED <<clusterVars, file>>

\* kubectl apply --server-side; a failure of the request is a Fault.
KubectlApply ==
    /\ pc = "call"
    /\ ApplyObject(current)
    /\ Goto("record")
    /\ UNCHANGED <<file, purge, scope, todo, current, seen, spared, faults>>

\* applied: the uid of what is there now is recorded.
RecordApplied ==
    /\ pc = "record"
    /\ Live(current)
    /\ file' = [file EXCEPT ![current] = [status |-> "applied", uid |-> object[current].uid]]
    /\ Goto("apply")
    /\ Done(current)
    /\ UNCHANGED <<clusterVars, purge, scope, spared, faults>>

\* "Applied resource disappeared", also before its label could be set.
RefuseRecord ==
    /\ pc \in {"label", "record"}
    /\ ~Live(current)
    /\ Stop
    /\ UNCHANGED <<clusterVars, file>>

\* register_generated_secret: the intent, then a look at the Secret.
RegisterSecret(r) ==
    /\ pc = "apply"
    /\ r \in todo \cap CertSecret
    /\ file' = [file EXCEPT ![r] = Intended(@)]
    /\ IF Live(r) /\ object[r].label # "other"
       THEN /\ Goto("label")
            /\ current' = r
            /\ UNCHANGED <<purge, scope, todo, seen, spared, faults>>
       ELSE Stop
    /\ UNCHANGED clusterVars

\* kubectl label --overwrite
LabelSecret ==
    /\ pc = "label"
    /\ Live(current)
    /\ ApplyObject(current)
    /\ Goto("record")
    /\ UNCHANGED <<file, purge, scope, todo, current, seen, spared, faults>>

FinishInstall ==
    /\ pc = "apply"
    /\ todo = {}
    /\ Stop
    /\ UNCHANGED <<clusterVars, file>>

-----------------------------------------------------------------------------
(***************************************************************************)
(* enkictl component uninstall [--purge]                                   *)
(***************************************************************************)

\* The command reaches only what has a record.
StartUninstall(S, p) ==
    /\ pc = "idle"
    /\ \A r \in S : file[r].status # "absent"
    /\ Goto("verifyRemoval")
    /\ purge' = p
    /\ scope' = S
    /\ todo' = S
    /\ UNCHANGED <<clusterVars, file, current, seen, spared, faults>>

\* Every live object is verified before the first one is deleted.
VerifyRemoval(r) ==
    /\ pc = "verifyRemoval"
    /\ r \in todo
    /\ Conflict(r) => Unestablished(r)
    /\ spared' = IF Unestablished(r) THEN spared \cup {r} ELSE spared
    /\ todo' = todo \ {r}
    /\ UNCHANGED <<clusterVars, file, pc, purge, scope, current, seen, faults>>

RefuseRemoval(r) ==
    /\ pc = "verifyRemoval"
    /\ r \in todo
    /\ Conflict(r) /\ ~Unestablished(r)
    /\ Stop
    /\ UNCHANGED <<clusterVars, file>>

BeginDelete ==
    /\ pc = "verifyRemoval"
    /\ todo = {}
    /\ file' = [r \in Resource |->
                  IF r \in spared THEN [file[r] EXCEPT !.status = "unverified"] ELSE file[r]]
    /\ Goto("delete")
    /\ todo' = Removable(file')
    /\ spared' = {}
    /\ UNCHANGED <<clusterVars, purge, scope, current, seen, faults>>

\* Secrets, volumes and CRDs go last.
Reached(r) == r \in todo /\ (r \in Keep => todo \subseteq Keep)

\* delete: nothing there.
DeleteAbsent(r) ==
    /\ pc = "delete"
    /\ Reached(r)
    /\ ~Live(r)
    /\ file' = [file EXCEPT ![r].status = "deleted"]
    /\ Done(r)
    /\ UNCHANGED <<clusterVars, pc, purge, scope, spared, faults>>

\* delete: look and check.
DeleteCheck(r) ==
    /\ pc = "delete"
    /\ Reached(r)
    /\ Live(r)
    /\ Owned(r)
    /\ Goto("deleteCall")
    /\ current' = r
    /\ seen' = object[r].uid
    /\ UNCHANGED <<clusterVars, file, purge, scope, todo, spared, faults>>

RefuseDelete(r) ==
    /\ pc = "delete"
    /\ Reached(r)
    /\ Conflict(r)
    /\ Stop
    /\ UNCHANGED <<clusterVars, file>>

\* A CRD that is absent, still has instances, or cannot be proved unused.
RetainCrd(r) ==
    /\ pc = "delete"
    /\ Reached(r)
    /\ r \in Crd
    /\ Done(r)
    /\ UNCHANGED <<clusterVars, file, pc, purge, scope, spared, faults>>

\* Mutant: DELETE by name.
DeleteCall_ByName ==
    /\ pc = "deleteCall"
    /\ DeleteObject(current)
    /\ Goto("deleteWait")
    /\ UNCHANGED <<file, purge, scope, todo, current, seen, spared, faults>>

\* The DELETE request carries the uid that was checked as a precondition.
DeleteCall ==
    /\ pc = "deleteCall"
    /\ IF object[current].uid = seen
       THEN /\ DeleteObject(current)
            /\ Goto("deleteWait")
            /\ UNCHANGED <<purge, scope, todo, current, seen, spared, faults>>
       ELSE Stop /\ UNCHANGED clusterVars
    /\ UNCHANGED file

\* Mutant: "deleted" is saved as soon as the request was accepted.
DeleteWait_Unfinished ==
    /\ pc = "deleteWait"
    /\ file' = [file EXCEPT ![current].status = "deleted"]
    /\ Goto("delete")
    /\ Done(current)
    /\ UNCHANGED <<clusterVars, purge, scope, spared, faults>>

\* kubectl wait --for=delete, then the status is saved; a timeout is a Fault.
DeleteWait ==
    /\ pc = "deleteWait"
    /\ ~Live(current)
    /\ file' = [file EXCEPT ![current].status = "deleted"]
    /\ Goto("delete")
    /\ Done(current)
    /\ UNCHANGED <<clusterVars, purge, scope, spared, faults>>

FinishUninstall ==
    /\ pc = "delete"
    /\ todo = {}
    /\ Stop
    /\ UNCHANGED <<clusterVars, file>>

-----------------------------------------------------------------------------
(***************************************************************************)
(* A tool that fails or times out, or a killed process: the next command   *)
(* starts from the file.                                                   *)
(***************************************************************************)
Fault ==
    /\ pc # "idle"
    /\ faults < MaxFaults
    /\ Reset
    /\ faults' = faults + 1
    /\ UNCHANGED <<clusterVars, file>>

\* Only enkictl writes its inventory; others change the cluster.
World(r) ==
    /\ \/ minted < MaxUid /\ \E label \in Label : Appear(r, label)
       \/ (r \in Meddled \/ object[r].terminating) /\ Vanish(r)
    /\ UNCHANGED <<file, cliVars>>

Install ==
    \/ \E S \in SUBSET Resource : S # {} /\ StartInstall(S)
    \/ \E r \in Resource :
        \/ VerifyInstall(r)
        \/ RefuseInstall(r)
        \/ Apply(r)
        \/ ShareCrd(r)
        \/ RefuseApply(r)
        \/ RegisterSecret(r)
    \/ BeginApply
    \/ KubectlApply
    \/ RecordApplied
    \/ RefuseRecord
    \/ LabelSecret
    \/ FinishInstall

Uninstall ==
    \/ \E S \in SUBSET Resource, p \in BOOLEAN : S # {} /\ StartUninstall(S, p)
    \/ \E r \in Resource :
        \/ VerifyRemoval(r)
        \/ RefuseRemoval(r)
        \/ DeleteAbsent(r)
        \/ DeleteCheck(r)
        \/ RefuseDelete(r)
        \/ RetainCrd(r)
    \/ BeginDelete
    \/ DeleteCall
    \/ DeleteWait
    \/ FinishUninstall

Next == Install \/ Uninstall \/ Fault \/ \E r \in Resource : World(r)

Spec == Init /\ [][Next]_vars

-----------------------------------------------------------------------------
(***************************************************************************)
(* Properties                                                              *)
(***************************************************************************)

(***************************************************************************)
(* Write-ahead: whenever an object that enkictl created is in the cluster, *)
(* inventory.yaml on disk has a record of it that is not marked deleted,   *)
(* whatever failed or was killed since (intend is saved before kubectl     *)
(* apply; "deleted" is saved after the object is gone).                    *)
(***************************************************************************)
Recorded ==
    \A r \in Resource :
        object[r].uid \in made => file[r].status \notin {"absent", "deleted"}

(***************************************************************************)
(* An uninstall that ends with success leaves none of the objects enkictl  *)
(* created in its scope, but for the kinds it keeps; with --purge no       *)
(* Secret and no volume either.                                            *)
(***************************************************************************)
RemovalComplete ==
    [][FinishUninstall =>
         \A r \in scope : object[r].uid \in made =>
            \/ r \in Crd
            \/ r \in Data /\ ~purge]_vars

(***************************************************************************)
(* Without --purge no step of enkictl takes a Secret, a volume or a CRD    *)
(* away, and no step of it ever takes away an object of which it has not   *)
(* read that the object carries its label: not a shared CRD, not a Secret  *)
(* whose owner it could not establish.                                     *)
(***************************************************************************)
Removed(r) ==
    /\ Live(r)
    /\ \/ object'[r].uid # object[r].uid
       \/ object'[r].terminating /\ ~object[r].terminating

RetainedSurvive ==
    [][Install \/ Uninstall =>
         \A r \in Resource : Removed(r) =>
            /\ r \in Keep => purge
            /\ object[r].label = "mine"]_vars

(***************************************************************************)
(* "rerun after correcting the cause" (main.py): with no command running,  *)
(* what an earlier command created is accepted as owned by the next one,   *)
(* unless others have deleted it meanwhile.                                *)
(***************************************************************************)
RerunAccepted ==
    pc = "idle" =>
        \A r \in Resource \ Meddled : object[r].uid \in made => Owned(r)

(***************************************************************************)
(* The inductive invariant.  Recorded is not inductive by itself: that     *)
(* kubectl apply keeps it rests on the intent still being in the file, that*)
(* saving "deleted" keeps it on the object being gone.  Refinement and     *)
(* removal also need what delete() read to stay true until its request     *)
(* (uids are not used twice), and what the removal loops have behind them. *)
(***************************************************************************)
UidsBounded == seen <= minted /\ \A r \in Resource : object[r].uid <= minted

CurrentInLoop == current # NoResource => current \in todo

Intending == pc \in {"call", "label", "record"} => file[current].status \notin {"absent", "deleted"}

CertSecretsMadeElsewhere ==
    /\ \A r \in CertSecret : object[r].uid \notin made
    /\ pc = "call" => current \notin CertSecret

RecordsFormed ==
    \A r \in Resource :
        /\ file[r].status = "absent" => file[r].uid = 0
        /\ file[r].status = "unverified" => r \in CertSecret

Removing ==
    pc \in {"verifyRemoval", "delete", "deleteCall", "deleteWait"} =>
        \A r \in scope : file[r].status # "absent"

CheckedStays ==
    pc = "deleteCall" =>
        /\ seen # 0
        /\ file[current].uid \in {0, seen}
        /\ object[current].uid = seen => object[current].label = "mine"

SparedUnestablished ==
    \A r \in spared : pc = "verifyRemoval" /\ r \in scope /\ file[r].uid = 0

Cleared ==
    pc \in {"delete", "deleteCall", "deleteWait"} =>
        \A r \in scope \ todo :
            (r \notin Keep \/ (purge /\ r \in Data)) => object[r].uid \notin made

KeptUnlessPurged ==
    pc \in {"delete", "deleteCall", "deleteWait"} =>
        \A r \in todo : r \in Keep => purge

Inductive ==
    /\ TypeOK
    /\ Recorded
    /\ UidsBounded
    /\ CurrentInLoop
    /\ Intending
    /\ CertSecretsMadeElsewhere
    /\ RecordsFormed
    /\ Removing
    /\ CheckedStays
    /\ SparedUnestablished
    /\ Cleared
    /\ KeptUnlessPurged

(***************************************************************************)
(* The inventory implements the ownership promises of Ownership.tla.  A    *)
(* record marked deleted is a claim given up, any other record a claim.    *)
(***************************************************************************)
LedgerState(status) ==
    CASE status = "absent"  -> "never"
      [] status = "deleted" -> "released"
      [] OTHER              -> "claimed"

Ledger == [r \in Resource |-> [state |-> LedgerState(file[r].status), uid |-> file[r].uid]]

Promise == INSTANCE Ownership WITH ledger <- Ledger

ImplementsOwnership == Promise!Spec

=============================================================================
