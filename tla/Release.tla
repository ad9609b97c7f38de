------------------------------ MODULE Release ------------------------------
(***************************************************************************)
(* One Helm release of a component and what it brings about                *)
(* (cli/enkictl/lifecycle.py: conflicts, helm_install, capture_generated,  *)
(* uninstall).  The ledger of Inventory deals with objects that enkictl    *)
(* applies itself, by uid; those of a chart are made and removed by Helm,  *)
(* which knows names only, and their children by controllers.  They come   *)
(* into the ledger afterwards, from the manifest and from the owners.      *)
(*                                                                         *)
(* Helm, the controllers and other clients are external: of them there is  *)
(* what the code has to reckon with.                                       *)
(***************************************************************************)
EXTENDS Naturals, FiniteSets

CONSTANTS
    Item,       \* the objects of the chart
    Rendered,   \* those that helm template shows before the upgrade
    Global,     \* those outside the namespace of the release
    Instanced,  \* those whose app.kubernetes.io/instance is the release
    Child,      \* what controllers make for them
    Parent,     \* Child -> the object it is owned by
    Stamped,    \* children labelled by their maker (claim templates)
    Data,       \* Secrets and volumes: kept without --purge
    Listed,     \* the kinds that capture_generated records
    Meddled,    \* objects of the chart that others touch too
    NoObject,
    MaxUid,     \* bound on the objects there ever are
    MaxFaults   \* bound on failures and kills

Object == Item \cup Child

ASSUME ReleaseAssumption ==
    /\ Rendered \subseteq Item /\ Global \subseteq Item /\ Instanced \subseteq Item
    /\ Item \cap Child = {}
    /\ Parent \in [Child -> Object]
    /\ Stamped \subseteq Child /\ Stamped \subseteq Listed
    /\ Data \subseteq Object
    /\ Data \subseteq Listed /\ Listed \subseteq Object /\ Listed \cap Global = {}
    /\ Meddled \subseteq Item
    /\ NoObject \notin Object
    /\ MaxUid \in Nat /\ MaxFaults \in Nat

VARIABLES
    object,     \* the cluster: Object -> uid, label, uid of its owner
    helm,       \* whose the Helm release of this name is
    release,    \* inventory.yaml: status of the release
    file,       \* inventory.yaml: Object -> status and uid
    pc,
    verb,       \* install or uninstall
    purge,      \* --purge
    todo,       \* what the present loop has not done
    seen,       \* Object -> the uid that capture_generated read
    current,    \* the object being captured
    minted,     \* how many objects there have been
    witness,    \* observability: what was ours when capture_generated looked
    looked,     \* observability: what was not ours, when it was verified
    faults

cluster == <<object, helm, minted>>
inventory == <<release, file>>
command == <<pc, verb, purge, todo, seen, current>>
history == <<witness, looked>>
vars == <<cluster, inventory, command, history, faults>>

Label == {"none", "mine", "theirs"}
Uid == 0..MaxUid

Step == {"idle", "conflicts", "register", "intend", "upgrade", "helm", "manifest",
         "capture", "label", "record", "verify", "detach", "children", "uninstall",
         "delete", "purge"}

Vacant == [uid |-> 0, label |-> "none", owner |-> 0]
NoRecord == [status |-> "absent", uid |-> 0]
Unread == [o \in Object |-> 0]

TypeOK ==
    /\ object \in [Object -> [uid : Uid, label : Label, owner : Uid]]
    /\ \A o, p \in Object : o # p /\ object[o].uid # 0 => object[p].uid # object[o].uid
    /\ helm \in {"none", "mine", "theirs"}
    /\ minted \in Uid
    /\ release \in {"absent", "pending", "applied", "deleted"}
    /\ file \in [Object -> [status : {"absent", "pending", "applied", "deleted"}, uid : Uid]]
    /\ \A o \in Object :
        /\ file[o].status = "absent" => file[o].uid = 0
        /\ file[o].status = "applied" => file[o].uid # 0
    /\ pc \in Step
    /\ verb \in {"install", "uninstall"} /\ purge \in BOOLEAN
    /\ todo \subseteq Object
    /\ seen \in [Object -> Uid]
    /\ current \in Object \cup {NoObject}
    /\ witness \subseteq Uid \ {0}
    /\ looked \subseteq Uid \ {0}
    /\ faults \in 0..MaxFaults

Rest ==
    /\ pc = "idle" /\ verb = "install" /\ purge = FALSE
    /\ todo = {} /\ seen = Unread /\ current = NoObject
    /\ witness = {} /\ looked = {}

Init ==
    /\ object = [o \in Object |-> Vacant]
    /\ helm = "none"
    /\ minted = 0
    /\ release = "absent"
    /\ file = [o \in Object |-> NoRecord]
    /\ Rest
    /\ faults = 0

-----------------------------------------------------------------------------
(***************************************************************************)
(* What the command decides                                                *)
(***************************************************************************)

Live(o) == object[o].uid # 0

Known == {file[o].uid : o \in Object} \ {0}

\* same_helm_release, same_generated_component: the uid may have changed.
Exempt(o) == o \in Stamped \cup (Instanced \ Global)

\* check_owned, of a live object.
Owned(o) ==
    /\ object[o].label = "mine"
    /\ file[o].uid \in {0, object[o].uid} \/ Exempt(o)

Labelled == {object[o].uid : o \in {p \in Object : object[p].label = "mine"}}

\* Some uids and those of what they own, at any depth: the least set that is
\* closed under ownership.
Owning(uids) ==
    LET Closed == {S \in SUBSET (1..MaxUid) :
            /\ uids \subseteq S
            /\ \A o \in Object : object[o].owner \in S => object[o].uid \in S}
    IN {u \in 1..MaxUid : \A S \in Closed : u \in S}

\* What capture_generated knows an owner of.
OwnedUids == Owning(Known \cup Labelled)

\* Mutant: labelled objects only.
Captured_Labelled ==
    {o \in Listed : Live(o) /\ object[o].uid \notin Known /\ object[o].label = "mine"}

Captured ==
    LET unknown == OwnedUids \ Known
    IN {o \in Listed : object[o].uid \in unknown}

\* "Cannot establish component ownership": our label, but no component's.
Unattributed ==
    {o \in Child \ Stamped :
        Live(o) /\ object[o].label = "mine" /\ object[o].uid \notin Known}

InstallAccepted ==
    /\ helm # "none" => release # "absent"
    /\ \A o \in Rendered : Live(o) => Owned(o)

\* The manifest carries our label, and every live object is ours.
RemovalAccepted ==
    /\ helm # "theirs"
    /\ helm = "mine" => \A o \in Item : Live(o) => Owned(o)
    /\ \A o \in Object : Live(o) /\ file[o].status # "absent" => Owned(o)

\* Observability: what is not ours.
Foreign == {object[o].uid : o \in {p \in Object : object[p].label = "theirs"}}

Recorded(C) == {o \in C : file[o].status # "absent"}

\* The process ends.
Quit ==
    /\ pc' = "idle" /\ verb' = "install" /\ purge' = FALSE
    /\ todo' = {} /\ seen' = Unread /\ current' = NoObject
    /\ witness' = {} /\ looked' = {}

-----------------------------------------------------------------------------
(***************************************************************************)
(* Install: conflicts, helm_install                                        *)
(***************************************************************************)

StartInstall ==
    /\ pc = "idle"
    /\ minted + Cardinality(Item) <= MaxUid       \* bound
    /\ pc' = "conflicts"
    /\ UNCHANGED <<cluster, inventory, history, faults, verb, purge, todo, seen, current>>

VerifyInstall ==
    /\ pc = "conflicts"
    /\ InstallAccepted
    /\ pc' = "register"
    /\ UNCHANGED <<cluster, inventory, history, faults, verb, purge, todo, seen, current>>

RefuseInstall ==
    /\ pc = "conflicts"
    /\ ~InstallAccepted
    /\ Quit
    /\ UNCHANGED <<cluster, inventory, faults>>

RegisterRelease ==
    /\ pc = "register"
    /\ release' = IF release = "absent" THEN "pending" ELSE release
    /\ todo' = Rendered
    /\ pc' = "intend"
    /\ UNCHANGED <<cluster, file, history, faults, verb, purge, seen, current>>

\* intend: a record there is stays, unless it is marked deleted.
Intended(o) ==
    IF file[o].status \in {"absent", "deleted"}
    THEN [status |-> "pending", uid |-> 0]
    ELSE file[o]

Intend(o) ==
    /\ pc = "intend"
    /\ o \in todo
    /\ file' = [file EXCEPT ![o] = Intended(o)]
    /\ todo' = todo \ {o}
    /\ UNCHANGED <<cluster, release, history, faults, pc, verb, purge, seen, current>>

\* Mutant: the manifest alone is recorded, after the upgrade.
HelmUpgrade_Early ==
    /\ pc = "intend"
    /\ \A o \in Item : Live(o) => object[o].label = "mine"
    /\ helm' = "mine"
    /\ todo' = Item
    /\ pc' = "helm"
    /\ UNCHANGED <<object, minted, inventory, history, faults, verb, purge, seen, current>>

\* helm upgrade --install: it adopts nothing it has not made, by annotation,
\* but takes a release of the name for the one it upgrades.
HelmUpgrade ==
    /\ pc = "intend" /\ todo = {}
    /\ \A o \in Item : Live(o) => object[o].label = "mine"
    /\ helm' = "mine"
    /\ todo' = Item
    /\ pc' = "helm"
    /\ UNCHANGED <<object, minted, inventory, history, faults, verb, purge, seen, current>>

HelmRefuse ==
    /\ pc = "intend" /\ todo = {}
    /\ \E o \in Item : Live(o) /\ object[o].label # "mine"
    /\ Quit
    /\ UNCHANGED <<cluster, inventory, faults>>

HelmApply(o) ==
    /\ pc = "helm"
    /\ o \in todo
    /\ IF Live(o)
       THEN UNCHANGED <<object, minted>>
       ELSE /\ minted < MaxUid
            /\ object' = [object EXCEPT ![o] = [uid |-> minted + 1, label |-> "mine", owner |-> 0]]
            /\ minted' = minted + 1
    /\ todo' = todo \ {o}
    /\ UNCHANGED <<helm, inventory, history, faults, pc, verb, purge, seen, current>>

\* helm get manifest
ReadManifest ==
    /\ pc = "helm" /\ todo = {}
    /\ todo' = Item
    /\ pc' = "manifest"
    /\ UNCHANGED <<cluster, inventory, history, faults, verb, purge, seen, current>>

\* Mutant: an object that is gone is recorded too.
CaptureItem_Unchecked(o) ==
    /\ pc = "manifest"
    /\ o \in todo
    /\ Live(o) => Owned(o)
    /\ file' = [file EXCEPT ![o] = [status |-> "applied", uid |-> object[o].uid]]
    /\ todo' = todo \ {o}
    /\ UNCHANGED <<cluster, release, history, faults, pc, verb, purge, seen, current>>

CaptureItem(o) ==
    /\ pc = "manifest"
    /\ o \in todo
    /\ Live(o) => Owned(o)
    /\ file' = IF Live(o)
               THEN [file EXCEPT ![o] = [status |-> "applied", uid |-> object[o].uid]]
               ELSE file
    /\ todo' = todo \ {o}
    /\ UNCHANGED <<cluster, release, history, faults, pc, verb, purge, seen, current>>

RefuseItem(o) ==
    /\ pc = "manifest"
    /\ o \in todo
    /\ Live(o) /\ ~Owned(o)
    /\ Quit
    /\ UNCHANGED <<cluster, inventory, faults>>

FinishRelease ==
    /\ pc = "manifest" /\ todo = {}
    /\ release' = "applied"
    /\ pc' = "capture"
    /\ UNCHANGED <<cluster, file, history, faults, verb, purge, todo, seen, current>>

-----------------------------------------------------------------------------
(***************************************************************************)
(* capture_generated, at the end of a phase and before a removal           *)
(***************************************************************************)

Capture ==
    /\ pc = "capture"
    /\ Unattributed = {}
    /\ todo' = Captured
    /\ seen' = [o \in Object |-> IF o \in todo' THEN object[o].uid ELSE 0]
    /\ witness' = Owning(Labelled)
    /\ pc' = "label"
    /\ UNCHANGED <<cluster, inventory, verb, purge, current, looked, faults>>

RefuseCapture ==
    /\ pc = "capture"
    /\ Unattributed # {}
    /\ Quit
    /\ UNCHANGED <<cluster, inventory, faults>>

\* kubectl label, by name.
LabelChild(o) ==
    /\ pc = "label"
    /\ o \in todo
    /\ Live(o)
    /\ object[o].label # "theirs" \/ object[o].uid # seen[o]
    /\ object' = [object EXCEPT ![o].label = "mine"]
    /\ current' = o
    /\ pc' = "record"
    /\ UNCHANGED <<helm, minted, inventory, history, faults, verb, purge, todo, seen>>

\* The object is gone, or was labelled by somebody else when it was read.
RefuseChild(o) ==
    /\ pc = "label"
    /\ o \in todo
    /\ ~Live(o) \/ (object[o].label = "theirs" /\ object[o].uid = seen[o])
    /\ Quit
    /\ UNCHANGED <<cluster, inventory, faults>>

\* Mutant: a record there is keeps its uid.
RecordChild_KeepsUid ==
    /\ pc = "record"
    /\ file' = [file EXCEPT ![current] =
                  [status |-> "applied", uid |-> IF @.uid # 0 THEN @.uid ELSE seen[current]]]
    /\ todo' = todo \ {current}
    /\ current' = NoObject
    /\ pc' = "label"
    /\ UNCHANGED <<cluster, release, history, faults, verb, purge, seen>>

RecordChild ==
    /\ pc = "record"
    /\ file' = [file EXCEPT ![current] = [status |-> "applied", uid |-> seen[current]]]
    /\ todo' = todo \ {current}
    /\ current' = NoObject
    /\ pc' = "label"
    /\ UNCHANGED <<cluster, release, history, faults, verb, purge, seen>>

FinishInstall ==
    /\ pc = "label" /\ todo = {} /\ verb = "install"
    /\ Quit
    /\ UNCHANGED <<cluster, inventory, faults>>

-----------------------------------------------------------------------------
(***************************************************************************)
(* Uninstall                                                               *)
(***************************************************************************)

StartUninstall(p) ==
    /\ pc = "idle"
    /\ release # "absent"
    /\ verb' = "uninstall"
    /\ purge' = p
    /\ pc' = "capture"
    /\ UNCHANGED <<cluster, inventory, history, faults, todo, seen, current>>

\* Mutant: the release is not looked at.
VerifyRemoval_Unread ==
    /\ pc = "label" /\ todo = {} /\ verb = "uninstall"
    /\ looked' = Foreign
    /\ todo' = Recorded(Data)
    /\ pc' = "detach"
    /\ UNCHANGED <<cluster, inventory, verb, purge, seen, current, witness, faults>>

VerifyRemoval ==
    /\ pc = "label" /\ todo = {} /\ verb = "uninstall"
    /\ RemovalAccepted
    /\ looked' = Foreign
    /\ todo' = Recorded(Data)
    /\ pc' = "detach"
    /\ UNCHANGED <<cluster, inventory, verb, purge, seen, current, witness, faults>>

RefuseRemoval ==
    /\ pc = "label" /\ todo = {} /\ verb = "uninstall"
    /\ ~RemovalAccepted
    /\ Quit
    /\ UNCHANGED <<cluster, inventory, faults>>

\* Mutant: owner references stay.
Detach_Skipped(o) ==
    /\ pc = "detach"
    /\ o \in todo
    /\ todo' = todo \ {o}
    /\ UNCHANGED <<cluster, inventory, history, faults, pc, verb, purge, seen, current>>

\* The owner references of Secrets and volumes are taken away.
Detach(o) ==
    /\ pc = "detach"
    /\ o \in todo
    /\ object' = [object EXCEPT ![o].owner = 0]
    /\ todo' = todo \ {o}
    /\ UNCHANGED <<helm, minted, inventory, history, faults, pc, verb, purge, seen, current>>

BeginRemoval ==
    /\ pc = "detach" /\ todo = {}
    /\ todo' = Recorded((Child \cap Listed) \ Data)
    /\ pc' = "children"
    /\ UNCHANGED <<cluster, inventory, history, faults, verb, purge, seen, current>>

\* delete(): the record's object, if it is (still) ours.
Delete(o) ==
    /\ o \in todo
    /\ Live(o) => Owned(o)
    /\ object' = [object EXCEPT ![o] = Vacant]
    /\ file' = [file EXCEPT ![o].status = "deleted"]
    /\ todo' = todo \ {o}
    /\ UNCHANGED <<helm, minted, release, history, faults, pc, verb, purge, seen, current>>

DeleteChild(o) == pc = "children" /\ Delete(o)

RefuseDelete(o) ==
    /\ pc \in {"children", "purge"}
    /\ o \in todo
    /\ Live(o) /\ ~Owned(o)
    /\ Quit
    /\ UNCHANGED <<cluster, inventory, faults>>

\* What helm uninstall deletes of the release there is: all of the manifest
\* that has no policy.  That of others shares some names with ours.
Uninstalled(names) ==
    IF helm = "mine" THEN names = Item \ Data ELSE names \subseteq Meddled

\* Mutant: the inventory is asked, not Helm.
HelmUninstall_Recorded ==
    /\ pc = "children" /\ todo = {}
    /\ helm # "none"
    /\ todo' \in SUBSET Item
    /\ IF release = "applied" THEN Uninstalled(todo') ELSE todo' = {}
    /\ pc' = "delete"
    /\ UNCHANGED <<cluster, inventory, history, faults, verb, purge, seen, current>>

\* helm list, helm uninstall: any release of the name, whoever installed it
\* since the command verified it.
HelmUninstall ==
    /\ pc = "children" /\ todo = {}
    /\ helm # "none"
    /\ todo' \in SUBSET Item /\ Uninstalled(todo')
    /\ pc' = "delete"
    /\ UNCHANGED <<cluster, inventory, history, faults, verb, purge, seen, current>>

HelmDelete(o) ==
    /\ pc = "delete"
    /\ o \in todo
    /\ object' = [object EXCEPT ![o] = Vacant]
    /\ todo' = todo \ {o}
    /\ UNCHANGED <<helm, minted, inventory, history, faults, pc, verb, purge, seen, current>>

\* The release is gone, or was not listed; its status is saved.
ReleaseDeleted ==
    /\ pc = "delete" \/ (pc = "children" /\ helm = "none")
    /\ todo = {}
    /\ helm' = "none"
    /\ release' = "deleted"
    /\ todo' = IF purge THEN Recorded(Data) ELSE {}
    /\ pc' = "purge"
    /\ UNCHANGED <<object, minted, file, history, faults, verb, purge, seen, current>>

PurgeData(o) == pc = "purge" /\ Delete(o)

FinishUninstall ==
    /\ pc = "purge" /\ todo = {}
    /\ Quit
    /\ UNCHANGED <<cluster, inventory, faults>>

-----------------------------------------------------------------------------
\* A tool fails or times out, or the process is killed.
Fault ==
    /\ pc # "idle"
    /\ faults < MaxFaults
    /\ faults' = faults + 1
    /\ Quit
    /\ UNCHANGED <<cluster, inventory>>

\* A controller makes a child of an object of ours.
Spawn(c) ==
    LET parent == object[Parent[c]] IN
    /\ ~Live(c) /\ parent.uid # 0 /\ parent.label # "theirs"
    /\ minted < MaxUid
    /\ object' = [object EXCEPT ![c] =
                    IF c \in Stamped
                    THEN [uid |-> minted + 1, label |-> "mine", owner |-> 0]
                    ELSE [uid |-> minted + 1, label |-> "none", owner |-> parent.uid]]
    /\ minted' = minted + 1
    /\ UNCHANGED <<helm, inventory, command, history, faults>>

\* Kubernetes collects what has lost its owner.
Collect(c) ==
    /\ object[c].owner # 0
    /\ \A o \in Object : object[o].uid # object[c].owner
    /\ object' = [object EXCEPT ![c] = Vacant]
    /\ UNCHANGED <<helm, minted, inventory, command, history, faults>>

\* Somebody deletes an object of the chart, or has made one of its name.
Disturb(o) ==
    /\ \/ Live(o) /\ object' = [object EXCEPT ![o] = Vacant] /\ UNCHANGED minted
       \/ /\ ~Live(o) /\ minted < MaxUid
          /\ object' = [object EXCEPT ![o] = [uid |-> minted + 1, label |-> "theirs", owner |-> 0]]
          /\ minted' = minted + 1
    /\ UNCHANGED <<helm, inventory, command, history, faults>>

\* Somebody installs a release of that name, or removes theirs; while the
\* command uninstalls it, the name is taken.
ReleaseTheirs ==
    /\ helm # "mine" /\ pc # "delete"
    /\ helm' = IF helm = "none" THEN "theirs" ELSE "none"
    /\ UNCHANGED <<object, minted, inventory, command, history, faults>>

Install ==
    \/ StartInstall
    \/ VerifyInstall
    \/ RefuseInstall
    \/ RegisterRelease
    \/ HelmUpgrade
    \/ HelmRefuse
    \/ ReadManifest
    \/ FinishRelease
    \/ FinishInstall
    \/ \E o \in Item : Intend(o) \/ HelmApply(o) \/ CaptureItem(o) \/ RefuseItem(o)

CaptureGenerated ==
    \/ Capture
    \/ RefuseCapture
    \/ RecordChild
    \/ \E o \in Object : LabelChild(o) \/ RefuseChild(o)

Uninstall ==
    \/ \E p \in BOOLEAN : StartUninstall(p)
    \/ VerifyRemoval
    \/ RefuseRemoval
    \/ BeginRemoval
    \/ HelmUninstall
    \/ ReleaseDeleted
    \/ FinishUninstall
    \/ \E o \in Object :
        \/ Detach(o)
        \/ DeleteChild(o)
        \/ RefuseDelete(o)
        \/ HelmDelete(o)
        \/ PurgeData(o)

World ==
    \/ \E c \in Child : Spawn(c) \/ Collect(c)
    \/ \E o \in Meddled : Disturb(o)
    \/ ReleaseTheirs

Next == Install \/ CaptureGenerated \/ Uninstall \/ Fault \/ World

Spec == Init /\ [][Next]_vars

-----------------------------------------------------------------------------
(***************************************************************************)
(* Properties                                                              *)
(***************************************************************************)

\* What helm template shows is in the inventory before Helm can make it, and
\* stays there while the object lives (helm_install: intend, then upgrade),
\* wherever the command was stopped.
WriteAhead ==
    \A o \in Rendered :
        object[o].label = "mine" => file[o].status \in {"pending", "applied"}

\* When capture_generated is done, every child that was there when it looked,
\* at any depth, passes the ownership check that follows: labelled, and
\* recorded with the uid it has now, though controllers have made it anew
\* since it was last recorded.
ChildrenAccepted ==
    pc = "label" /\ todo = {} =>
        \A c \in Child \cap Listed : object[c].uid \in witness => Owned(c)

\* Between commands no object stops the next capture_generated, so a stopped
\* command can be rerun (main.py:571-573, docs/cli.md:130-132).
CaptureAccepted == pc = "idle" => Unattributed = {}

\* Between commands the ownership check lets pass every object of the release
\* that Helm made: a component can be installed again after it was removed
\* (docs/cli.md:36).
ReinstallAccepted ==
    pc = "idle" /\ helm = "mine" =>
        \A o \in Item : object[o].label = "mine" => Owned(o)

Removing == pc \in {"children", "delete", "purge"}

\* Once an uninstall without --purge removes things, the Secrets and volumes
\* that were there when it looked for them stay: no owner takes them along,
\* at any depth, whatever controllers do meanwhile.
DataSurvives ==
    [][Removing /\ ~purge =>
        \A c \in Child \cap Data :
            object[c].uid \in witness => object'[c].uid = object[c].uid]_vars

\* An uninstall that ends has removed every object of the release but its
\* data, and with --purge the data that were there too, also those of a
\* release whose installation never ended.
RemovalComplete ==
    [][FinishUninstall =>
        \A o \in Object :
            object[o].label = "mine" /\ (o \in Item \/ object[o].uid \in witness) =>
                o \in Data /\ ~purge]_vars

\* What was not ours when the command verified it stays while it removes
\* things, unless others have put a release of theirs in the place of the name
\* since: helm uninstall goes by name and is not preceded by another look.
ForeignKept ==
    [][Removing /\ todo' # todo /\ ~(pc = "delete" /\ helm = "theirs") =>
        \A o \in Object : object[o].uid \in looked => object'[o].uid = object[o].uid]_vars

=============================================================================
