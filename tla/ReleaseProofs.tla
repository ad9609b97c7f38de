--------------------------- MODULE ReleaseProofs ---------------------------
(***************************************************************************)
(* Proofs about a Helm release and what it brings about, for any chart,    *)
(* any children at any depth, and any number of failures and commands.     *)
(***************************************************************************)
EXTENDS Release, TLAPS

Capturing == pc \in {"label", "record"}

\* A uid is used once: what is remembered of one object is no other's.
Uids ==
    /\ \A o \in Object : object[o].uid <= minted /\ file[o].uid <= minted /\ seen[o] <= minted
    /\ \A u \in witness \cup looked : u <= minted
    /\ \A o, p \in Object : o # p =>
        /\ file[o].uid # 0 => object[p].uid # file[o].uid
        /\ seen[o] # 0 => object[p].uid # seen[o]

\* What an object can look like.
Shapes ==
    /\ \A o \in Object : object[o].uid = 0 => object[o].label = "none" /\ object[o].owner = 0
    /\ \A o \in Item : object[o].owner = 0
    /\ \A c \in Child : object[c].label = "mine" => c \in Listed

\* What capture_generated read is what it is about to record.
Reading ==
    /\ Capturing => todo \subseteq Listed /\ \A o \in todo : seen[o] # 0
    /\ pc = "record" => current \in todo

\* What the ledger knows by uid carries the label.
Labels ==
    /\ \A o \in Object :
        object[o].uid # 0 /\ file[o].uid = object[o].uid => object[o].label = "mine"
    /\ pc = "record" /\ object[current].uid = seen[current] => object[current].label = "mine"

\* Rendered objects are intended before the upgrade, and what is labelled was
\* before.
Intending ==
    /\ WriteAhead
    /\ pc = "intend" => \A o \in Rendered \ todo : file[o].status \in {"pending", "applied"}
    /\ pc = "helm" => \A o \in Rendered : file[o].status \in {"pending", "applied"}
    /\ Capturing => \A o \in todo \cap Rendered : file[o].status \in {"pending", "applied"}

\* What was there when capture_generated looked is labelled and known by its
\* uid, or still to come.
Captures ==
    Capturing =>
        /\ \A c \in Child \cap Listed : object[c].uid \in witness =>
            IF c \in todo THEN seen[c] = object[c].uid
                          ELSE object[c].label = "mine" /\ file[c].uid = object[c].uid
        /\ \A o \in Item \cap Listed :
            object[o].label = "mine" => file[o].status # "absent" \/ o \in todo

\* Data of ours have no owner any more when the removal begins.
Detaching ==
    /\ pc = "detach" => \A c \in Child \cap Data :
        object[c].uid \in witness => object[c].owner = 0 \/ c \in todo
    /\ Removing => \A c \in Child \cap Data : object[c].uid \in witness => object[c].owner = 0

\* What each loop of a removal may touch.
Loops ==
    /\ pc = "children" => todo \subseteq Child \ Data
    /\ pc = "delete" => todo \subseteq Item /\ helm # "none"
    /\ pc = "delete" /\ helm = "mine" => todo \subseteq Item \ Data
    /\ pc = "purge" /\ ~purge => todo = {}
    /\ pc = "purge" => todo \subseteq Data

\* After the verification what was not ours is labelled so, and Helm's are ours.
Verified ==
    pc = "detach" \/ Removing =>
        /\ \A o \in Object : object[o].uid \in looked => object[o].label = "theirs"
        /\ helm = "mine" => \A o \in Item : object[o].uid \notin looked

\* Objects of the chart are there only while the release is, but for its data.
Helms ==
    /\ helm # "mine" => \A o \in Item \ Data : object[o].label # "mine"
    /\ Capturing /\ helm # "mine" => todo \cap (Item \ Data) = {}
    /\ pc = "helm" => helm = "mine"

\* What a removal has still to do, or has done.
Ours(o) == object[o].label = "mine" /\ (o \in Item \/ object[o].uid \in witness)

Clearing ==
    /\ pc = "detach" \/ Removing => \A o \in Listed : Ours(o) => file[o].status # "absent"
    /\ pc = "children" => \A c \in Child \ Data : Ours(c) => c \in todo
    /\ pc \in {"delete", "purge"} => \A c \in Child \ Data : ~Ours(c)
    /\ pc = "delete" => \A o \in Item \ Data : Ours(o) => o \in todo
    /\ pc = "purge" => \A o \in Item \ Data : ~Ours(o)
    /\ pc = "purge" /\ purge => \A o \in Data : Ours(o) => o \in todo

Inductive ==
    /\ TypeOK /\ Uids /\ Shapes /\ Reading /\ Labels /\ Intending /\ Captures
    /\ Detaching /\ Loops /\ Verified /\ Helms /\ Clearing
-----------------------------------------------------------------------------
(***************************************************************************)
(* What the steps that make or remove an object do to the cluster.         *)
(***************************************************************************)

Alone(o) == \A p \in Object : p # o => object'[p] = object[p]

Freed(o) ==
    /\ Alone(o) /\ minted' = minted
    /\ object'[o].uid = 0 /\ object'[o].label = "none" /\ object'[o].owner = 0

Made(o, label, owner) ==
    /\ ~Live(o) /\ minted < MaxUid /\ minted' = minted + 1
    /\ Alone(o)
    /\ object'[o].uid = minted + 1 /\ object'[o].label = label /\ object'[o].owner = owner

\* What these steps leave alone.
Frame == UNCHANGED <<helm, release, pc, verb, purge, seen, current, witness, looked, faults>>

Objects == [Object -> [uid : Uid, label : Label, owner : Uid]]

\* The two ways in which the cluster changes at one name.
LEMMA Free ==
    ASSUME TypeOK, NEW o \in Object,
           object' = [object EXCEPT ![o] = Vacant], minted' = minted
    PROVE  Freed(o) /\ object' \in Objects
<1>1. Vacant \in [uid : Uid, label : Label, owner : Uid]
  BY ReleaseAssumption DEF Vacant, Uid, Label
<1>2. object' \in Objects
  BY <1>1 DEF TypeOK, Objects
<1>3. Alone(o) /\ object'[o] = Vacant
  BY DEF TypeOK, Alone
<1>4. QED
  BY <1>2, <1>3 DEF Freed, Vacant

LEMMA Make ==
    ASSUME TypeOK, NEW o \in Object, NEW label \in Label, NEW owner \in Uid,
           ~Live(o), minted < MaxUid, minted' = minted + 1,
           object' = [object EXCEPT ![o] =
                        [uid |-> minted + 1, label |-> label, owner |-> owner]]
    PROVE  Made(o, label, owner) /\ object' \in Objects
<1>1. minted + 1 \in Uid
  BY ReleaseAssumption DEF TypeOK, Uid
<1>2. QED
  BY <1>1 DEF TypeOK, Made, Alone, Objects

\* What TypeOK and the assumption say, as the steps need it.
LEMMA Numbers ==
    ASSUME TypeOK
    PROVE  /\ minted \in Nat
           /\ \A o \in Object : object[o].uid \in Nat /\ file[o].uid \in Nat /\ seen[o] \in Nat
           /\ todo \subseteq Object
           /\ witness \subseteq Nat \ {0} /\ looked \subseteq Nat \ {0}
           /\ \A o, p \in Object : o # p /\ object[o].uid # 0 => object[p].uid # object[o].uid
BY ReleaseAssumption DEF TypeOK, Uid

LEMMA Constants ==
    /\ Item \subseteq Object /\ Child \subseteq Object /\ Item \cap Child = {}
    /\ Listed \subseteq Object /\ Data \subseteq Listed /\ Stamped \subseteq Listed
    /\ Rendered \subseteq Item
BY ReleaseAssumption DEF Object

\* One lemma for each step: what it does, without the functions it does it with.
LEMMA HelmApplyMakes ==
    ASSUME TypeOK, NEW o \in Item, HelmApply(o)
    PROVE  /\ object' \in Objects
           /\ UNCHANGED <<object, minted>> \/ Made(o, "mine", 0)
           /\ Frame /\ file' = file
           /\ pc = "helm" /\ o \in todo /\ todo' = todo \ {o}
<1>0. Frame /\ file' = file /\ pc = "helm" /\ o \in todo /\ todo' = todo \ {o}
  BY DEF HelmApply, Frame, inventory, history
<1>1. CASE Live(o)
  BY <1>0, <1>1 DEF HelmApply, TypeOK, Objects
<1>2. CASE ~Live(o)
  BY <1>0, <1>2, Make, ReleaseAssumption DEF HelmApply, Label, Uid, Object
<1>3. QED
  BY <1>0, <1>1, <1>2

LEMMA SpawnMakes ==
    ASSUME TypeOK, NEW c \in Child, Spawn(c)
    PROVE  /\ object' \in Objects
           /\ IF c \in Stamped THEN Made(c, "mine", 0)
                               ELSE Made(c, "none", object[Parent[c]].uid)
           /\ Frame /\ file' = file /\ todo' = todo
<1>0. Frame /\ file' = file /\ todo' = todo
  BY DEF Spawn, Frame, inventory, command, history
<1>1. Parent[c] \in Object /\ c \in Object
  BY ReleaseAssumption DEF Object
<1>2. object[Parent[c]].uid \in Uid
  BY <1>1 DEF TypeOK
<1>3. CASE c \in Stamped
  <2>1. object' = [object EXCEPT ![c] = [uid |-> minted + 1, label |-> "mine", owner |-> 0]]
    BY <1>3 DEF Spawn
  <2>2. 0 \in Uid /\ "mine" \in Label
    BY ReleaseAssumption DEF Uid, Label
  <2>3. QED
    BY <1>0, <1>1, <1>3, <2>1, <2>2, Make DEF Spawn
<1>4. CASE c \notin Stamped
  BY <1>0, <1>1, <1>2, <1>4, Make DEF Spawn, Label
<1>5. QED
  BY <1>0, <1>3, <1>4

LEMMA DisturbChanges ==
    ASSUME TypeOK, NEW o \in Meddled, Disturb(o)
    PROVE  /\ object' \in Objects
           /\ o \in Item
           /\ Freed(o) \/ Made(o, "theirs", 0)
           /\ Frame /\ file' = file /\ todo' = todo
<1>0. Frame /\ file' = file /\ todo' = todo
  BY DEF Disturb, Frame, inventory, command, history
<1>1. o \in Item /\ o \in Object
  BY ReleaseAssumption DEF Object
<1>2. CASE Live(o)
  BY <1>0, <1>1, <1>2, Free DEF Disturb
<1>3. CASE ~Live(o)
  BY <1>0, <1>1, <1>3, Make, ReleaseAssumption DEF Disturb, Label, Uid
<1>4. QED
  BY <1>0, <1>1, <1>2, <1>3

LEMMA DeleteFrees ==
    ASSUME TypeOK, NEW o \in Object, Delete(o)
    PROVE  /\ object' \in Objects
           /\ Freed(o)
           /\ Frame
           /\ Live(o) => object[o].label = "mine"
           /\ o \in todo /\ todo' = todo \ {o}
           /\ \A p \in Object : p # o => file'[p] = file[p]
           /\ file'[o].status = "deleted" /\ file'[o].uid = file[o].uid
<1>1. object' \in Objects /\ Freed(o)
  BY Free DEF Delete
<1>2. Frame /\ o \in todo /\ todo' = todo \ {o} /\ (Live(o) => object[o].label = "mine")
  BY DEF Delete, Owned, Frame, history
<1>3. file' = [file EXCEPT ![o].status = "deleted"]
  BY DEF Delete
<1>4. QED
  BY <1>1, <1>2, <1>3 DEF TypeOK

LEMMA HelmDeleteFrees ==
    ASSUME TypeOK, NEW o \in Object, HelmDelete(o)
    PROVE  /\ object' \in Objects
           /\ Freed(o)
           /\ Frame /\ file' = file
           /\ pc = "delete" /\ o \in todo /\ todo' = todo \ {o}
<1>1. object' \in Objects /\ Freed(o)
  BY Free DEF HelmDelete
<1>2. QED
  BY <1>1 DEF HelmDelete, Frame, inventory, history

LEMMA CollectFrees ==
    ASSUME TypeOK, NEW c \in Child, Collect(c)
    PROVE  /\ object' \in Objects
           /\ Freed(c)
           /\ object[c].owner # 0
           /\ Frame /\ file' = file /\ todo' = todo
<1>1. object' \in Objects /\ Freed(c)
  BY Free DEF Collect, Object
<1>2. QED
  BY <1>1 DEF Collect, Frame, inventory, command, history

LEMMA IntendRecords ==
    ASSUME TypeOK, NEW o \in Item, Intend(o)
    PROVE  /\ Frame /\ pc = "intend" /\ o \in todo /\ todo' = todo \ {o}
           /\ object' = object /\ minted' = minted
           /\ \A p \in Object : p # o => file'[p] = file[p]
           /\ file'[o] = Intended(o)
<1>1. o \in Object /\ file' = [file EXCEPT ![o] = Intended(o)]
  BY DEF Intend, Object
<1>2. QED
  BY <1>1 DEF Intend, TypeOK, Frame, cluster, history

LEMMA CaptureItemRecords ==
    ASSUME TypeOK, NEW o \in Item, CaptureItem(o)
    PROVE  /\ Frame /\ pc = "manifest" /\ o \in todo /\ todo' = todo \ {o}
           /\ object' = object /\ minted' = minted
           /\ \A p \in Object : p # o => file'[p] = file[p]
           /\ \/ file'[o] = file[o]
              \/ /\ Live(o) /\ object[o].label = "mine"
                 /\ file'[o] = [status |-> "applied", uid |-> object[o].uid]
<1>0. o \in Object
  BY DEF Object
<1>1. CASE Live(o)
  <2>1. file' = [file EXCEPT ![o] = [status |-> "applied", uid |-> object[o].uid]]
    BY <1>1 DEF CaptureItem
  <2>2. object[o].label = "mine"
    BY <1>1 DEF CaptureItem, Owned
  <2>3. QED
    BY <1>0, <1>1, <2>1, <2>2 DEF CaptureItem, TypeOK, Frame, cluster, history
<1>2. CASE ~Live(o)
  BY <1>2 DEF CaptureItem, Frame, cluster, history
<1>3. QED
  BY <1>1, <1>2

LEMMA LabelChildLabels ==
    ASSUME TypeOK, NEW o \in Object, LabelChild(o)
    PROVE  /\ pc = "label" /\ pc' = "record" /\ current' = o /\ o \in todo /\ Live(o)
           /\ Alone(o) /\ object' \in Objects
           /\ object'[o].uid = object[o].uid /\ object'[o].owner = object[o].owner
           /\ object'[o].label = "mine"
           /\ UNCHANGED <<helm, minted, release, file, witness, looked, faults,
                          verb, purge, todo, seen>>
<1>1. object' = [object EXCEPT ![o].label = "mine"]
  BY DEF LabelChild
<1>2. Alone(o) /\ object' \in Objects
  BY <1>1 DEF TypeOK, Alone, Objects, Label
<1>3. /\ object'[o].uid = object[o].uid /\ object'[o].owner = object[o].owner
      /\ object'[o].label = "mine"
  BY <1>1 DEF TypeOK
<1>4. QED
  BY <1>2, <1>3 DEF LabelChild, inventory, history

LEMMA RecordChildRecords ==
    ASSUME TypeOK, RecordChild, current \in Object
    PROVE  /\ pc = "record" /\ pc' = "label" /\ todo' = todo \ {current}
           /\ UNCHANGED <<object, helm, minted, release, witness, looked, faults,
                          verb, purge, seen>>
           /\ \A p \in Object : p # current => file'[p] = file[p]
           /\ file'[current] = [status |-> "applied", uid |-> seen[current]]
<1>1. file' = [file EXCEPT ![current] = [status |-> "applied", uid |-> seen[current]]]
  BY DEF RecordChild
<1>2. QED
  BY <1>1 DEF RecordChild, TypeOK, cluster, history

LEMMA DetachDetaches ==
    ASSUME TypeOK, NEW o \in Object, Detach(o)
    PROVE  /\ Frame /\ pc = "detach" /\ o \in todo /\ todo' = todo \ {o}
           /\ Alone(o) /\ object' \in Objects
           /\ object'[o].uid = object[o].uid /\ object'[o].label = object[o].label
           /\ object'[o].owner = 0
           /\ UNCHANGED <<file, minted>>
<1>1. object' = [object EXCEPT ![o].owner = 0]
  BY DEF Detach
<1>0. 0 \in Uid
  BY ReleaseAssumption DEF Uid
<1>2. Alone(o) /\ object' \in Objects
  BY <1>0, <1>1 DEF TypeOK, Alone, Objects
<1>3. /\ object'[o].uid = object[o].uid /\ object'[o].label = object[o].label
      /\ object'[o].owner = 0
  BY <1>1 DEF TypeOK
<1>4. QED
  BY <1>2, <1>3 DEF Detach, Frame, inventory, history

\* The steps that end the process.
Ends ==
    \/ RefuseInstall \/ HelmRefuse \/ FinishInstall \/ RefuseCapture \/ RefuseRemoval
    \/ FinishUninstall \/ Fault
    \/ \E o \in Item : RefuseItem(o)
    \/ \E o \in Object : RefuseChild(o) \/ RefuseDelete(o)

\* A process that ends leaves cluster and inventory as they are.
LEMMA EndsQuits ==
    ASSUME TypeOK, Ends
    PROVE  /\ UNCHANGED <<object, helm, minted, release, file>>
           /\ pc' = "idle" /\ todo' = {} /\ seen' = Unread /\ current' = NoObject
           /\ witness' = {} /\ looked' = {} /\ verb' = "install" /\ purge' = FALSE
           /\ faults' \in 0..MaxFaults
<1>1. Quit /\ UNCHANGED <<cluster, inventory>>
  BY DEF Ends, RefuseInstall, HelmRefuse, FinishInstall, RefuseCapture, RefuseRemoval,
         FinishUninstall, Fault, RefuseItem, RefuseChild, RefuseDelete
<1>2. faults' = faults \/ (faults < MaxFaults /\ faults' = faults + 1)
  BY DEF Ends, RefuseInstall, HelmRefuse, FinishInstall, RefuseCapture, RefuseRemoval,
         FinishUninstall, Fault, RefuseItem, RefuseChild, RefuseDelete
<1>3. faults' \in 0..MaxFaults
  BY <1>2, ReleaseAssumption DEF TypeOK
<1>4. QED
  BY <1>1, <1>3 DEF Quit, cluster, inventory

\* The steps that begin a phase of a command.
Installs ==
    StartInstall \/ VerifyInstall \/ RegisterRelease \/ HelmUpgrade \/ ReadManifest
    \/ FinishRelease

Removes ==
    (\E p \in BOOLEAN : StartUninstall(p)) \/ BeginRemoval \/ HelmUninstall \/ ReleaseDeleted

\* All steps.
LEMMA Steps ==
    ASSUME Next
    PROVE  \/ Ends \/ Installs \/ Removes
           \/ \E o \in Item : Intend(o) \/ HelmApply(o) \/ CaptureItem(o)
           \/ Capture \/ RecordChild \/ VerifyRemoval \/ ReleaseTheirs
           \/ \E o \in Object : LabelChild(o) \/ Detach(o) \/ DeleteChild(o)
                                \/ HelmDelete(o) \/ PurgeData(o)
           \/ \E c \in Child : Spawn(c) \/ Collect(c)
           \/ \E o \in Meddled : Disturb(o)
BY DEF Next, Install, CaptureGenerated, Uninstall, World, Ends, Installs, Removes

(***************************************************************************)
(* What owns what.                                                         *)
(***************************************************************************)

\* The definition of Owning: the least closed set, monotone in its seed.
LEMMA OwningLeast ==
    ASSUME NEW uids, NEW S \in SUBSET (1..MaxUid), uids \subseteq S,
           \A o \in Object : object[o].owner \in S => object[o].uid \in S
    PROVE  Owning(uids) \subseteq S
BY DEF Owning

LEMMA OwningMonotone ==
    ASSUME NEW a, NEW b, a \subseteq b
    PROVE  Owning(a) \subseteq Owning(b)
BY DEF Owning

\* Only what there is, or has been, can own and be owned.
LEMMA LabelledLive ==
    ASSUME TypeOK, Uids, Shapes
    PROVE  Labelled \subseteq 1..minted
BY Numbers DEF Labelled, Uids, Shapes

LEMMA OwningBounded ==
    ASSUME TypeOK, Uids, Shapes
    PROVE  Owning(Labelled) \subseteq 1..minted
<1>1. 1..minted \in SUBSET (1..MaxUid)
  BY ReleaseAssumption DEF TypeOK, Uid
<1>2. \A o \in Object : object[o].owner \in 1..minted => object[o].uid \in 1..minted
  BY Numbers DEF Uids, Shapes
<1>3. QED
  BY <1>1, <1>2, LabelledLive, OwningLeast

\* An object of the chart has no owner: capture_generated knows it by its label.
LEMMA ItemsByLabel ==
    ASSUME TypeOK, Uids, Shapes, NEW o \in Item, object[o].uid \in OwnedUids \ Known
    PROVE  object[o].label = "mine"
<1> DEFINE S == (Known \cup Labelled \cup {object[c].uid : c \in Child}) \ {0}
<1> USE Numbers
<1>1. Item \subseteq Object /\ Child \subseteq Object /\ Item \cap Child = {}
  BY ReleaseAssumption DEF Object
<1>2. S \in SUBSET (1..MaxUid)
  BY <1>1, ReleaseAssumption DEF TypeOK, Uid, Known, Labelled
<1>3. \A p \in Object : object[p].owner \in S => object[p].uid \in S
  BY <1>1 DEF Shapes, Object
<1>4. Known \cup Labelled \subseteq S
  BY LabelledLive DEF Known
<1>5. object[o].uid \in S
  <2> HIDE DEF S
  <2>1. Owning(Known \cup Labelled) \subseteq S
    BY <1>2, <1>3, <1>4, OwningLeast
  <2>2. QED
    BY <2>1 DEF OwnedUids
<1>6. object[o].uid \in Labelled
  BY <1>1, <1>5
<1>7. PICK p \in Object : object[p].label = "mine" /\ object[p].uid = object[o].uid
  BY <1>6 DEF Labelled
<1>8. p = o
  BY <1>1, <1>5, <1>7
<1>9. QED
  BY <1>7, <1>8

\* What capture_generated is about to capture, and what it has recorded already.
LEMMA CaptureReads ==
    ASSUME TypeOK, Uids, Shapes, Capture
    PROVE  /\ pc = "capture" /\ pc' = "label"
           /\ todo' = Captured /\ todo' \subseteq Listed
           /\ \A o \in Object : seen'[o] = IF o \in todo' THEN object[o].uid ELSE 0
           /\ seen' \in [Object -> Uid]
           /\ \A o \in todo' : object[o].uid # 0
           /\ witness' \subseteq 1..minted
           /\ \A o \in Listed : object[o].uid \in witness' =>
                o \in todo' \/ file[o].uid = object[o].uid
           /\ UNCHANGED <<object, helm, minted, release, file, verb, purge, current, looked,
                          faults>>
<1> USE Numbers
<1>1. Listed \subseteq Object
  BY ReleaseAssumption
<1>2. todo' = Captured /\ witness' = Owning(Labelled)
  BY DEF Capture
<1>3. seen' = [o \in Object |-> IF o \in todo' THEN object[o].uid ELSE 0]
  BY DEF Capture
<1>4. Captured \subseteq Listed /\ \A o \in Captured : object[o].uid # 0
  BY DEF Captured, OwnedUids, Owning
<1>5. seen' \in [Object -> Uid]
  BY <1>3, ReleaseAssumption DEF TypeOK, Uid
<1>6. ASSUME NEW o \in Listed, object[o].uid \in witness', o \notin todo'
      PROVE  file[o].uid = object[o].uid
  <2>1. object[o].uid \in OwnedUids
    BY <1>2, <1>6, OwningMonotone DEF OwnedUids
  <2>2. object[o].uid \in Known
    BY <1>2, <1>6, <2>1 DEF Captured
  <2>3. PICK p \in Object : file[p].uid = object[o].uid /\ file[p].uid # 0
    BY <2>2 DEF Known
  <2>4. p = o
    BY <1>1, <2>3 DEF Uids
  <2>5. QED
    BY <2>3, <2>4
<1>7. QED
  BY <1>2, <1>3, <1>4, <1>5, <1>6, OwningBounded DEF Capture, cluster, inventory

\* What carries the label is an owner that capture_generated knows.
LEMMA LabelledOwned ==
    ASSUME TypeOK, Uids, Shapes
    PROVE  Labelled \subseteq OwnedUids
<1>1. Labelled \subseteq 1..MaxUid
  BY LabelledLive, Numbers, ReleaseAssumption DEF TypeOK, Uid
<1>2. QED
  BY <1>1 DEF OwnedUids, Owning

\* What the ledger knows by uid was recorded at that object's own place.
LEMMA KnownHere ==
    ASSUME TypeOK, Uids, NEW o \in Object, object[o].uid \in Known
    PROVE  file[o].uid = object[o].uid /\ file[o].status # "absent"
<1>1. PICK p \in Object : file[p].uid = object[o].uid /\ file[p].uid # 0
  BY DEF Known
<1>2. p = o
  BY <1>1 DEF Uids
<1>3. QED
  BY <1>1, <1>2 DEF TypeOK

(***************************************************************************)
(* Types.                                                                  *)
(***************************************************************************)

Records == [Object -> [status : {"absent", "pending", "applied", "deleted"}, uid : Uid]]

ClusterTyped ==
    /\ object \in Objects /\ minted \in Uid
    /\ \A o, p \in Object : o # p /\ object[o].uid # 0 => object[p].uid # object[o].uid

LedgerTyped ==
    /\ file \in Records
    /\ \A o \in Object :
        /\ file[o].status = "absent" => file[o].uid = 0
        /\ file[o].status = "applied" => file[o].uid # 0

CommandTyped ==
    /\ todo \subseteq Object /\ seen \in [Object -> Uid] /\ current \in Object \cup {NoObject}
    /\ witness \subseteq Uid \ {0} /\ looked \subseteq Uid \ {0}

Typed ==
    /\ ClusterTyped /\ LedgerTyped /\ CommandTyped
    /\ helm \in {"none", "mine", "theirs"}
    /\ release \in {"absent", "pending", "applied", "deleted"}
    /\ pc \in Step /\ verb \in {"install", "uninstall"} /\ purge \in BOOLEAN
    /\ faults \in 0..MaxFaults

\* TypeOK in parts, before and after a step.
LEMMA Parts == (TypeOK <=> Typed) /\ (TypeOK' <=> Typed')
BY DEF TypeOK, Typed, ClusterTyped, LedgerTyped, CommandTyped, Objects, Records

\* The cluster after a step that makes, removes or edits one object.
LEMMA ClusterStep ==
    ASSUME TypeOK, Uids, NEW o \in Object, object' \in Objects,
           \/ Freed(o)
           \/ Alone(o) /\ minted < MaxUid /\ minted' = minted + 1 /\ object'[o].uid = minted + 1
           \/ Alone(o) /\ minted' = minted /\ object'[o].uid = object[o].uid
    PROVE  ClusterTyped'
<1> USE Numbers
<1>1. minted' \in Uid
  BY ReleaseAssumption DEF TypeOK, Uid, Freed
<1>2. ASSUME NEW p \in Object, NEW q \in Object, p # q, object'[p].uid # 0
      PROVE  object'[q].uid # object'[p].uid
  <2>1. CASE Freed(o)
    BY <1>2, <2>1 DEF Freed, Alone
  <2>2. CASE Alone(o) /\ minted' = minted + 1 /\ object'[o].uid = minted + 1
    BY <1>2, <2>2 DEF Alone, Uids
  <2>3. CASE Alone(o) /\ object'[o].uid = object[o].uid
    BY <1>2, <2>3 DEF Alone
  <2>4. QED
    BY <2>1, <2>2, <2>3
<1>3. QED
  BY <1>1, <1>2 DEF ClusterTyped

\* The ledger after a step that records one object.
LEMMA LedgerStep ==
    ASSUME TypeOK, NEW o \in Object,
           NEW status \in {"pending", "applied", "deleted"}, NEW uid \in Uid,
           status = "applied" => uid # 0,
           file' = [file EXCEPT ![o] = [status |-> status, uid |-> uid]]
    PROVE  LedgerTyped'
<1>1. file' \in Records
  BY DEF TypeOK, Records
<1>2. \A p \in Object : file'[p] = IF p = o THEN [status |-> status, uid |-> uid] ELSE file[p]
  BY DEF TypeOK
<1>3. QED
  BY <1>1, <1>2 DEF TypeOK, LedgerTyped

\* Types from those of the parts that a step changes.
LEMMA ReleaseStep ==
    ASSUME TypeOK, Frame, ClusterTyped', LedgerTyped', todo' \subseteq todo
    PROVE  TypeOK'
<1>1. CommandTyped'
  BY Parts DEF Typed, CommandTyped, Frame
<1>2. QED
  BY <1>1, Parts DEF Typed, Frame

LEMMA EndStep ==
    ASSUME TypeOK, Ends
    PROVE  TypeOK'
<1>1. CommandTyped'
  <2>1. Unread \in [Object -> Uid]
    BY ReleaseAssumption DEF Unread, Uid
  <2>2. QED
    BY <2>1, EndsQuits DEF CommandTyped
<1>2. ClusterTyped' /\ LedgerTyped'
  BY EndsQuits, Parts DEF Typed, ClusterTyped, LedgerTyped
<1>3. QED
  BY <1>1, <1>2, EndsQuits, Parts DEF Typed, Step

LEMMA DeleteStep ==
    ASSUME TypeOK, Uids, NEW o \in Object, Delete(o)
    PROVE  TypeOK'
<1>1. ClusterTyped'
  BY DeleteFrees, ClusterStep
<1>2. LedgerTyped'
  <2>1. file' = [file EXCEPT ![o].status = "deleted"]
    BY DEF Delete
  <2>2. file' \in Records
    BY <2>1 DEF TypeOK, Records
  <2>3. QED
    BY <2>2, DeleteFrees DEF TypeOK, LedgerTyped
<1>3. Frame /\ todo' \subseteq todo
  BY DeleteFrees
<1>4. QED
  BY <1>1, <1>2, <1>3, ReleaseStep

-----------------------------------------------------------------------------
\* A uid is given once: a new object has one that nothing remembers.
LEMMA UidsKept ==
    ASSUME TypeOK, Uids, Shapes, Reading, Next
    PROVE  Uids'
<1> USE Numbers, Constants DEF Uids
<1>1. CASE Ends
  BY <1>1, EndsQuits DEF Unread
<1>2. CASE Installs
  BY <1>2 DEF Installs, StartInstall, cluster, inventory, history, VerifyInstall,
     RegisterRelease, HelmUpgrade, Live, ReadManifest, FinishRelease
<1>3. CASE Removes
  BY <1>3 DEF Removes, StartUninstall, cluster, inventory, history, BeginRemoval, Recorded,
     HelmUninstall, Uninstalled, ReleaseDeleted
<1>4. ASSUME NEW o \in Item, Intend(o) PROVE Uids'
  BY <1>4, IntendRecords DEF Frame, Intended
<1>5. ASSUME NEW o \in Item, HelmApply(o) PROVE Uids'
  BY <1>5, HelmApplyMakes DEF Frame, Alone, Made
<1>6. ASSUME NEW o \in Item, CaptureItem(o) PROVE Uids'
  <2>0. file'[o] = file[o] \/ file'[o] = [status |-> "applied", uid |-> object[o].uid]
    BY <1>6, CaptureItemRecords
  <2>1. file'[o].uid \in {file[o].uid, object[o].uid}
    BY <2>0
  <2>2. /\ UNCHANGED <<object, minted, seen, witness, looked>>
        /\ \A p \in Object : p # o => file'[p] = file[p]
    BY <1>6, CaptureItemRecords DEF Frame
  <2>3. QED
    BY <2>1, <2>2
<1>7. CASE Capture
  BY <1>7, CaptureReads
<1>8. ASSUME NEW o \in Object, LabelChild(o) PROVE Uids'
  BY <1>8, LabelChildLabels DEF Alone, Live
<1>9. CASE RecordChild
  <2>1. current \in Object
    BY <1>9 DEF RecordChild, Reading, Capturing
  <2>2. QED
    BY <1>9, <2>1, RecordChildRecords
<1>10. CASE VerifyRemoval
  BY <1>10 DEF VerifyRemoval, cluster, inventory, Recorded, Foreign
<1>11. ASSUME NEW o \in Object, Detach(o) PROVE Uids'
  BY <1>11, DetachDetaches DEF Frame, Alone
<1>12. ASSUME NEW o \in Object, DeleteChild(o) PROVE Uids'
  <2>1. Delete(o) /\ pc = "children"
    BY <1>12 DEF DeleteChild
  <2>2. QED
    BY <2>1, DeleteFrees DEF Frame, Alone, Freed
<1>13. ASSUME NEW o \in Object, HelmDelete(o) PROVE Uids'
  BY <1>13, HelmDeleteFrees DEF Frame, Alone, Freed
<1>14. ASSUME NEW o \in Object, PurgeData(o) PROVE Uids'
  <2>1. Delete(o) /\ pc = "purge"
    BY <1>14 DEF PurgeData
  <2>2. QED
    BY <2>1, DeleteFrees DEF Frame, Alone, Freed
<1>15. ASSUME NEW c \in Child, Spawn(c) PROVE Uids'
  BY <1>15, SpawnMakes DEF Frame, Alone, Made
<1>16. ASSUME NEW c \in Child, Collect(c) PROVE Uids'
  BY <1>16, CollectFrees DEF Frame, Alone, Freed
<1>17. ASSUME NEW o \in Meddled, Disturb(o) PROVE Uids'
  BY <1>17, DisturbChanges DEF Frame, Alone, Made, Freed
<1>18. CASE ReleaseTheirs
  BY <1>18 DEF ReleaseTheirs, inventory, command, history
<1>19. QED
  BY <1>1, <1>2, <1>3, <1>4, <1>5, <1>6, <1>7, <1>8, <1>9, <1>10, <1>11, <1>12, <1>13, <1>14,
     <1>15, <1>16, <1>17, <1>18, Steps

\* What is gone has neither label nor owner, and a child with our label is of a
\* kind that capture_generated records.
LEMMA ShapesKept ==
    ASSUME TypeOK, Uids, Shapes, Reading, Next
    PROVE  Shapes'
<1> USE Numbers, Constants DEF Shapes
<1>1. CASE Ends
  BY <1>1, EndsQuits DEF Unread
<1>2. CASE Installs
  BY <1>2 DEF Installs, StartInstall, cluster, inventory, history, VerifyInstall,
     RegisterRelease, HelmUpgrade, Live, ReadManifest, FinishRelease
<1>3. CASE Removes
  BY <1>3 DEF Removes, StartUninstall, cluster, inventory, history, BeginRemoval, Recorded,
     HelmUninstall, Uninstalled, ReleaseDeleted
<1>4. ASSUME NEW o \in Item, Intend(o) PROVE Shapes'
  BY <1>4, IntendRecords DEF Frame, Intended
<1>5. ASSUME NEW o \in Item, HelmApply(o) PROVE Shapes'
  BY <1>5, HelmApplyMakes DEF Frame, Alone, Made
<1>6. ASSUME NEW o \in Item, CaptureItem(o) PROVE Shapes'
  BY <1>6, CaptureItemRecords DEF Frame, Live
<1>7. CASE Capture
  BY <1>7, CaptureReads
<1>8. ASSUME NEW o \in Object, LabelChild(o) PROVE Shapes'
  BY <1>8, LabelChildLabels DEF Alone, Live, Reading, Capturing
<1>9. CASE RecordChild
  <2>1. current \in Object
    BY <1>9 DEF RecordChild, Reading, Capturing
  <2>2. QED
    BY <1>9, <2>1, RecordChildRecords
<1>10. CASE VerifyRemoval
  BY <1>10 DEF VerifyRemoval, cluster, inventory, Recorded, Foreign
<1>11. ASSUME NEW o \in Object, Detach(o) PROVE Shapes'
  BY <1>11, DetachDetaches DEF Frame, Alone
<1>12. ASSUME NEW o \in Object, DeleteChild(o) PROVE Shapes'
  <2>1. Delete(o) /\ pc = "children"
    BY <1>12 DEF DeleteChild
  <2>2. QED
    BY <2>1, DeleteFrees DEF Frame, Alone, Freed
<1>13. ASSUME NEW o \in Object, HelmDelete(o) PROVE Shapes'
  BY <1>13, HelmDeleteFrees DEF Frame, Alone, Freed
<1>14. ASSUME NEW o \in Object, PurgeData(o) PROVE Shapes'
  <2>1. Delete(o) /\ pc = "purge"
    BY <1>14 DEF PurgeData
  <2>2. QED
    BY <2>1, DeleteFrees DEF Frame, Alone, Freed
<1>15. ASSUME NEW c \in Child, Spawn(c) PROVE Shapes'
  BY <1>15, SpawnMakes DEF Frame, Alone, Made
<1>16. ASSUME NEW c \in Child, Collect(c) PROVE Shapes'
  BY <1>16, CollectFrees DEF Frame, Alone, Freed
<1>17. ASSUME NEW o \in Meddled, Disturb(o) PROVE Shapes'
  BY <1>17, DisturbChanges DEF Frame, Alone, Made, Freed
<1>18. CASE ReleaseTheirs
  BY <1>18 DEF ReleaseTheirs, inventory, command, history
<1>19. QED
  BY <1>1, <1>2, <1>3, <1>4, <1>5, <1>6, <1>7, <1>8, <1>9, <1>10, <1>11, <1>12, <1>13, <1>14,
     <1>15, <1>16, <1>17, <1>18, Steps

\* The loop of capture_generated records what it read.
LEMMA ReadingKept ==
    ASSUME TypeOK, Uids, Shapes, Reading, Next
    PROVE  Reading'
<1> USE Numbers, Constants DEF Reading, Capturing
<1>1. CASE Ends
  BY <1>1, EndsQuits DEF Unread
<1>2. CASE Installs
  BY <1>2 DEF Installs, StartInstall, cluster, inventory, history, VerifyInstall,
     RegisterRelease, HelmUpgrade, Live, ReadManifest, FinishRelease
<1>3. CASE Removes
  BY <1>3 DEF Removes, StartUninstall, cluster, inventory, history, BeginRemoval, Recorded,
     HelmUninstall, Uninstalled, ReleaseDeleted
<1>4. ASSUME NEW o \in Item, Intend(o) PROVE Reading'
  BY <1>4, IntendRecords DEF Frame, Intended
<1>5. ASSUME NEW o \in Item, HelmApply(o) PROVE Reading'
  BY <1>5, HelmApplyMakes DEF Frame, Alone, Made
<1>6. ASSUME NEW o \in Item, CaptureItem(o) PROVE Reading'
  BY <1>6, CaptureItemRecords DEF Frame, Live
<1>7. CASE Capture
  BY <1>7, CaptureReads
<1>8. ASSUME NEW o \in Object, LabelChild(o) PROVE Reading'
  BY <1>8, LabelChildLabels DEF Alone, Live
<1>9. CASE RecordChild
  <2>1. current \in Object
    BY <1>9 DEF RecordChild, Reading, Capturing
  <2>2. QED
    BY <1>9, <2>1, RecordChildRecords
<1>10. CASE VerifyRemoval
  BY <1>10 DEF VerifyRemoval, cluster, inventory, Recorded, Foreign
<1>11. ASSUME NEW o \in Object, Detach(o) PROVE Reading'
  BY <1>11, DetachDetaches DEF Frame, Alone
<1>12. ASSUME NEW o \in Object, DeleteChild(o) PROVE Reading'
  <2>1. Delete(o) /\ pc = "children"
    BY <1>12 DEF DeleteChild
  <2>2. QED
    BY <2>1, DeleteFrees DEF Frame, Alone, Freed
<1>13. ASSUME NEW o \in Object, HelmDelete(o) PROVE Reading'
  BY <1>13, HelmDeleteFrees DEF Frame, Alone, Freed
<1>14. ASSUME NEW o \in Object, PurgeData(o) PROVE Reading'
  <2>1. Delete(o) /\ pc = "purge"
    BY <1>14 DEF PurgeData
  <2>2. QED
    BY <2>1, DeleteFrees DEF Frame, Alone, Freed
<1>15. ASSUME NEW c \in Child, Spawn(c) PROVE Reading'
  BY <1>15, SpawnMakes DEF Frame, Alone, Made
<1>16. ASSUME NEW c \in Child, Collect(c) PROVE Reading'
  BY <1>16, CollectFrees DEF Frame, Alone, Freed
<1>17. ASSUME NEW o \in Meddled, Disturb(o) PROVE Reading'
  BY <1>17, DisturbChanges DEF Frame, Alone, Made, Freed
<1>18. CASE ReleaseTheirs
  BY <1>18 DEF ReleaseTheirs, inventory, command, history
<1>19. QED
  BY <1>1, <1>2, <1>3, <1>4, <1>5, <1>6, <1>7, <1>8, <1>9, <1>10, <1>11, <1>12, <1>13, <1>14,
     <1>15, <1>16, <1>17, <1>18, Steps

\* An object is recorded by uid after it was labelled, or when it is ours.
LEMMA LabelsKept ==
    ASSUME TypeOK, Uids, Shapes, Labels, Reading, Next
    PROVE  Labels'
<1> USE Numbers, Constants DEF Labels, Reading, Capturing, Uids
<1>1. CASE Ends
  BY <1>1, EndsQuits DEF Unread
<1>2. CASE Installs
  BY <1>2 DEF Installs, StartInstall, cluster, inventory, history, VerifyInstall,
     RegisterRelease, HelmUpgrade, Live, ReadManifest, FinishRelease
<1>3. CASE Removes
  BY <1>3 DEF Removes, StartUninstall, cluster, inventory, history, BeginRemoval, Recorded,
     HelmUninstall, Uninstalled, ReleaseDeleted
<1>4. ASSUME NEW o \in Item, Intend(o) PROVE Labels'
  BY <1>4, IntendRecords DEF Frame, Intended
<1>5. ASSUME NEW o \in Item, HelmApply(o) PROVE Labels'
  BY <1>5, HelmApplyMakes DEF Frame, Alone, Made
<1>6. ASSUME NEW o \in Item, CaptureItem(o) PROVE Labels'
  BY <1>6, CaptureItemRecords DEF Frame, Live
<1>7. CASE Capture
  BY <1>7, CaptureReads
<1>8. ASSUME NEW o \in Object, LabelChild(o) PROVE Labels'
  BY <1>8, LabelChildLabels DEF Alone, Live
<1>9. CASE RecordChild
  <2>1. current \in Object
    BY <1>9 DEF RecordChild, Reading, Capturing
  <2>2. QED
    BY <1>9, <2>1, RecordChildRecords
<1>10. CASE VerifyRemoval
  BY <1>10 DEF VerifyRemoval, cluster, inventory, Recorded, Foreign
<1>11. ASSUME NEW o \in Object, Detach(o) PROVE Labels'
  BY <1>11, DetachDetaches DEF Frame, Alone
<1>12. ASSUME NEW o \in Object, DeleteChild(o) PROVE Labels'
  <2>1. Delete(o) /\ pc = "children"
    BY <1>12 DEF DeleteChild
  <2>2. QED
    BY <2>1, DeleteFrees DEF Frame, Alone, Freed
<1>13. ASSUME NEW o \in Object, HelmDelete(o) PROVE Labels'
  BY <1>13, HelmDeleteFrees DEF Frame, Alone, Freed
<1>14. ASSUME NEW o \in Object, PurgeData(o) PROVE Labels'
  <2>1. Delete(o) /\ pc = "purge"
    BY <1>14 DEF PurgeData
  <2>2. QED
    BY <2>1, DeleteFrees DEF Frame, Alone, Freed
<1>15. ASSUME NEW c \in Child, Spawn(c) PROVE Labels'
  BY <1>15, SpawnMakes DEF Frame, Alone, Made
<1>16. ASSUME NEW c \in Child, Collect(c) PROVE Labels'
  BY <1>16, CollectFrees DEF Frame, Alone, Freed
<1>17. ASSUME NEW o \in Meddled, Disturb(o) PROVE Labels'
  BY <1>17, DisturbChanges DEF Frame, Alone, Made, Freed
<1>18. CASE ReleaseTheirs
  BY <1>18 DEF ReleaseTheirs, inventory, command, history
<1>19. QED
  BY <1>1, <1>2, <1>3, <1>4, <1>5, <1>6, <1>7, <1>8, <1>9, <1>10, <1>11, <1>12, <1>13, <1>14,
     <1>15, <1>16, <1>17, <1>18, Steps

\* intend runs over all of Rendered before the upgrade, and capture_generated
\* labels no rendered object that was not intended.
LEMMA IntendingKept ==
    ASSUME TypeOK, Uids, Shapes, Reading, Intending, Next
    PROVE  Intending'
<1> USE Numbers, Constants DEF Intending, Capturing, WriteAhead
<1>1. CASE Ends
  BY <1>1, EndsQuits DEF Unread
<1>2. CASE Installs
  BY <1>2 DEF Installs, StartInstall, cluster, inventory, history, VerifyInstall,
     RegisterRelease, HelmUpgrade, Live, ReadManifest, FinishRelease
<1>3. CASE Removes
  BY <1>3 DEF Removes, StartUninstall, cluster, inventory, history, BeginRemoval, Recorded,
     HelmUninstall, Uninstalled, ReleaseDeleted
<1>4. ASSUME NEW o \in Item, Intend(o) PROVE Intending'
  <2>1. /\ Frame /\ pc = "intend" /\ todo' = todo \ {o} /\ object' = object
        /\ \A p \in Object : p # o => file'[p] = file[p]
    BY <1>4, IntendRecords
  <2>2. file'[o].status \in {"pending", "applied"}
    BY <1>4, IntendRecords DEF Intended, TypeOK
  <2>3. QED
    BY <2>1, <2>2 DEF Frame
<1>5. ASSUME NEW o \in Item, HelmApply(o) PROVE Intending'
  BY <1>5, HelmApplyMakes DEF Frame, Alone, Made
<1>6. ASSUME NEW o \in Item, CaptureItem(o) PROVE Intending'
  <2>1. /\ Frame /\ pc = "manifest" /\ todo' = todo \ {o} /\ object' = object
        /\ \A p \in Object : p # o => file'[p] = file[p]
    BY <1>6, CaptureItemRecords
  <2>2. file'[o].status \in {file[o].status, "applied"}
    <3>1. file'[o] = file[o] \/ file'[o] = [status |-> "applied", uid |-> object[o].uid]
      BY <1>6, CaptureItemRecords
    <3>2. QED
      BY <3>1
  <2>3. QED
    BY <2>1, <2>2 DEF Frame
<1>7. CASE Capture
  <2>1. ASSUME NEW o \in todo' \cap Rendered
        PROVE  file[o].status \in {"pending", "applied"}
    <3>1. o \in Item /\ object[o].uid \in OwnedUids \ Known
      BY <1>7, <2>1, CaptureReads DEF Captured
    <3>2. object[o].label = "mine"
      BY <3>1, ItemsByLabel
    <3>3. QED
      BY <2>1, <3>2
  <2>2. pc' = "label" /\ UNCHANGED <<object, file>>
    BY <1>7, CaptureReads
  <2>3. QED
    BY <2>1, <2>2
<1>8. ASSUME NEW o \in Object, LabelChild(o) PROVE Intending'
  BY <1>8, LabelChildLabels DEF Alone, Live
<1>9. CASE RecordChild
  <2>1. current \in Object
    BY <1>9 DEF RecordChild, Reading, Capturing
  <2>2. QED
    BY <1>9, <2>1, RecordChildRecords
<1>10. CASE VerifyRemoval
  BY <1>10 DEF VerifyRemoval, cluster, inventory, Recorded, Foreign
<1>11. ASSUME NEW o \in Object, Detach(o) PROVE Intending'
  BY <1>11, DetachDetaches DEF Frame, Alone
<1>12. ASSUME NEW o \in Object, DeleteChild(o) PROVE Intending'
  <2>1. Delete(o) /\ pc = "children"
    BY <1>12 DEF DeleteChild
  <2>2. QED
    BY <2>1, DeleteFrees DEF Frame, Alone, Freed
<1>13. ASSUME NEW o \in Object, HelmDelete(o) PROVE Intending'
  BY <1>13, HelmDeleteFrees DEF Frame, Alone, Freed
<1>14. ASSUME NEW o \in Object, PurgeData(o) PROVE Intending'
  <2>1. Delete(o) /\ pc = "purge"
    BY <1>14 DEF PurgeData
  <2>2. QED
    BY <2>1, DeleteFrees DEF Frame, Alone, Freed
<1>15. ASSUME NEW c \in Child, Spawn(c) PROVE Intending'
  BY <1>15, SpawnMakes DEF Frame, Alone, Made
<1>16. ASSUME NEW c \in Child, Collect(c) PROVE Intending'
  BY <1>16, CollectFrees DEF Frame, Alone, Freed
<1>17. ASSUME NEW o \in Meddled, Disturb(o) PROVE Intending'
  BY <1>17, DisturbChanges DEF Frame, Alone, Made, Freed
<1>18. CASE ReleaseTheirs
  BY <1>18 DEF ReleaseTheirs, inventory, command, history
<1>19. QED
  BY <1>1, <1>2, <1>3, <1>4, <1>5, <1>6, <1>7, <1>8, <1>9, <1>10, <1>11, <1>12, <1>13, <1>14,
     <1>15, <1>16, <1>17, <1>18, Steps

\* What is captured is exactly what the ledger did not know by uid, so what is
\* left out of the loop is known already.
LEMMA CapturesKept ==
    ASSUME TypeOK, Uids, Shapes, Reading, Labels, Captures, Next
    PROVE  Captures'
<1> USE Numbers, Constants DEF Captures, Capturing, Uids, Labels
<1>1. CASE Ends
  BY <1>1, EndsQuits DEF Unread
<1>2. CASE Installs
  BY <1>2 DEF Installs, StartInstall, cluster, inventory, history, VerifyInstall,
     RegisterRelease, HelmUpgrade, Live, ReadManifest, FinishRelease
<1>3. CASE Removes
  BY <1>3 DEF Removes, StartUninstall, cluster, inventory, history, BeginRemoval, Recorded,
     HelmUninstall, Uninstalled, ReleaseDeleted
<1>4. ASSUME NEW o \in Item, Intend(o) PROVE Captures'
  BY <1>4, IntendRecords DEF Frame, Intended
<1>5. ASSUME NEW o \in Item, HelmApply(o) PROVE Captures'
  BY <1>5, HelmApplyMakes DEF Frame, Alone, Made
<1>6. ASSUME NEW o \in Item, CaptureItem(o) PROVE Captures'
  BY <1>6, CaptureItemRecords DEF Frame
<1>7. CASE Capture
  <2>1. /\ UNCHANGED <<object, file>>
        /\ \A o \in Object : seen'[o] = IF o \in todo' THEN object[o].uid ELSE 0
        /\ witness' \subseteq 1..minted
        /\ todo' = Captured
    BY <1>7, CaptureReads
  <2>2. ASSUME NEW c \in Child \cap Listed, object[c].uid \in witness'
        PROVE  IF c \in todo' THEN seen'[c] = object[c].uid
                              ELSE object[c].label = "mine" /\ file[c].uid = object[c].uid
    <3>1. c \in todo' \/ file[c].uid = object[c].uid
      BY <1>7, <2>2, CaptureReads
    <3>2. object[c].uid # 0
      BY <2>1, <2>2
    <3>3. QED
      BY <2>1, <3>1, <3>2
  <2>3. ASSUME NEW o \in Item \cap Listed, object[o].label = "mine"
        PROVE  file[o].status # "absent" \/ o \in todo'
    <3>1. object[o].uid \in OwnedUids
      BY <2>3, LabelledOwned DEF Labelled
    <3>2. QED
      BY <2>1, <3>1, KnownHere DEF Captured
  <2>4. QED
    BY <2>1, <2>2, <2>3
<1>8. ASSUME NEW o \in Object, LabelChild(o) PROVE Captures'
  BY <1>8, LabelChildLabels DEF Alone, Live
<1>9. CASE RecordChild
  <2>1. current \in todo /\ current \in Object /\ seen[current] # 0
    BY <1>9 DEF RecordChild, Reading
  <2>2. /\ pc = "record" /\ todo' = todo \ {current}
        /\ UNCHANGED <<object, seen, witness>>
        /\ \A p \in Object : p # current => file'[p] = file[p]
        /\ file'[current].status = "applied" /\ file'[current].uid = seen[current]
    BY <1>9, <2>1, RecordChildRecords
  <2>3. QED
    BY <2>1, <2>2
<1>10. CASE VerifyRemoval
  BY <1>10 DEF VerifyRemoval, cluster, inventory, Recorded, Foreign
<1>11. ASSUME NEW o \in Object, Detach(o) PROVE Captures'
  BY <1>11, DetachDetaches DEF Frame, Alone
<1>12. ASSUME NEW o \in Object, DeleteChild(o) PROVE Captures'
  <2>1. Delete(o) /\ pc = "children"
    BY <1>12 DEF DeleteChild
  <2>2. QED
    BY <2>1, DeleteFrees DEF Frame, Alone, Freed
<1>13. ASSUME NEW o \in Object, HelmDelete(o) PROVE Captures'
  BY <1>13, HelmDeleteFrees DEF Frame, Alone, Freed
<1>14. ASSUME NEW o \in Object, PurgeData(o) PROVE Captures'
  <2>1. Delete(o) /\ pc = "purge"
    BY <1>14 DEF PurgeData
  <2>2. QED
    BY <2>1, DeleteFrees DEF Frame, Alone, Freed
<1>15. ASSUME NEW c \in Child, Spawn(c) PROVE Captures'
  BY <1>15, SpawnMakes DEF Frame, Alone, Made
<1>16. ASSUME NEW c \in Child, Collect(c) PROVE Captures'
  BY <1>16, CollectFrees DEF Frame, Alone, Freed
<1>17. ASSUME NEW o \in Meddled, Disturb(o) PROVE Captures'
  BY <1>17, DisturbChanges DEF Frame, Alone, Made, Freed
<1>18. CASE ReleaseTheirs
  BY <1>18 DEF ReleaseTheirs, inventory, command, history
<1>19. QED
  BY <1>1, <1>2, <1>3, <1>4, <1>5, <1>6, <1>7, <1>8, <1>9, <1>10, <1>11, <1>12, <1>13, <1>14,
     <1>15, <1>16, <1>17, <1>18, Steps

\* What a loop begins with, and that a loop only shrinks.
LEMMA LoopsKept ==
    ASSUME TypeOK, Uids, Shapes, Reading, Loops, Next
    PROVE  Loops'
<1> USE Numbers, Constants DEF Loops, Recorded
<1>1. CASE Ends
  BY <1>1, EndsQuits DEF Unread
<1>2. CASE Installs
  BY <1>2 DEF Installs, StartInstall, cluster, inventory, history, VerifyInstall,
     RegisterRelease, HelmUpgrade, Live, ReadManifest, FinishRelease
<1>3. CASE Removes
  BY <1>3 DEF Removes, StartUninstall, cluster, inventory, history, BeginRemoval, Recorded,
     HelmUninstall, Uninstalled, ReleaseDeleted
<1>4. ASSUME NEW o \in Item, Intend(o) PROVE Loops'
  BY <1>4, IntendRecords DEF Frame, Intended
<1>5. ASSUME NEW o \in Item, HelmApply(o) PROVE Loops'
  BY <1>5, HelmApplyMakes DEF Frame, Alone, Made
<1>6. ASSUME NEW o \in Item, CaptureItem(o) PROVE Loops'
  BY <1>6, CaptureItemRecords DEF Frame, Live
<1>7. CASE Capture
  BY <1>7, CaptureReads
<1>8. ASSUME NEW o \in Object, LabelChild(o) PROVE Loops'
  BY <1>8, LabelChildLabels DEF Alone, Live
<1>9. CASE RecordChild
  <2>1. current \in Object
    BY <1>9 DEF RecordChild, Reading, Capturing
  <2>2. QED
    BY <1>9, <2>1, RecordChildRecords
<1>10. CASE VerifyRemoval
  BY <1>10 DEF VerifyRemoval, cluster, inventory, Recorded, Foreign
<1>11. ASSUME NEW o \in Object, Detach(o) PROVE Loops'
  BY <1>11, DetachDetaches DEF Frame, Alone
<1>12. ASSUME NEW o \in Object, DeleteChild(o) PROVE Loops'
  <2>1. Delete(o) /\ pc = "children"
    BY <1>12 DEF DeleteChild
  <2>2. QED
    BY <2>1, DeleteFrees DEF Frame, Alone, Freed
<1>13. ASSUME NEW o \in Object, HelmDelete(o) PROVE Loops'
  BY <1>13, HelmDeleteFrees DEF Frame, Alone, Freed
<1>14. ASSUME NEW o \in Object, PurgeData(o) PROVE Loops'
  <2>1. Delete(o) /\ pc = "purge"
    BY <1>14 DEF PurgeData
  <2>2. QED
    BY <2>1, DeleteFrees DEF Frame, Alone, Freed
<1>15. ASSUME NEW c \in Child, Spawn(c) PROVE Loops'
  BY <1>15, SpawnMakes DEF Frame, Alone, Made
<1>16. ASSUME NEW c \in Child, Collect(c) PROVE Loops'
  BY <1>16, CollectFrees DEF Frame, Alone, Freed
<1>17. ASSUME NEW o \in Meddled, Disturb(o) PROVE Loops'
  BY <1>17, DisturbChanges DEF Frame, Alone, Made, Freed
<1>18. CASE ReleaseTheirs
  BY <1>18 DEF ReleaseTheirs, inventory, command, history
<1>19. QED
  BY <1>1, <1>2, <1>3, <1>4, <1>5, <1>6, <1>7, <1>8, <1>9, <1>10, <1>11, <1>12, <1>13, <1>14,
     <1>15, <1>16, <1>17, <1>18, Steps

\* The data that the verification finds are those captured, so the loop that
\* detaches reaches them.
LEMMA DetachingKept ==
    ASSUME TypeOK, Uids, Shapes, Reading, Captures, Loops, Detaching, Next
    PROVE  Detaching'
<1> USE Numbers, Constants DEF Detaching, Removing, Uids, Loops, Recorded
<1>1. CASE Ends
  BY <1>1, EndsQuits DEF Unread
<1>2. CASE Installs
  BY <1>2 DEF Installs, StartInstall, cluster, inventory, history, VerifyInstall,
     RegisterRelease, HelmUpgrade, Live, ReadManifest, FinishRelease
<1>3. CASE Removes
  BY <1>3 DEF Removes, StartUninstall, cluster, inventory, history, BeginRemoval, Recorded,
     HelmUninstall, Uninstalled, ReleaseDeleted
<1>4. ASSUME NEW o \in Item, Intend(o) PROVE Detaching'
  BY <1>4, IntendRecords DEF Frame, Intended
<1>5. ASSUME NEW o \in Item, HelmApply(o) PROVE Detaching'
  BY <1>5, HelmApplyMakes DEF Frame, Alone, Made
<1>6. ASSUME NEW o \in Item, CaptureItem(o) PROVE Detaching'
  BY <1>6, CaptureItemRecords DEF Frame, Live
<1>7. CASE Capture
  BY <1>7, CaptureReads
<1>8. ASSUME NEW o \in Object, LabelChild(o) PROVE Detaching'
  BY <1>8, LabelChildLabels DEF Alone, Live
<1>9. CASE RecordChild
  <2>1. current \in Object
    BY <1>9 DEF RecordChild, Reading, Capturing
  <2>2. QED
    BY <1>9, <2>1, RecordChildRecords
<1>10. CASE VerifyRemoval
  <2>1. /\ pc = "label" /\ todo = {} /\ pc' = "detach" /\ todo' = Recorded(Data)
        /\ UNCHANGED <<object, witness>>
    BY <1>10 DEF VerifyRemoval, cluster
  <2>2. ASSUME NEW c \in Child \cap Data, object[c].uid \in witness
        PROVE  c \in todo'
    <3>1. file[c].uid = object[c].uid /\ object[c].uid # 0
      BY <2>1, <2>2 DEF Captures, Capturing
    <3>2. file[c].status # "absent"
      BY <3>1 DEF TypeOK
    <3>3. QED
      BY <2>1, <3>2
  <2>3. QED
    BY <2>1, <2>2
<1>11. ASSUME NEW o \in Object, Detach(o) PROVE Detaching'
  BY <1>11, DetachDetaches DEF Frame, Alone
<1>12. ASSUME NEW o \in Object, DeleteChild(o) PROVE Detaching'
  <2>1. Delete(o) /\ pc = "children"
    BY <1>12 DEF DeleteChild
  <2>2. QED
    BY <2>1, DeleteFrees DEF Frame, Alone, Freed
<1>13. ASSUME NEW o \in Object, HelmDelete(o) PROVE Detaching'
  BY <1>13, HelmDeleteFrees DEF Frame, Alone, Freed
<1>14. ASSUME NEW o \in Object, PurgeData(o) PROVE Detaching'
  <2>1. Delete(o) /\ pc = "purge"
    BY <1>14 DEF PurgeData
  <2>2. QED
    BY <2>1, DeleteFrees DEF Frame, Alone, Freed
<1>15. ASSUME NEW c \in Child, Spawn(c) PROVE Detaching'
  BY <1>15, SpawnMakes DEF Frame, Alone, Made
<1>16. ASSUME NEW c \in Child, Collect(c) PROVE Detaching'
  BY <1>16, CollectFrees DEF Frame, Alone, Freed
<1>17. ASSUME NEW o \in Meddled, Disturb(o) PROVE Detaching'
  BY <1>17, DisturbChanges DEF Frame, Alone, Made, Freed
<1>18. CASE ReleaseTheirs
  BY <1>18 DEF ReleaseTheirs, inventory, command, history
<1>19. QED
  BY <1>1, <1>2, <1>3, <1>4, <1>5, <1>6, <1>7, <1>8, <1>9, <1>10, <1>11, <1>12, <1>13, <1>14,
     <1>15, <1>16, <1>17, <1>18, Steps

\* Helm leaves nothing of ours behind but the data: Clearing says so of the
\* release that it has just deleted.
LEMMA HelmsKept ==
    ASSUME TypeOK, Uids, Shapes, Reading, Loops, Helms, Clearing, Next
    PROVE  Helms'
<1> USE Numbers, Constants DEF Helms, Capturing, Loops
<1>1. CASE Ends
  BY <1>1, EndsQuits DEF Unread
<1>2. CASE Installs
  BY <1>2 DEF Installs, StartInstall, cluster, inventory, history, VerifyInstall,
     RegisterRelease, HelmUpgrade, Live, ReadManifest, FinishRelease
<1>3. CASE Removes
  BY <1>3 DEF Removes, StartUninstall, cluster, inventory, history, BeginRemoval, Recorded,
     HelmUninstall, Uninstalled, ReleaseDeleted, Clearing, Ours
<1>4. ASSUME NEW o \in Item, Intend(o) PROVE Helms'
  BY <1>4, IntendRecords DEF Frame, Intended
<1>5. ASSUME NEW o \in Item, HelmApply(o) PROVE Helms'
  BY <1>5, HelmApplyMakes DEF Frame, Alone, Made
<1>6. ASSUME NEW o \in Item, CaptureItem(o) PROVE Helms'
  BY <1>6, CaptureItemRecords DEF Frame, Live
<1>7. CASE Capture
  <2>1. pc' = "label" /\ todo' = Captured /\ UNCHANGED <<object, helm>>
    BY <1>7, CaptureReads
  <2>2. \A o \in todo' \cap Item : object[o].label = "mine"
    BY <2>1, ItemsByLabel DEF Captured
  <2>3. QED
    BY <2>1, <2>2
<1>8. ASSUME NEW o \in Object, LabelChild(o) PROVE Helms'
  BY <1>8, LabelChildLabels DEF Alone, Live
<1>9. CASE RecordChild
  <2>1. current \in Object
    BY <1>9 DEF RecordChild, Reading, Capturing
  <2>2. QED
    BY <1>9, <2>1, RecordChildRecords
<1>10. CASE VerifyRemoval
  BY <1>10 DEF VerifyRemoval, cluster, inventory, Recorded, Foreign
<1>11. ASSUME NEW o \in Object, Detach(o) PROVE Helms'
  BY <1>11, DetachDetaches DEF Frame, Alone
<1>12. ASSUME NEW o \in Object, DeleteChild(o) PROVE Helms'
  <2>1. Delete(o) /\ pc = "children"
    BY <1>12 DEF DeleteChild
  <2>2. QED
    BY <2>1, DeleteFrees DEF Frame, Alone, Freed
<1>13. ASSUME NEW o \in Object, HelmDelete(o) PROVE Helms'
  BY <1>13, HelmDeleteFrees DEF Frame, Alone, Freed
<1>14. ASSUME NEW o \in Object, PurgeData(o) PROVE Helms'
  <2>1. Delete(o) /\ pc = "purge"
    BY <1>14 DEF PurgeData
  <2>2. QED
    BY <2>1, DeleteFrees DEF Frame, Alone, Freed
<1>15. ASSUME NEW c \in Child, Spawn(c) PROVE Helms'
  BY <1>15, SpawnMakes DEF Frame, Alone, Made
<1>16. ASSUME NEW c \in Child, Collect(c) PROVE Helms'
  BY <1>16, CollectFrees DEF Frame, Alone, Freed
<1>17. ASSUME NEW o \in Meddled, Disturb(o) PROVE Helms'
  BY <1>17, DisturbChanges DEF Frame, Alone, Made, Freed
<1>18. CASE ReleaseTheirs
  BY <1>18 DEF ReleaseTheirs, inventory, command, history
<1>19. QED
  BY <1>1, <1>2, <1>3, <1>4, <1>5, <1>6, <1>7, <1>8, <1>9, <1>10, <1>11, <1>12, <1>13, <1>14,
     <1>15, <1>16, <1>17, <1>18, Steps

\* Each loop of the removal takes what is ours in its part of the cluster, and
\* nothing of ours is made meanwhile.
LEMMA ClearingKept ==
    ASSUME TypeOK, Uids, Shapes, Reading, Captures, Loops, Helms, Clearing, Next
    PROVE  Clearing'
<1> USE Numbers, Constants DEF Clearing, Removing, Ours, Uids, Recorded
<1>1. CASE Ends
  BY <1>1, EndsQuits DEF Unread
<1>2. CASE Installs
  BY <1>2 DEF Installs, StartInstall, cluster, inventory, history, VerifyInstall,
     RegisterRelease, HelmUpgrade, Live, ReadManifest, FinishRelease
<1>3. CASE Removes
  BY <1>3 DEF Removes, StartUninstall, cluster, inventory, history, BeginRemoval, Recorded,
     Shapes, HelmUninstall, Uninstalled, Helms, ReleaseDeleted
<1>4. ASSUME NEW o \in Item, Intend(o) PROVE Clearing'
  BY <1>4, IntendRecords DEF Frame, Intended
<1>5. ASSUME NEW o \in Item, HelmApply(o) PROVE Clearing'
  BY <1>5, HelmApplyMakes DEF Frame, Alone, Made
<1>6. ASSUME NEW o \in Item, CaptureItem(o) PROVE Clearing'
  BY <1>6, CaptureItemRecords DEF Frame, Live
<1>7. CASE Capture
  BY <1>7, CaptureReads
<1>8. ASSUME NEW o \in Object, LabelChild(o) PROVE Clearing'
  BY <1>8, LabelChildLabels DEF Alone, Live
<1>9. CASE RecordChild
  <2>1. current \in Object
    BY <1>9 DEF RecordChild, Reading, Capturing
  <2>2. QED
    BY <1>9, <2>1, RecordChildRecords
<1>10. CASE VerifyRemoval
  <2>1. /\ pc = "label" /\ todo = {} /\ pc' = "detach"
        /\ UNCHANGED <<object, file, witness>>
    BY <1>10 DEF VerifyRemoval, cluster, inventory
  <2>2. ASSUME NEW o \in Listed, Ours(o)
        PROVE  file[o].status # "absent"
    <3>1. CASE o \in Item
      BY <2>1, <2>2, <3>1 DEF Captures, Capturing
    <3>2. CASE o \in Child
      <4>1. file[o].uid = object[o].uid /\ object[o].uid # 0
        BY <2>1, <2>2, <3>2 DEF Captures, Capturing
      <4>2. QED
        BY <4>1 DEF TypeOK
    <3>3. QED
      BY <3>1, <3>2 DEF Object
  <2>3. QED
    BY <2>1, <2>2
<1>11. ASSUME NEW o \in Object, Detach(o) PROVE Clearing'
  BY <1>11, DetachDetaches DEF Frame, Alone
<1>12. ASSUME NEW o \in Object, DeleteChild(o) PROVE Clearing'
  <2>1. Delete(o) /\ pc = "children"
    BY <1>12 DEF DeleteChild
  <2>2. QED
    BY <2>1, DeleteFrees DEF Frame, Alone, Freed
<1>13. ASSUME NEW o \in Object, HelmDelete(o) PROVE Clearing'
  BY <1>13, HelmDeleteFrees DEF Frame, Alone, Freed
<1>14. ASSUME NEW o \in Object, PurgeData(o) PROVE Clearing'
  <2>1. Delete(o) /\ pc = "purge"
    BY <1>14 DEF PurgeData
  <2>2. QED
    BY <2>1, DeleteFrees DEF Frame, Alone, Freed
<1>15. ASSUME NEW c \in Child, Spawn(c) PROVE Clearing'
  BY <1>15, SpawnMakes DEF Frame, Alone, Made
<1>16. ASSUME NEW c \in Child, Collect(c) PROVE Clearing'
  BY <1>16, CollectFrees DEF Frame, Alone, Freed
<1>17. ASSUME NEW o \in Meddled, Disturb(o) PROVE Clearing'
  BY <1>17, DisturbChanges DEF Frame, Alone, Made, Freed
<1>18. CASE ReleaseTheirs
  BY <1>18 DEF ReleaseTheirs, inventory, command, history
<1>19. QED
  BY <1>1, <1>2, <1>3, <1>4, <1>5, <1>6, <1>7, <1>8, <1>9, <1>10, <1>11, <1>12, <1>13, <1>14,
     <1>15, <1>16, <1>17, <1>18, Steps

\* After the verification nothing foreign becomes ours or Helm's.
LEMMA VerifiedKept ==
    ASSUME TypeOK, Uids, Shapes, Loops, Verified, Reading, Next
    PROVE  Verified'
<1> USE Numbers, Constants DEF Verified, Removing, Uids, Loops
<1>1. CASE Ends
  BY <1>1, EndsQuits DEF Unread
<1>2. CASE Installs
  BY <1>2 DEF Installs, StartInstall, cluster, inventory, history, VerifyInstall,
     RegisterRelease, HelmUpgrade, Live, ReadManifest, FinishRelease
<1>3. CASE Removes
  BY <1>3 DEF Removes, StartUninstall, cluster, inventory, history, BeginRemoval, Recorded,
     HelmUninstall, Uninstalled, ReleaseDeleted
<1>4. ASSUME NEW o \in Item, Intend(o) PROVE Verified'
  BY <1>4, IntendRecords DEF Frame, Intended
<1>5. ASSUME NEW o \in Item, HelmApply(o) PROVE Verified'
  BY <1>5, HelmApplyMakes DEF Frame, Alone, Made
<1>6. ASSUME NEW o \in Item, CaptureItem(o) PROVE Verified'
  BY <1>6, CaptureItemRecords DEF Frame, Live
<1>7. CASE Capture
  BY <1>7, CaptureReads
<1>8. ASSUME NEW o \in Object, LabelChild(o) PROVE Verified'
  BY <1>8, LabelChildLabels DEF Alone, Live
<1>9. CASE RecordChild
  <2>1. current \in Object
    BY <1>9 DEF RecordChild, Reading, Capturing
  <2>2. QED
    BY <1>9, <2>1, RecordChildRecords
<1>10. CASE VerifyRemoval
  <2>1. RemovalAccepted /\ UNCHANGED <<object, helm>>
    BY <1>10 DEF VerifyRemoval, cluster
  <2>2. looked' = Foreign
    BY <1>10 DEF VerifyRemoval
  <2>4. ASSUME NEW o \in Object, object[o].uid \in looked'
        PROVE  object[o].label = "theirs" /\ object[o].uid # 0
    <3>1. PICK p \in Object : object[p].label = "theirs" /\ object[p].uid = object[o].uid
      BY <2>2, <2>4 DEF Foreign
    <3>2. object[p].uid # 0
      BY <3>1 DEF Shapes
    <3>3. QED
      BY <3>1, <3>2
  <2>5. helm = "mine" => \A o \in Item : object[o].uid \notin looked'
    BY <2>1, <2>4 DEF RemovalAccepted, Owned, Live
  <2>6. QED
    BY <2>1, <2>4, <2>5
<1>11. ASSUME NEW o \in Object, Detach(o) PROVE Verified'
  BY <1>11, DetachDetaches DEF Frame, Alone
<1>12. ASSUME NEW o \in Object, DeleteChild(o) PROVE Verified'
  <2>1. Delete(o) /\ pc = "children"
    BY <1>12 DEF DeleteChild
  <2>2. QED
    BY <2>1, DeleteFrees DEF Frame, Alone, Freed
<1>13. ASSUME NEW o \in Object, HelmDelete(o) PROVE Verified'
  BY <1>13, HelmDeleteFrees DEF Frame, Alone, Freed
<1>14. ASSUME NEW o \in Object, PurgeData(o) PROVE Verified'
  <2>1. Delete(o) /\ pc = "purge"
    BY <1>14 DEF PurgeData
  <2>2. QED
    BY <2>1, DeleteFrees DEF Frame, Alone, Freed
<1>15. ASSUME NEW c \in Child, Spawn(c) PROVE Verified'
  BY <1>15, SpawnMakes DEF Frame, Alone, Made
<1>16. ASSUME NEW c \in Child, Collect(c) PROVE Verified'
  BY <1>16, CollectFrees DEF Frame, Alone, Freed
<1>17. ASSUME NEW o \in Meddled, Disturb(o) PROVE Verified'
  BY <1>17, DisturbChanges DEF Frame, Alone, Made, Freed
<1>18. CASE ReleaseTheirs
  BY <1>18 DEF ReleaseTheirs, inventory, command, history
<1>19. QED
  BY <1>1, <1>2, <1>3, <1>4, <1>5, <1>6, <1>7, <1>8, <1>9, <1>10, <1>11, <1>12, <1>13, <1>14,
     <1>15, <1>16, <1>17, <1>18, Steps

\* Types, from the effects of each step.
LEMMA TypesKept ==
    ASSUME TypeOK, Uids, Shapes, Reading, Loops, Next
    PROVE  TypeOK'
<1> USE Numbers, Constants
<1>1. CASE Ends
  BY <1>1, EndStep
<1>2. CASE Installs
  BY <1>2 DEF Installs, StartInstall, cluster, inventory, history, TypeOK, Step, VerifyInstall,
     RegisterRelease, HelmUpgrade, Live, ReadManifest, FinishRelease
<1>3. CASE Removes
  BY <1>3 DEF Removes, StartUninstall, cluster, inventory, history, TypeOK, Step, BeginRemoval,
     Recorded, HelmUninstall, Uninstalled, ReleaseDeleted
<1>4. ASSUME NEW o \in Item, Intend(o) PROVE TypeOK'
  <2>1. o \in Object /\ Frame /\ todo' \subseteq todo /\ UNCHANGED <<object, minted>>
    BY <1>4, IntendRecords DEF Object
  <2>2. ClusterTyped'
    BY <2>1, Parts DEF Typed, ClusterTyped
  <2>3. LedgerTyped'
    <3>1. CASE file[o].status \in {"absent", "deleted"}
      <4>1. file' = [file EXCEPT ![o] = [status |-> "pending", uid |-> 0]]
        BY <1>4, <3>1 DEF Intend, Intended
      <4>2. 0 \in Uid
        BY ReleaseAssumption DEF Uid
      <4>3. QED
        BY <2>1, <4>1, <4>2, LedgerStep
    <3>2. CASE file[o].status \notin {"absent", "deleted"}
      <4>1. file' = file
        BY <1>4, <2>1, <3>2 DEF Intend, Intended, TypeOK
      <4>2. QED
        BY <4>1, Parts DEF Typed, LedgerTyped
    <3>3. QED
      BY <3>1, <3>2
  <2>4. QED
    BY <2>1, <2>2, <2>3, ReleaseStep
<1>5. ASSUME NEW o \in Item, HelmApply(o) PROVE TypeOK'
  <2>1. o \in Object /\ object' \in Objects /\ Frame /\ file' = file /\ todo' \subseteq todo
    BY <1>5, HelmApplyMakes, ReleaseAssumption DEF Object
  <2>2. ClusterTyped'
    BY <1>5, <2>1, HelmApplyMakes, ClusterStep, Parts DEF Typed, Made, ClusterTyped
  <2>3. LedgerTyped'
    BY <2>1, Parts DEF Typed, LedgerTyped
  <2>4. QED
    BY <2>1, <2>2, <2>3, ReleaseStep
<1>6. ASSUME NEW o \in Item, CaptureItem(o) PROVE TypeOK'
  <2>1. o \in Object /\ Frame /\ todo' \subseteq todo /\ UNCHANGED <<object, minted>>
    BY <1>6, CaptureItemRecords DEF Object
  <2>2. ClusterTyped'
    BY <2>1, Parts DEF Typed, ClusterTyped
  <2>3. LedgerTyped'
    <3>1. CASE Live(o)
      <4>1. file' = [file EXCEPT ![o] = [status |-> "applied", uid |-> object[o].uid]]
        BY <1>6, <3>1 DEF CaptureItem
      <4>2. object[o].uid \in Uid /\ object[o].uid # 0
        BY <2>1, <3>1 DEF Live, TypeOK
      <4>3. QED
        BY <2>1, <4>1, <4>2, LedgerStep
    <3>2. CASE ~Live(o)
      BY <1>6, <3>2, Parts DEF Typed, CaptureItem, LedgerTyped
    <3>3. QED
      BY <3>1, <3>2
  <2>4. QED
    BY <2>1, <2>2, <2>3, ReleaseStep
<1>7. CASE Capture
  <2>1. ClusterTyped' /\ LedgerTyped'
    BY <1>7, CaptureReads, Parts DEF Typed, ClusterTyped, LedgerTyped
  <2>2. CommandTyped'
    <3>1. witness' \subseteq Uid \ {0}
      BY <1>7, CaptureReads, ReleaseAssumption DEF TypeOK, Uid
    <3>2. QED
      BY <1>7, <3>1, CaptureReads, Parts, ReleaseAssumption DEF Typed, CommandTyped
  <2>3. QED
    BY <1>7, <2>1, <2>2, CaptureReads, Parts DEF Typed, Step
<1>8. ASSUME NEW o \in Object, LabelChild(o) PROVE TypeOK'
  <2>1. ClusterTyped'
    BY <1>8, LabelChildLabels, ClusterStep
  <2>2. LedgerTyped' /\ CommandTyped'
    BY <1>8, LabelChildLabels, Parts DEF Typed, LedgerTyped, CommandTyped
  <2>3. QED
    BY <1>8, <2>1, <2>2, LabelChildLabels, Parts DEF Typed, Step
<1>9. CASE RecordChild
  <2>1. current \in Object /\ seen[current] \in Uid /\ seen[current] # 0
    BY <1>9 DEF RecordChild, Reading, Capturing, TypeOK
  <2>2. ClusterTyped' /\ CommandTyped'
    BY <1>9, <2>1, RecordChildRecords, Parts DEF Typed, RecordChild, ClusterTyped, CommandTyped
  <2>3. LedgerTyped'
    BY <1>9, <2>1, LedgerStep DEF RecordChild
  <2>4. QED
    BY <1>9, <2>1, <2>2, <2>3, RecordChildRecords, Parts DEF Typed, Step
<1>10. CASE VerifyRemoval
  <2>1. looked' \subseteq Uid \ {0}
    BY <1>10 DEF VerifyRemoval, Foreign, TypeOK, Shapes
  <2>2. Recorded(Data) \subseteq Object
    BY ReleaseAssumption DEF Recorded
  <2>3. QED
    BY <1>10, <2>1, <2>2 DEF VerifyRemoval, TypeOK, Step, cluster, inventory
<1>11. ASSUME NEW o \in Object, Detach(o) PROVE TypeOK'
  <2>1. o \in Object /\ object' \in Objects /\ Frame /\ file' = file /\ todo' \subseteq todo
    BY <1>11, DetachDetaches, ReleaseAssumption DEF Object
  <2>2. ClusterTyped'
    BY <1>11, <2>1, DetachDetaches, ClusterStep, Parts DEF Typed, Frame
  <2>3. LedgerTyped'
    BY <2>1, Parts DEF Typed, LedgerTyped
  <2>4. QED
    BY <2>1, <2>2, <2>3, ReleaseStep
<1>12. ASSUME NEW o \in Object, DeleteChild(o) PROVE TypeOK'
  BY <1>12, DeleteStep DEF DeleteChild
<1>13. ASSUME NEW o \in Object, HelmDelete(o) PROVE TypeOK'
  <2>1. o \in Object /\ object' \in Objects /\ Frame /\ file' = file /\ todo' \subseteq todo
    BY <1>13, HelmDeleteFrees, ReleaseAssumption DEF Object
  <2>2. ClusterTyped'
    BY <1>13, <2>1, HelmDeleteFrees, ClusterStep, Parts DEF Typed, Freed
  <2>3. LedgerTyped'
    BY <2>1, Parts DEF Typed, LedgerTyped
  <2>4. QED
    BY <2>1, <2>2, <2>3, ReleaseStep
<1>14. ASSUME NEW o \in Object, PurgeData(o) PROVE TypeOK'
  BY <1>14, DeleteStep DEF PurgeData
<1>15. ASSUME NEW c \in Child, Spawn(c) PROVE TypeOK'
  <2>1. c \in Object /\ object' \in Objects /\ Frame /\ file' = file /\ todo' \subseteq todo
    BY <1>15, SpawnMakes, ReleaseAssumption DEF Object
  <2>2. ClusterTyped'
    BY <1>15, <2>1, SpawnMakes, ClusterStep, Parts DEF Typed, Made
  <2>3. LedgerTyped'
    BY <2>1, Parts DEF Typed, LedgerTyped
  <2>4. QED
    BY <2>1, <2>2, <2>3, ReleaseStep
<1>16. ASSUME NEW c \in Child, Collect(c) PROVE TypeOK'
  <2>1. c \in Object /\ object' \in Objects /\ Frame /\ file' = file /\ todo' \subseteq todo
    BY <1>16, CollectFrees, ReleaseAssumption DEF Object
  <2>2. ClusterTyped'
    BY <1>16, <2>1, CollectFrees, ClusterStep DEF Typed, Freed
  <2>3. LedgerTyped'
    BY <2>1, Parts DEF Typed, LedgerTyped
  <2>4. QED
    BY <2>1, <2>2, <2>3, ReleaseStep
<1>17. ASSUME NEW o \in Meddled, Disturb(o) PROVE TypeOK'
  <2>1. o \in Object /\ object' \in Objects /\ Frame /\ file' = file /\ todo' \subseteq todo
    BY <1>17, DisturbChanges, ReleaseAssumption DEF Object
  <2>2. ClusterTyped'
    BY <1>17, <2>1, DisturbChanges, ClusterStep, Parts DEF Typed, Made
  <2>3. LedgerTyped'
    BY <2>1, Parts DEF Typed, LedgerTyped
  <2>4. QED
    BY <2>1, <2>2, <2>3, ReleaseStep
<1>18. CASE ReleaseTheirs
  BY <1>18 DEF ReleaseTheirs, inventory, command, history, TypeOK, Step
<1>19. QED
  BY <1>1, <1>2, <1>3, <1>4, <1>5, <1>6, <1>7, <1>8, <1>9, <1>10, <1>11, <1>12, <1>13, <1>14,
     <1>15, <1>16, <1>17, <1>18, Steps

-----------------------------------------------------------------------------
(***************************************************************************)
(* The invariant, and the theorems.                                        *)
(***************************************************************************)

\* The invariant holds at first, and every step keeps it.
LEMMA InductiveInit ==
    ASSUME Init
    PROVE  Inductive
<1>1. \A o \in Object : object[o] = Vacant /\ file[o] = NoRecord /\ seen[o] = 0
  BY DEF Init, Rest, Unread
<1>2. TypeOK
  <2>1. 0 \in Uid /\ 0 \in 0..MaxFaults
    BY ReleaseAssumption DEF Uid
  <2>2. object \in Objects /\ file \in Records /\ seen \in [Object -> Uid]
    BY <2>1 DEF Init, Rest, Vacant, NoRecord, Unread, Objects, Records, Label
  <2>3. looked \subseteq Uid \ {0}
    BY DEF Init, Rest
  <2>4. ClusterTyped /\ LedgerTyped /\ CommandTyped
    BY <1>1, <2>1, <2>2, <2>3
       DEF ClusterTyped, LedgerTyped, CommandTyped, Init, Rest, Vacant, NoRecord
  <2>5. QED
    BY <2>1, <2>4, Parts DEF Typed, Init, Rest, Step
<1>3. Uids /\ Shapes /\ Labels
  BY <1>1, ReleaseAssumption
     DEF Init, Rest, Vacant, NoRecord, Uids, Shapes, Labels, Object
<1>4. Reading /\ Captures /\ Detaching /\ Loops /\ Verified
  BY DEF Init, Rest, Reading, Captures, Capturing, Detaching, Loops, Verified, Removing
<1>5. Intending /\ Helms /\ Clearing
  BY <1>1, ReleaseAssumption
     DEF Init, Rest, Vacant, Intending, WriteAhead, Capturing, Helms, Clearing, Removing,
         Ours, Object
<1>6. QED
  BY <1>2, <1>3, <1>4, <1>5 DEF Inductive

LEMMA StutterKeeps ==
    ASSUME Inductive, UNCHANGED vars
    PROVE  Inductive'
<1>0. /\ UNCHANGED <<object, helm, minted, release, file, pc, verb, purge, todo>>
      /\ UNCHANGED <<seen, current, witness, looked, faults>>
  BY DEF vars, cluster, inventory, command, history
<1>1. TypeOK' /\ Uids' /\ Shapes' /\ Labels'
  BY <1>0 DEF Inductive, TypeOK, Uids, Shapes, Labels
<1>2. Reading' /\ Captures' /\ Detaching' /\ Loops' /\ Verified'
  BY <1>0 DEF Inductive, Reading, Captures, Capturing, Detaching, Loops, Verified, Removing
<1>3. Intending' /\ Helms' /\ Clearing'
  BY <1>0 DEF Inductive, Intending, WriteAhead, Capturing, Helms, Clearing, Removing, Ours
<1>4. QED
  BY <1>1, <1>2, <1>3 DEF Inductive

LEMMA InductiveStep ==
    ASSUME Inductive, [Next]_vars
    PROVE  Inductive'
<1> USE DEF Inductive
<1>1. CASE Next
  BY <1>1, TypesKept, UidsKept, ShapesKept, ReadingKept, LabelsKept, IntendingKept,
     CapturesKept, DetachingKept, LoopsKept, VerifiedKept, HelmsKept, ClearingKept
<1>2. CASE UNCHANGED vars
  BY <1>2, StutterKeeps
<1>3. QED
  BY <1>1, <1>2

LEMMA InductiveHolds == Spec => []Inductive
<1>1. Init => Inductive
  BY InductiveInit
<1>2. Inductive /\ [Next]_vars => Inductive'
  BY InductiveStep
<1>3. QED
  BY <1>1, <1>2, PTL DEF Spec

\* Every variable keeps its type, no two objects have one uid, and a record
\* has a uid when it is applied and none when there is no record.
THEOREM ReleaseTyped == Spec => []TypeOK
<1>1. Inductive => TypeOK
  BY DEF Inductive
<1>2. QED
  BY <1>1, InductiveHolds, PTL

\* What helm template shows is in inventory.yaml before Helm can make it, and
\* for as long as it lives, wherever helm_install was stopped.
THEOREM RenderedIsIntended == Spec => []WriteAhead
<1>1. Inductive => WriteAhead
  BY DEF Inductive, Intending
<1>2. QED
  BY <1>1, InductiveHolds, PTL

\* After capture_generated every child that it found, at any depth, passes the
\* ownership check of the uninstall that follows.
THEOREM CapturedIsAccepted == Spec => []ChildrenAccepted
<1>1. Inductive => ChildrenAccepted
  <2> SUFFICES ASSUME Inductive, pc = "label", todo = {},
                      NEW c \in Child \cap Listed, object[c].uid \in witness
               PROVE  Owned(c)
    BY DEF ChildrenAccepted
  <2>1. object[c].label = "mine" /\ file[c].uid = object[c].uid
    BY DEF Inductive, Captures, Capturing
  <2>2. QED
    BY <2>1 DEF Owned
<1>2. QED
  BY <1>1, InductiveHolds, PTL

\* The steps that change an object.
LEMMA ObjectsStay ==
    ASSUME TypeOK, Next
    PROVE  \/ UNCHANGED object
           \/ \E o \in Item : HelmApply(o)
           \/ \E o \in Object : LabelChild(o) \/ Detach(o) \/ DeleteChild(o)
                                \/ HelmDelete(o) \/ PurgeData(o)
           \/ \E c \in Child : Spawn(c) \/ Collect(c)
           \/ \E o \in Meddled : Disturb(o)
<1>1. CASE Ends
  BY <1>1, EndsQuits
<1>2. CASE Installs \/ Removes
  BY <1>2 DEF Installs, StartInstall, VerifyInstall, RegisterRelease, HelmUpgrade,
     ReadManifest, FinishRelease, Removes, StartUninstall, BeginRemoval, HelmUninstall,
     ReleaseDeleted, cluster
<1>3. CASE Capture \/ RecordChild \/ VerifyRemoval \/ ReleaseTheirs
  BY <1>3 DEF Capture, RecordChild, VerifyRemoval, ReleaseTheirs, cluster
<1>4. CASE \E o \in Item : Intend(o) \/ CaptureItem(o)
  BY <1>4 DEF Intend, CaptureItem, cluster
<1>5. QED
  BY <1>1, <1>2, <1>3, <1>4, Steps

\* An uninstall without --purge keeps the Secrets and volumes that it found:
\* no loop of it takes them and no owner takes them along.
THEOREM DataIsKept == Spec => DataSurvives
<1>1. ASSUME Inductive, [Next]_vars, Removing, ~purge,
             NEW c \in Child \cap Data, object[c].uid \in witness
      PROVE  object'[c].uid = object[c].uid
  <2> USE <1>1
  <2>0. /\ TypeOK /\ Loops /\ object[c].owner = 0 /\ object[c].uid # 0
        /\ c \in Object /\ c \notin Item
    BY ReleaseAssumption DEF Inductive, Detaching, Uids, TypeOK, Object
  <2>1. CASE UNCHANGED object
    BY <2>1
  <2>2. ASSUME NEW o \in Object, DeleteChild(o) \/ PurgeData(o) \/ HelmDelete(o)
        PROVE  object'[c].uid = object[c].uid
    <3>1. o \in todo /\ Alone(o)
      BY <2>0, <2>2, DeleteFrees, HelmDeleteFrees DEF DeleteChild, PurgeData, Freed
    <3>2. c \notin todo
      BY <2>0, <2>2 DEF Loops, DeleteChild, PurgeData, HelmDelete
    <3>3. QED
      BY <2>0, <3>1, <3>2 DEF Alone
  <2>3. ASSUME NEW o \in Object, Detach(o) \/ LabelChild(o)
        PROVE  object'[c].uid = object[c].uid
    BY <2>3 DEF Detach, LabelChild, Removing
  <2>4. ASSUME NEW o \in Item, HelmApply(o)
        PROVE  object'[c].uid = object[c].uid
    BY <2>4 DEF HelmApply, Removing
  <2>5. ASSUME NEW d \in Child, Spawn(d)
        PROVE  object'[c].uid = object[c].uid
    BY <2>0, <2>5, SpawnMakes DEF Made, Alone, Live
  <2>6. ASSUME NEW d \in Child, Collect(d)
        PROVE  object'[c].uid = object[c].uid
    BY <2>0, <2>6, CollectFrees DEF Freed, Alone
  <2>7. ASSUME NEW o \in Meddled, Disturb(o)
        PROVE  object'[c].uid = object[c].uid
    BY <2>0, <2>7, DisturbChanges DEF Freed, Made, Alone
  <2>8. QED
    BY <2>0, <2>1, <2>2, <2>3, <2>4, <2>5, <2>6, <2>7, ObjectsStay DEF vars, cluster
<1>2. Inductive /\ [Next]_vars =>
        (Removing /\ ~purge =>
            \A c \in Child \cap Data :
                object[c].uid \in witness => object'[c].uid = object[c].uid)
  BY <1>1
<1>3. QED
  BY <1>2, InductiveHolds, PTL DEF Spec, DataSurvives

\* An uninstall that ends has removed what is labelled, of the chart or found
\* by capture_generated, but for the data that it keeps without --purge.
THEOREM RemovalIsComplete == Spec => RemovalComplete
<1>1. ASSUME Inductive, FinishUninstall, NEW o \in Object, Ours(o)
      PROVE  o \in Data /\ ~purge
  <2>1. pc = "purge" /\ todo = {}
    BY <1>1 DEF FinishUninstall
  <2>2. o \in Data
    BY <1>1, <2>1 DEF Inductive, Clearing, Ours, Object
  <2>3. QED
    BY <1>1, <2>1, <2>2 DEF Inductive, Clearing
<1>2. Inductive /\ [Next]_vars =>
        (FinishUninstall =>
            \A o \in Object :
                object[o].label = "mine" /\ (o \in Item \/ object[o].uid \in witness) =>
                    o \in Data /\ ~purge)
  BY <1>1 DEF Ours
<1>3. QED
  BY <1>2, InductiveHolds, PTL DEF Spec, RemovalComplete

\* What was somebody else's when the uninstall verified it stays, but for what
\* helm uninstall takes of a release that others have put in the place of the
\* name after that.
THEOREM ForeignIsKept == Spec => ForeignKept
<1>1. ASSUME Inductive, [Next]_vars, Removing, todo' # todo,
             ~(pc = "delete" /\ helm = "theirs"),
             NEW o \in Object, object[o].uid \in looked
      PROVE  object'[o].uid = object[o].uid
  <2> USE <1>1
  <2>0. /\ TypeOK /\ Shapes /\ object[o].label = "theirs" /\ object[o].uid # 0
        /\ helm = "mine" => o \notin Item
        /\ Loops
    BY Numbers DEF Inductive, Verified
  <2>1. CASE UNCHANGED object
    BY <2>1
  <2>2. ASSUME NEW p \in Object, DeleteChild(p) \/ PurgeData(p)
        PROVE  object'[o].uid = object[o].uid
    BY <2>0, <2>2, DeleteFrees DEF DeleteChild, PurgeData, Freed, Alone, Live
  <2>3. ASSUME NEW p \in Object, HelmDelete(p)
        PROVE  object'[o].uid = object[o].uid
    <3>1. pc = "delete" /\ helm = "mine" /\ p \in Item
      BY <2>0, <2>3 DEF Loops, HelmDelete, TypeOK
    <3>2. QED
      BY <2>0, <2>3, <3>1, HelmDeleteFrees DEF Freed, Alone
  <2>4. ASSUME NEW p \in Object, Detach(p) \/ LabelChild(p)
        PROVE  object'[o].uid = object[o].uid
    BY <2>4 DEF Detach, LabelChild, Removing
  <2>5. ASSUME NEW p \in Item, HelmApply(p)
        PROVE  object'[o].uid = object[o].uid
    BY <2>5 DEF HelmApply, Removing
  <2>6. (\E c \in Child : Spawn(c) \/ Collect(c)) \/ (\E p \in Meddled : Disturb(p))
            => todo' = todo
    BY DEF Spawn, Collect, Disturb, command
  <2>7. QED
    BY <2>0, <2>1, <2>2, <2>3, <2>4, <2>5, <2>6, ObjectsStay DEF vars, cluster
<1>2. Inductive /\ [Next]_vars =>
        (Removing /\ todo' # todo /\ ~(pc = "delete" /\ helm = "theirs") =>
            \A o \in Object : object[o].uid \in looked => object'[o].uid = object[o].uid)
  BY <1>1
<1>3. QED
  BY <1>2, InductiveHolds, PTL DEF Spec, ForeignKept

=============================================================================
