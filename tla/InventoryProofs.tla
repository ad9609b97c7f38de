-------------------------- MODULE InventoryProofs --------------------------
(***************************************************************************)
(* Proofs about the resource ledger, for every set of resources, every     *)
(* assignment of kinds and every bound.                                    *)
(***************************************************************************)
EXTENDS Inventory, TLAPS

(***************************************************************************)
(* Type correctness.                                                       *)
(***************************************************************************)

LEMMA ResetKeepsType ==
    ASSUME TypeOK, Reset, UNCHANGED <<clusterVars, file>>, faults' \in 0..MaxFaults
    PROVE  TypeOK'
BY DEF TypeOK, ClusterTypeOK, Object, Record, Reset, clusterVars, Step, Label

LEMMA FreshIsObject ==
    ASSUME ClusterTypeOK, NEW label \in Label
    PROVE  Fresh(label) \in Object
BY DEF ClusterTypeOK, Fresh, Object

LEMMA ApplyKeepsClusterType ==
    ASSUME ClusterTypeOK, NEW r \in Resource, ApplyObject(r)
    PROVE  ClusterTypeOK'
<1>1. CASE ~Live(r)
  <2>1. Fresh("mine") \in Object
    BY FreshIsObject DEF Label
  <2>2. object' \in [Resource -> Object] /\ minted' = minted + 1 /\ made' = made \cup {minted + 1}
    BY <1>1, <2>1 DEF ApplyObject, ClusterTypeOK
  <2>3. QED
    BY <2>2 DEF ClusterTypeOK
<1>2. CASE Live(r)
  BY <1>2 DEF ApplyObject, ClusterTypeOK, Object, Label
<1>3. QED
  BY <1>1, <1>2

LEMMA DeleteKeepsClusterType ==
    ASSUME ClusterTypeOK, NEW r \in Resource, DeleteObject(r)
    PROVE  ClusterTypeOK'
<1>1. CASE object' = [object EXCEPT ![r] = Vacant]
  BY <1>1 DEF ClusterTypeOK, DeleteObject, Vacant, Object, Label
<1>2. CASE object' = [object EXCEPT ![r].terminating = TRUE]
  BY <1>2 DEF ClusterTypeOK, DeleteObject, Object
<1>3. QED
  BY <1>1, <1>2 DEF DeleteObject

LEMMA WorldKeepsClusterType ==
    ASSUME ClusterTypeOK, NEW r \in Resource, World(r)
    PROVE  ClusterTypeOK'
<1>1. CASE \E label \in Label : Appear(r, label)
  <2>1. PICK label \in Label : Appear(r, label)
    BY <1>1
  <2>2. Fresh(label) \in Object
    BY FreshIsObject
  <2>3. QED
    BY <2>1, <2>2 DEF ClusterTypeOK, Appear
<1>2. CASE Vanish(r)
  BY <1>2 DEF ClusterTypeOK, Vanish, Vacant, Object, Label
<1>3. QED
  BY <1>1, <1>2 DEF World

LEMMA IntendedIsRecord ==
    ASSUME NEW record \in Record
    PROVE  Intended(record) \in Record
BY DEF Intended, Record, Status

LEMMA TypeInit == Init => TypeOK
<1> SUFFICES ASSUME Init PROVE TypeOK
  OBVIOUS
<1>1. ClusterTypeOK
  BY DEF Init, ClusterInit, ClusterTypeOK, Vacant, Object, Label
<1>2. file \in [Resource -> Record]
  BY DEF Init, NoRecord, Record, Status
<1>3. faults \in 0..MaxFaults
  BY BoundAssumption DEF Init
<1>4. QED
  BY <1>1, <1>2, <1>3 DEF Init, TypeOK, Step

LEMMA InstallKeepsType == TypeOK /\ Install => TypeOK'
<1> SUFFICES ASSUME TypeOK, Install PROVE TypeOK'
  OBVIOUS
<1> USE KindAssumption DEF TypeOK, Goto, Step
<1>1. CASE \E S \in SUBSET Resource : S # {} /\ StartInstall(S)
  BY <1>1 DEF StartInstall, clusterVars, ClusterTypeOK
<1>2. ASSUME NEW r \in Resource, VerifyInstall(r) PROVE TypeOK'
  BY <1>2 DEF VerifyInstall, clusterVars, ClusterTypeOK
<1>3. ASSUME NEW r \in Resource, RefuseInstall(r) PROVE TypeOK'
  BY <1>3, ResetKeepsType DEF RefuseInstall, Stop
<1>4. ASSUME NEW r \in Resource, Apply(r) PROVE TypeOK'
  <2>1. file' \in [Resource -> Record]
    BY <1>4, IntendedIsRecord DEF Apply
  <2>2. QED
    BY <1>4, <2>1 DEF Apply, clusterVars, ClusterTypeOK
<1>5. ASSUME NEW r \in Resource, ShareCrd(r) PROVE TypeOK'
  BY <1>5 DEF ShareCrd, Done, clusterVars, ClusterTypeOK
<1>6. ASSUME NEW r \in Resource, RefuseApply(r) PROVE TypeOK'
  BY <1>6, ResetKeepsType DEF RefuseApply, Stop
<1>7. ASSUME NEW r \in Resource, RegisterSecret(r) PROVE TypeOK'
  <2>1. file' \in [Resource -> Record]
    BY <1>7, IntendedIsRecord DEF RegisterSecret
  <2>2. ClusterTypeOK'
    BY <1>7 DEF RegisterSecret, clusterVars, ClusterTypeOK
  <2>3. CASE Live(r) /\ object[r].label # "other"
    BY <1>7, <2>1, <2>2, <2>3 DEF RegisterSecret
  <2>4. CASE ~(Live(r) /\ object[r].label # "other")
    <3>1. Reset /\ UNCHANGED faults
      BY <1>7, <2>4 DEF RegisterSecret, Stop
    <3>2. QED
      BY <2>1, <2>2, <3>1 DEF Reset
  <2>5. QED
    BY <2>3, <2>4
<1>8. CASE BeginApply
  <2>1. file' \in [Resource -> Record]
    BY <1>8, IntendedIsRecord DEF BeginApply
  <2>2. QED
    BY <1>8, <2>1 DEF BeginApply, clusterVars, ClusterTypeOK
<1>9. CASE KubectlApply
  <2>1. current \in Resource
    BY <1>9 DEF KubectlApply
  <2>2. ClusterTypeOK'
    BY <1>9, <2>1, ApplyKeepsClusterType DEF KubectlApply
  <2>3. QED
    BY <1>9, <2>2 DEF KubectlApply
<1>10. CASE RecordApplied
  <2>1. current \in Resource
    BY <1>10 DEF RecordApplied
  <2>2. file' \in [Resource -> Record]
    BY <1>10, <2>1 DEF RecordApplied, ClusterTypeOK, Object, Record, Status
  <2>3. QED
    BY <1>10, <2>2 DEF RecordApplied, Done, clusterVars, ClusterTypeOK
<1>11. CASE RefuseRecord
  BY <1>11, ResetKeepsType DEF RefuseRecord, Stop
<1>12. CASE LabelSecret
  <2>1. current \in Resource
    BY <1>12 DEF LabelSecret
  <2>2. ClusterTypeOK'
    BY <1>12, <2>1, ApplyKeepsClusterType DEF LabelSecret
  <2>3. QED
    BY <1>12, <2>2 DEF LabelSecret
<1>13. CASE FinishInstall
  BY <1>13, ResetKeepsType DEF FinishInstall, Stop
<1>14. QED
  BY <1>1, <1>2, <1>3, <1>4, <1>5, <1>6, <1>7, <1>8, <1>9, <1>10, <1>11, <1>12, <1>13
     DEF Install

LEMMA UninstallKeepsType == TypeOK /\ Uninstall => TypeOK'
<1> SUFFICES ASSUME TypeOK, Uninstall PROVE TypeOK'
  OBVIOUS
<1> USE KindAssumption DEF TypeOK, Goto, Step
<1>1. CASE \E S \in SUBSET Resource, p \in BOOLEAN : S # {} /\ StartUninstall(S, p)
  BY <1>1 DEF StartUninstall, clusterVars, ClusterTypeOK
<1>2. ASSUME NEW r \in Resource, VerifyRemoval(r) PROVE TypeOK'
  BY <1>2 DEF VerifyRemoval, Unestablished, clusterVars, ClusterTypeOK
<1>3. ASSUME NEW r \in Resource, RefuseRemoval(r) PROVE TypeOK'
  BY <1>3, ResetKeepsType DEF RefuseRemoval, Stop
<1>4. CASE BeginDelete
  <2>1. file' \in [Resource -> Record]
    BY <1>4 DEF BeginDelete, Record, Status
  <2>2. QED
    BY <1>4, <2>1 DEF BeginDelete, Removable, clusterVars, ClusterTypeOK
<1>5. ASSUME NEW r \in Resource, DeleteAbsent(r) PROVE TypeOK'
  BY <1>5 DEF DeleteAbsent, Done, Record, Status, clusterVars, ClusterTypeOK
<1>6. ASSUME NEW r \in Resource, DeleteCheck(r) PROVE TypeOK'
  BY <1>6 DEF DeleteCheck, clusterVars, ClusterTypeOK, Object
<1>7. ASSUME NEW r \in Resource, RefuseDelete(r) PROVE TypeOK'
  BY <1>7, ResetKeepsType DEF RefuseDelete, Stop
<1>8. ASSUME NEW r \in Resource, RetainCrd(r) PROVE TypeOK'
  BY <1>8 DEF RetainCrd, Done, clusterVars, ClusterTypeOK
<1>9. CASE DeleteCall
  <2>1. current \in Resource
    BY <1>9 DEF DeleteCall
  <2>2. CASE object[current].uid = seen
    <3>1. ClusterTypeOK'
      BY <1>9, <2>1, <2>2, DeleteKeepsClusterType DEF DeleteCall
    <3>2. QED
      BY <1>9, <2>2, <3>1 DEF DeleteCall
  <2>3. CASE object[current].uid # seen
    BY <1>9, <2>3, ResetKeepsType DEF DeleteCall, Stop
  <2>4. QED
    BY <2>2, <2>3
<1>10. CASE DeleteWait
  BY <1>10 DEF DeleteWait, Done, Record, Status, clusterVars, ClusterTypeOK
<1>11. CASE FinishUninstall
  BY <1>11, ResetKeepsType DEF FinishUninstall, Stop
<1>12. QED
  BY <1>1, <1>2, <1>3, <1>4, <1>5, <1>6, <1>7, <1>8, <1>9, <1>10, <1>11 DEF Uninstall

LEMMA TypeStep == TypeOK /\ [Next]_vars => TypeOK'
<1> SUFFICES ASSUME TypeOK, [Next]_vars PROVE TypeOK'
  OBVIOUS
<1>1. CASE Install
  BY <1>1, InstallKeepsType
<1>2. CASE Uninstall
  BY <1>2, UninstallKeepsType
<1>3. CASE Fault
  BY <1>3, ResetKeepsType, BoundAssumption DEF Fault, TypeOK
<1>4. ASSUME NEW r \in Resource, World(r) PROVE TypeOK'
  BY <1>4, WorldKeepsClusterType DEF World, cliVars, TypeOK
<1>5. CASE UNCHANGED vars
  BY <1>5 DEF vars, cliVars, clusterVars, TypeOK, ClusterTypeOK
<1>6. QED
  BY <1>1, <1>2, <1>3, <1>4, <1>5 DEF Next

\* The variables keep their types, whatever the interleaving.
THEOREM TypeCorrect == Spec => []TypeOK
<1>1. Init => TypeOK
  BY TypeInit
<1>2. TypeOK /\ [Next]_vars => TypeOK'
  BY TypeStep
<1>3. QED
  BY <1>1, <1>2, PTL DEF Spec

(***************************************************************************)
(* The inductive invariant.                                                *)
(***************************************************************************)

LEMMA InductiveInit == Init => Inductive
<1> SUFFICES ASSUME Init PROVE Inductive
  OBVIOUS
<1>1. TypeOK
  BY TypeInit
<1>2. \A r \in Resource : object[r].uid = 0 /\ file[r] = [status |-> "absent", uid |-> 0]
  BY DEF Init, ClusterInit, Vacant, NoRecord
<1>3. QED
  BY <1>1, <1>2, KindAssumption
     DEF Init, ClusterInit, Inductive, Recorded, UidsBounded, CurrentInLoop, Intending,
         CertSecretsMadeElsewhere, RecordsFormed, Removing, CheckedStays,
         SparedUnestablished, Cleared, KeptUnlessPurged

\* A command that ends leaves cluster and inventory as they are.
LEMMA ResetKeepsInductive ==
    ASSUME Inductive, Reset, UNCHANGED <<clusterVars, file>>, TypeOK'
    PROVE  Inductive'
BY DEF Inductive, Reset, clusterVars, TypeOK, ClusterTypeOK, Recorded, UidsBounded,
       CurrentInLoop, Intending, CertSecretsMadeElsewhere, RecordsFormed, Removing,
       CheckedStays,
       SparedUnestablished, Cleared, KeptUnlessPurged

LEMMA InstallKeepsInductive == Inductive /\ Install => Inductive'
<1> SUFFICES ASSUME Inductive, Install PROVE Inductive'
  OBVIOUS
<1>0. TypeOK /\ TypeOK'
  BY InstallKeepsType DEF Inductive
<1> USE <1>0, KindAssumption
<1>1. CASE \E S \in SUBSET Resource : S # {} /\ StartInstall(S)
  BY <1>1 DEF StartInstall, Goto, clusterVars, TypeOK, Inductive, Recorded, UidsBounded,
       CurrentInLoop, Intending, CertSecretsMadeElsewhere, RecordsFormed, Removing,
       CheckedStays,
       SparedUnestablished, Cleared, KeptUnlessPurged
<1>2. ASSUME NEW r \in Resource, VerifyInstall(r) PROVE Inductive'
  BY <1>2 DEF VerifyInstall, clusterVars, TypeOK, Inductive, Recorded, UidsBounded,
       CurrentInLoop, Intending, CertSecretsMadeElsewhere, RecordsFormed, Removing,
       CheckedStays,
       SparedUnestablished, Cleared, KeptUnlessPurged
<1>3. ASSUME NEW r \in Resource, RefuseInstall(r) PROVE Inductive'
  BY <1>3, ResetKeepsInductive DEF RefuseInstall, Stop
<1>4. ASSUME NEW r \in Resource, Apply(r) PROVE Inductive'
  BY <1>4 DEF Apply, Intended, Goto, clusterVars, TypeOK, Inductive, Recorded, UidsBounded,
       CurrentInLoop, Intending, CertSecretsMadeElsewhere, RecordsFormed, Removing,
       CheckedStays,
       SparedUnestablished, Cleared, KeptUnlessPurged
<1>5. ASSUME NEW r \in Resource, ShareCrd(r) PROVE Inductive'
  <2>1. pc = "apply" /\ pc' = "apply" /\ current' = NoResource /\ seen' = 0
    BY <1>5 DEF ShareCrd, Done
  <2>2. UNCHANGED <<object, minted, made, file, scope, spared>>
    BY <1>5 DEF ShareCrd, clusterVars
  <2>3. UidsBounded'
    BY <2>1, <2>2 DEF Inductive, UidsBounded, TypeOK, ClusterTypeOK
  <2>4. QED
    BY <2>1, <2>2, <2>3 DEF Inductive, Recorded, CurrentInLoop, Intending,
       CertSecretsMadeElsewhere, RecordsFormed, Removing, CheckedStays,
       SparedUnestablished, Cleared, KeptUnlessPurged
<1>6. ASSUME NEW r \in Resource, RefuseApply(r) PROVE Inductive'
  BY <1>6, ResetKeepsInductive DEF RefuseApply, Stop
<1>7. ASSUME NEW r \in Resource, RegisterSecret(r) PROVE Inductive'
  <2>1. UNCHANGED <<object, minted, made>> /\ file' = [file EXCEPT ![r] = Intended(file[r])]
    BY <1>7 DEF RegisterSecret, clusterVars
  <2>2. Recorded' /\ RecordsFormed'
    BY <2>1 DEF Inductive, Recorded, RecordsFormed, Intended, TypeOK
  <2>3. CASE Live(r) /\ object[r].label # "other"
    BY <1>7, <2>1, <2>2, <2>3 DEF RegisterSecret, Goto, Intended, TypeOK, Inductive,
       UidsBounded, CurrentInLoop, Intending, CertSecretsMadeElsewhere, Removing,
       CheckedStays,
       SparedUnestablished, Cleared, KeptUnlessPurged
  <2>4. CASE ~(Live(r) /\ object[r].label # "other")
    <3>1. Reset
      BY <1>7, <2>4 DEF RegisterSecret, Stop
    <3>2. QED
      BY <2>1, <2>2, <3>1 DEF Reset, TypeOK, ClusterTypeOK, Inductive, UidsBounded,
         CurrentInLoop, Intending, CertSecretsMadeElsewhere, Removing, CheckedStays,
         SparedUnestablished, Cleared, KeptUnlessPurged
  <2>5. QED
    BY <2>3, <2>4
<1>8. CASE BeginApply
  BY <1>8 DEF BeginApply, Intended, Goto, clusterVars, TypeOK, Inductive, Recorded, UidsBounded,
       CurrentInLoop, Intending, CertSecretsMadeElsewhere, RecordsFormed, Removing,
       CheckedStays,
       SparedUnestablished, Cleared, KeptUnlessPurged
<1>9. CASE KubectlApply
  BY <1>9 DEF KubectlApply, ApplyObject, Live, Fresh, Goto, clusterVars, TypeOK, ClusterTypeOK, Object, Inductive, Recorded, UidsBounded,
       CurrentInLoop, Intending, CertSecretsMadeElsewhere, RecordsFormed, Removing,
       CheckedStays,
       SparedUnestablished, Cleared, KeptUnlessPurged
<1>10. CASE RecordApplied
  BY <1>10 DEF RecordApplied, Done, Goto, clusterVars, TypeOK, ClusterTypeOK, Object, Inductive, Recorded, UidsBounded,
       CurrentInLoop, Intending, CertSecretsMadeElsewhere, RecordsFormed, Removing,
       CheckedStays,
       SparedUnestablished, Cleared, KeptUnlessPurged
<1>11. CASE RefuseRecord
  BY <1>11, ResetKeepsInductive DEF RefuseRecord, Stop
<1>12. CASE LabelSecret
  <2>1. current \in Resource /\ UNCHANGED <<minted, made, file, scope, todo, current, seen, spared>>
    BY <1>12 DEF LabelSecret, ApplyObject, TypeOK
  <2>2. object' = [object EXCEPT ![current].label = "mine"]
    BY <1>12 DEF LabelSecret, ApplyObject
  <2>3. \A r \in Resource : object'[r].uid = object[r].uid
    BY <2>1, <2>2 DEF TypeOK, ClusterTypeOK, Object
  <2>4. pc = "label" /\ pc' = "record"
    BY <1>12 DEF LabelSecret, Goto
  <2>5. QED
    BY <2>1, <2>3, <2>4 DEF Inductive, Recorded, UidsBounded, CurrentInLoop, Intending,
       CertSecretsMadeElsewhere, RecordsFormed, Removing, CheckedStays,
       SparedUnestablished, Cleared, KeptUnlessPurged
<1>13. CASE FinishInstall
  BY <1>13, ResetKeepsInductive DEF FinishInstall, Stop
<1>14. QED
  BY <1>1, <1>2, <1>3, <1>4, <1>5, <1>6, <1>7, <1>8, <1>9, <1>10, <1>11, <1>12, <1>13
     DEF Install

LEMMA UninstallKeepsInductive == Inductive /\ Uninstall => Inductive'
<1> SUFFICES ASSUME Inductive, Uninstall PROVE Inductive'
  OBVIOUS
<1>0. TypeOK /\ TypeOK'
  BY UninstallKeepsType DEF Inductive
<1> USE <1>0, KindAssumption
<1>1. CASE \E S \in SUBSET Resource, p \in BOOLEAN : S # {} /\ StartUninstall(S, p)
  BY <1>1 DEF StartUninstall, Goto, clusterVars, TypeOK, Inductive, Recorded, UidsBounded,
       CurrentInLoop, Intending, CertSecretsMadeElsewhere, RecordsFormed, Removing,
       CheckedStays,
       SparedUnestablished, Cleared, KeptUnlessPurged
<1>2. ASSUME NEW r \in Resource, VerifyRemoval(r) PROVE Inductive'
  BY <1>2 DEF VerifyRemoval, Unestablished, clusterVars, TypeOK, Inductive, Recorded, UidsBounded,
       CurrentInLoop, Intending, CertSecretsMadeElsewhere, RecordsFormed, Removing,
       CheckedStays,
       SparedUnestablished, Cleared, KeptUnlessPurged
<1>3. ASSUME NEW r \in Resource, RefuseRemoval(r) PROVE Inductive'
  BY <1>3, ResetKeepsInductive DEF RefuseRemoval, Stop
<1>4. CASE BeginDelete
  <2>1. UNCHANGED <<object, minted, made, purge, scope, current, seen>>
    BY <1>4 DEF BeginDelete, clusterVars
  <2>2. \A r \in Resource : file'[r] = IF r \in spared THEN [file[r] EXCEPT !.status = "unverified"] ELSE file[r]
    BY <1>4 DEF BeginDelete
  <2>3. Recorded' /\ RecordsFormed'
    BY <2>1, <2>2 DEF Inductive, Recorded, RecordsFormed, TypeOK, Record
  <2>4. Removing'
    BY <1>4, <2>1, <2>2 DEF BeginDelete, Inductive, Removing, TypeOK, Record
  <2>5. Cleared'
    <3>1. todo' = Removable(file')
      BY <1>4 DEF BeginDelete
    <3>2. SUFFICES ASSUME NEW r \in scope, r \notin todo', r \notin Keep \/ (purge /\ r \in Data)
                   PROVE  object[r].uid \notin made
      BY <2>1 DEF Cleared
    <3>3. r \in Keep /\ purge /\ file'[r].status = "unverified"
      BY <3>1, <3>2, <2>1 DEF Removable, Keep
    <3>4. r \in CertSecret
      BY <3>3, <2>3 DEF RecordsFormed, TypeOK
    <3>5. QED
      BY <3>4 DEF Inductive, CertSecretsMadeElsewhere
  <2>6. QED
    BY <1>4, <2>1, <2>3, <2>4, <2>5 DEF BeginDelete, Goto, TypeOK, Inductive, UidsBounded,
       CurrentInLoop, Intending, CertSecretsMadeElsewhere, CheckedStays, SparedUnestablished,
       KeptUnlessPurged, Removable
<1>5. ASSUME NEW r \in Resource, DeleteAbsent(r) PROVE Inductive'
  BY <1>5 DEF DeleteAbsent, Live, Done, clusterVars, ClusterTypeOK, Record, TypeOK, Inductive, Recorded, UidsBounded,
       CurrentInLoop, Intending, CertSecretsMadeElsewhere, RecordsFormed, Removing,
       CheckedStays,
       SparedUnestablished, Cleared, KeptUnlessPurged
<1>6. ASSUME NEW r \in Resource, DeleteCheck(r) PROVE Inductive'
  <2>1. /\ pc = "delete" /\ pc' = "deleteCall" /\ r \in todo
        /\ current' = r /\ seen' = object[r].uid
        /\ UNCHANGED <<object, minted, made, file, purge, scope, todo, spared>>
    BY <1>6 DEF DeleteCheck, Reached, Goto, clusterVars
  <2>2. object[r].label = "mine" /\ file[r].uid \in {0, object[r].uid}
    BY <1>6 DEF DeleteCheck, Owned
  <2>3. object[r].uid # 0
    BY <1>6 DEF DeleteCheck, Live
  <2>4. QED
    BY <2>1, <2>2, <2>3 DEF Inductive, TypeOK, Recorded, UidsBounded, CurrentInLoop,
       Intending, CertSecretsMadeElsewhere, RecordsFormed, Removing, CheckedStays,
       SparedUnestablished, Cleared, KeptUnlessPurged
<1>7. ASSUME NEW r \in Resource, RefuseDelete(r) PROVE Inductive'
  BY <1>7, ResetKeepsInductive DEF RefuseDelete, Stop
<1>8. ASSUME NEW r \in Resource, RetainCrd(r) PROVE Inductive'
  BY <1>8 DEF RetainCrd, Done, Keep, clusterVars, ClusterTypeOK, TypeOK, Inductive, Recorded, UidsBounded,
       CurrentInLoop, Intending, CertSecretsMadeElsewhere, RecordsFormed, Removing,
       CheckedStays,
       SparedUnestablished, Cleared, KeptUnlessPurged
<1>9. CASE DeleteCall
  <2>1. current \in Resource /\ UNCHANGED <<minted, made, file>>
    BY <1>9 DEF DeleteCall, DeleteObject, TypeOK, clusterVars
  <2>2. CASE object[current].uid = seen
    <3>1. \A r \in Resource : object'[r].uid \in {0, object[r].uid}
      BY <1>9, <2>1, <2>2 DEF DeleteCall, DeleteObject, Vacant, TypeOK, ClusterTypeOK, Object
    <3>2. pc = "deleteCall" /\ pc' = "deleteWait" /\ UNCHANGED <<purge, scope, todo, current, seen, spared>>
      BY <1>9, <2>2 DEF DeleteCall, Goto
    <3>3. 0 \notin made
      BY DEF TypeOK, ClusterTypeOK
    <3>4. QED
      BY <2>1, <3>1, <3>2, <3>3 DEF Inductive, TypeOK, ClusterTypeOK, Recorded, UidsBounded,
         CurrentInLoop, Intending, CertSecretsMadeElsewhere, RecordsFormed, Removing,
         CheckedStays,
       SparedUnestablished, Cleared, KeptUnlessPurged
  <2>3. CASE object[current].uid # seen
    BY <1>9, <2>3, ResetKeepsInductive DEF DeleteCall, Stop
  <2>4. QED
    BY <2>2, <2>3
<1>10. CASE DeleteWait
  BY <1>10 DEF DeleteWait, Live, Done, Goto, Record, clusterVars, ClusterTypeOK, TypeOK, Inductive, Recorded, UidsBounded,
       CurrentInLoop, Intending, CertSecretsMadeElsewhere, RecordsFormed, Removing,
       CheckedStays,
       SparedUnestablished, Cleared, KeptUnlessPurged
<1>11. CASE FinishUninstall
  BY <1>11, ResetKeepsInductive DEF FinishUninstall, Stop
<1>12. QED
  BY <1>1, <1>2, <1>3, <1>4, <1>5, <1>6, <1>7, <1>8, <1>9, <1>10, <1>11 DEF Uninstall

LEMMA WorldKeepsInductive ==
    ASSUME Inductive, NEW q \in Resource, World(q), TypeOK'
    PROVE  Inductive'
<1> USE DEF World, cliVars
<1>1. CASE \E label \in Label : Appear(q, label)
  BY <1>1 DEF Appear, Fresh, Live, ClusterTypeOK, Object, TypeOK, Inductive, Recorded, UidsBounded,
       CurrentInLoop, Intending, CertSecretsMadeElsewhere, RecordsFormed, Removing,
       CheckedStays,
       SparedUnestablished, Cleared, KeptUnlessPurged
<1>2. CASE Vanish(q)
  BY <1>2 DEF Vanish, Vacant, Live, ClusterTypeOK, Object, TypeOK, Inductive, Recorded, UidsBounded,
       CurrentInLoop, Intending, CertSecretsMadeElsewhere, RecordsFormed, Removing,
       CheckedStays,
       SparedUnestablished, Cleared, KeptUnlessPurged
<1>3. QED
  BY <1>1, <1>2

LEMMA InductiveStep == Inductive /\ [Next]_vars => Inductive'
<1> SUFFICES ASSUME Inductive, [Next]_vars PROVE Inductive'
  OBVIOUS
<1>0. TypeOK'
  BY TypeStep DEF Inductive
<1>1. CASE Install
  BY <1>1, InstallKeepsInductive
<1>2. CASE Uninstall
  BY <1>2, UninstallKeepsInductive
<1>3. CASE Fault
  BY <1>0, <1>3, ResetKeepsInductive DEF Fault
<1>4. ASSUME NEW r \in Resource, World(r) PROVE Inductive'
  BY <1>0, <1>4, WorldKeepsInductive
<1>5. CASE UNCHANGED vars
  BY <1>5 DEF vars, cliVars, clusterVars, TypeOK, ClusterTypeOK, Inductive, Recorded, UidsBounded,
       CurrentInLoop, Intending, CertSecretsMadeElsewhere, RecordsFormed, Removing,
       CheckedStays,
       SparedUnestablished, Cleared, KeptUnlessPurged
<1>6. QED
  BY <1>1, <1>2, <1>3, <1>4, <1>5 DEF Next

LEMMA InductiveHolds == Spec => []Inductive
<1>1. Init => Inductive
  BY InductiveInit
<1>2. Inductive /\ [Next]_vars => Inductive'
  BY InductiveStep
<1>3. QED
  BY <1>1, <1>2, PTL DEF Spec

(***************************************************************************)
(* Nothing enkictl created is ever missing from its inventory on disk,     *)
(* wherever commands fail or are killed: the write-ahead intent works.     *)
(***************************************************************************)
THEOREM WriteAhead == Spec => []Recorded
<1>1. Inductive => Recorded
  BY DEF Inductive
<1>2. QED
  BY <1>1, InductiveHolds, PTL

(***************************************************************************)
(* A successful uninstall has removed what enkictl created in its scope    *)
(* and does not keep: the loops pass over nothing (Cleared).               *)
(***************************************************************************)
THEOREM RemovalLeavesNothing == Spec => RemovalComplete
<1>1. Inductive /\ [Next]_vars =>
        [FinishUninstall =>
           \A r \in scope : object[r].uid \in made =>
              \/ r \in Crd
              \/ r \in Data /\ ~purge]_vars
  BY DEF Inductive, Cleared, FinishUninstall, Keep
<1>2. QED
  BY <1>1, InductiveHolds, PTL DEF Spec, RemovalComplete

(***************************************************************************)
(* What enkictl deletes carries its label, and is data only with --purge.  *)
(***************************************************************************)

LEMMA ApplyRemovesNothing ==
    ASSUME TypeOK, ApplyObject(current), current \in Resource, NEW r \in Resource
    PROVE  ~Removed(r)
BY DEF ApplyObject, Removed, Live, TypeOK, ClusterTypeOK, Object

LEMMA DeletionIsChecked ==
    ASSUME Inductive, DeleteCall, NEW r \in Resource, Removed(r)
    PROVE  /\ r \in Keep => purge
           /\ object[r].label = "mine"
<1>1. current \in Resource /\ current \in todo
  BY DEF DeleteCall, Inductive, TypeOK, CurrentInLoop
<1>2. object[current].uid = seen /\ DeleteObject(current)
  BY DEF DeleteCall, Removed, clusterVars
<1>3. r = current
  BY <1>1, <1>2 DEF DeleteObject, Removed, Inductive, TypeOK, ClusterTypeOK
<1>4. QED
  BY <1>1, <1>2, <1>3 DEF DeleteCall, Inductive, CheckedStays, KeptUnlessPurged

THEOREM DeletesOnlyItsOwn == Spec => RetainedSurvive
<1>1. ASSUME Inductive, [Next]_vars, Install \/ Uninstall, NEW r \in Resource, Removed(r)
      PROVE  /\ r \in Keep => purge
             /\ object[r].label = "mine"
  <2>1. CASE object' = object
    BY <2>1, <1>1 DEF Removed
  <2>2. CASE KubectlApply \/ LabelSecret
    <3>1. current \in Resource /\ ApplyObject(current)
      BY <2>2, <1>1 DEF KubectlApply, LabelSecret, Inductive, TypeOK
    <3>2. QED
      BY <3>1, <1>1, ApplyRemovesNothing DEF Inductive
  <2>3. CASE DeleteCall
    BY <1>1, <2>3, DeletionIsChecked
  <2>4. QED
    BY <1>1, <2>1, <2>2, <2>3
       DEF Install, Uninstall, clusterVars, StartInstall, VerifyInstall, RefuseInstall,
           BeginApply, Apply, ShareCrd, RefuseApply, RegisterSecret, RecordApplied,
           RefuseRecord, FinishInstall, StartUninstall, VerifyRemoval, RefuseRemoval,
           BeginDelete, DeleteAbsent, DeleteCheck, RefuseDelete, RetainCrd, DeleteWait,
           FinishUninstall
<1>2. Inductive /\ [Next]_vars =>
        [Install \/ Uninstall =>
           \A r \in Resource : Removed(r) =>
              /\ r \in Keep => purge
              /\ object[r].label = "mine"]_vars
  BY <1>1
<1>3. QED
  BY <1>2, InductiveHolds, PTL DEF Spec, RetainedSurvive

(***************************************************************************)
(* The inventory implements the promises of Ownership.tla: its initial     *)
(* states are initial states there, and each of its steps is one of the    *)
(* steps there, or changes nothing there.                                  *)
(***************************************************************************)

LEMMA LedgerInit == Init => Promise!Init
BY DEF Init, Promise!Init, ClusterInit, Promise!ClusterInit, Vacant, Promise!Vacant,
       Ledger, LedgerState, NoRecord

\* The ledger depends on the records only.
LEMMA LedgerSame ==
    ASSUME UNCHANGED file
    PROVE  UNCHANGED Ledger
BY DEF Ledger, LedgerState

LEMMA LedgerShape ==
    ASSUME TypeOK
    PROVE  /\ Ledger = [r \in Resource |-> [state |-> LedgerState(file[r].status), uid |-> file[r].uid]]
           /\ \A r \in Resource : Ledger[r] = [state |-> LedgerState(file[r].status), uid |-> file[r].uid]
           /\ \A r \in Resource : Ledger[r].state = "claimed" <=> file[r].status \notin {"absent", "deleted"}
           /\ \A r \in Resource : Ledger[r].state = "never" <=> file[r].status = "absent"
BY DEF Ledger, LedgerState, TypeOK, Record, Status

\* Making records pending, or unverified where they have no uid, is a claim.
LEMMA IntentClaims ==
    ASSUME TypeOK, TypeOK', NEW R \in SUBSET Resource, UNCHANGED clusterVars,
           \A r \in R : \/ file'[r] = Intended(file[r])
                        \/ file[r].uid = 0 /\ file'[r] = [file[r] EXCEPT !.status = "unverified"],
           \A r \in Resource \ R : file'[r] = file[r]
    PROVE  Promise!Claim(R)
<1>1. \A r \in Resource : file[r] \in Record /\ file'[r] \in Record
  BY DEF TypeOK
<1>2. ASSUME NEW r \in Resource
      PROVE  [state |-> LedgerState(file'[r].status), uid |-> file'[r].uid]
               = IF r \in R /\ Ledger[r].state # "claimed"
                 THEN [state |-> "claimed", uid |-> 0]
                 ELSE Ledger[r]
  <2>1. CASE r \notin R
    BY <2>1, LedgerShape
  <2>2. CASE r \in R /\ file'[r] = Intended(file[r])
    BY <1>1, <2>2, LedgerShape DEF Intended, LedgerState, Record, Status
  <2>3. CASE r \in R /\ file[r].uid = 0 /\ file'[r] = [file[r] EXCEPT !.status = "unverified"]
    BY <1>1, <2>3, LedgerShape DEF LedgerState, Record, Status
  <2>4. QED
    BY <2>1, <2>2, <2>3
<1>3. Ledger' = [r \in Resource |-> [state |-> LedgerState(file'[r].status), uid |-> file'[r].uid]]
  BY DEF Ledger, LedgerState
<1>4. QED
  BY <1>2, <1>3 DEF Promise!Claim, Promise!clusterVars, clusterVars

\* Saving "deleted" where there is no object gives the claim up.
LEMMA DeletedRelinquishes ==
    ASSUME TypeOK, NEW r \in Resource, ~Live(r), file[r].status # "absent",
           file' = [file EXCEPT ![r].status = "deleted"], UNCHANGED clusterVars
    PROVE  Promise!Relinquish(r) \/ UNCHANGED Promise!vars
<1>1. \A q \in Resource : file[q] \in Record
  BY DEF TypeOK
<1>2. \A q \in Resource :
        [state |-> LedgerState(file'[q].status), uid |-> file'[q].uid]
          = IF q = r THEN [state |-> "released", uid |-> file[q].uid] ELSE Ledger[q]
  BY <1>1, LedgerShape DEF LedgerState, TypeOK, Record
<1>3. Ledger' = [q \in Resource |-> [state |-> LedgerState(file'[q].status), uid |-> file'[q].uid]]
  BY DEF Ledger, LedgerState
<1>4. Ledger' = [Ledger EXCEPT ![r].state = "released"]
  <2> DEFINE F == [q \in Resource |-> IF q = r THEN [state |-> "released", uid |-> file[q].uid]
                                               ELSE Ledger[q]]
  <2>1. Ledger' = F
    BY <1>2, <1>3
  <2>2. [Ledger[r] EXCEPT !.state = "released"] = [state |-> "released", uid |-> file[r].uid]
    BY LedgerShape
  <2>3. [Ledger EXCEPT ![r].state = "released"] = F
    BY <2>2, LedgerShape
  <2>4. QED
    BY <2>1, <2>3
<1>5. CASE file[r].status = "deleted"
  <2>1. Ledger' = Ledger
    BY <1>4, <1>5, LedgerShape DEF LedgerState
  <2>2. QED
    BY <2>1 DEF Promise!vars, Promise!clusterVars, clusterVars
<1>6. CASE file[r].status # "deleted"
  BY <1>4, <1>6, LedgerShape DEF Promise!Relinquish, Promise!Live, Live, Promise!clusterVars, clusterVars
<1>7. QED
  BY <1>5, <1>6

LEMMA SameStutters ==
    ASSUME UNCHANGED <<clusterVars, file>>
    PROVE  UNCHANGED Promise!vars
BY LedgerSame DEF Promise!vars, Promise!clusterVars, clusterVars

LEMMA InstallRefines ==
    ASSUME Inductive, Install, TypeOK'
    PROVE  Promise!Next \/ UNCHANGED Promise!vars
<1>0. TypeOK
  BY DEF Inductive
<1> USE <1>0 DEF Promise!Next
<1>1. CASE UNCHANGED <<clusterVars, file>>
  BY <1>1, SameStutters
<1>2. ASSUME NEW r \in Resource, Apply(r) \/ RegisterSecret(r) PROVE Promise!Next
  <2>1. UNCHANGED clusterVars /\ file' = [file EXCEPT ![r] = Intended(@)]
    BY <1>2 DEF Apply, RegisterSecret
  <2>2. Promise!Claim({r})
    BY <2>1, IntentClaims DEF TypeOK
  <2>3. QED
    BY <2>2
<1>3. CASE BeginApply
  <2> DEFINE R == scope \cap CertSecret
  <2>1. R \subseteq Resource /\ UNCHANGED clusterVars
    BY <1>3 DEF BeginApply, TypeOK
  <2>2. \A r \in Resource : file'[r] = IF r \in R THEN Intended(file[r]) ELSE file[r]
    BY <1>3 DEF BeginApply
  <2>3. Promise!Claim(R)
    BY <2>1, <2>2, IntentClaims
  <2>4. QED
    BY <2>1, <2>3
<1>4. CASE KubectlApply \/ LabelSecret
  <2>1. current \in Resource /\ ApplyObject(current) /\ UNCHANGED file
    BY <1>4 DEF KubectlApply, LabelSecret, TypeOK
  <2>2. Ledger[current].state = "claimed"
    BY <1>4, <2>1, LedgerShape DEF KubectlApply, LabelSecret, Inductive, Intending
  <2>3. Promise!Put(current)
    BY <2>1, <2>2, LedgerSame
       DEF Promise!Put, Promise!ApplyObject, ApplyObject, Promise!Live, Live, Promise!Fresh, Fresh
  <2>4. QED
    BY <2>1, <2>3
<1>5. CASE RecordApplied
  <2>1. current \in Resource /\ Live(current) /\ UNCHANGED clusterVars
    BY <1>5 DEF RecordApplied, TypeOK
  <2>2. file' = [file EXCEPT ![current] = [status |-> "applied", uid |-> object[current].uid]]
    BY <1>5 DEF RecordApplied
  <2>3. Ledger[current].state = "claimed"
    BY <1>5, <2>1, LedgerShape DEF RecordApplied, Inductive, Intending
  <2>4. \A q \in Resource :
          [state |-> LedgerState(file'[q].status), uid |-> file'[q].uid]
            = IF q = current THEN [state |-> "claimed", uid |-> object[current].uid] ELSE Ledger[q]
    BY <2>1, <2>2, LedgerShape DEF LedgerState, TypeOK
  <2>5. Ledger' = [q \in Resource |-> [state |-> LedgerState(file'[q].status), uid |-> file'[q].uid]]
    BY DEF Ledger, LedgerState
  <2>6. Ledger' = [Ledger EXCEPT ![current].uid = object[current].uid]
    <3> DEFINE F == [q \in Resource |-> IF q = current
                                        THEN [state |-> "claimed", uid |-> object[current].uid]
                                        ELSE Ledger[q]]
    <3>1. Ledger' = F
      BY <2>4, <2>5
    <3>2. [Ledger[current] EXCEPT !.uid = object[current].uid]
            = [state |-> "claimed", uid |-> object[current].uid]
      BY <2>1, <2>3, LedgerShape
    <3>3. [Ledger EXCEPT ![current].uid = object[current].uid] = F
      BY <2>1, <3>2, LedgerShape
    <3>4. QED
      BY <3>1, <3>3
  <2>7. Promise!Learn(current)
    BY <2>1, <2>3, <2>6 DEF Promise!Learn, Promise!Live, Live, Promise!clusterVars, clusterVars
  <2>8. QED
    BY <2>1, <2>7
<1>6. QED
  BY <1>1, <1>2, <1>3, <1>4, <1>5
     DEF Install, StartInstall, VerifyInstall, RefuseInstall, ShareCrd, RefuseApply,
         RefuseRecord, FinishInstall

LEMMA UninstallRefines ==
    ASSUME Inductive, Uninstall, TypeOK'
    PROVE  Promise!Next \/ UNCHANGED Promise!vars
<1>0. TypeOK
  BY DEF Inductive
<1> USE <1>0 DEF Promise!Next
<1>1. CASE UNCHANGED <<clusterVars, file>>
  BY <1>1, SameStutters
<1>2. CASE BeginDelete
  <2>1. spared \subseteq Resource /\ UNCHANGED clusterVars
    BY <1>2, KindAssumption DEF BeginDelete, TypeOK
  <2>2. \A r \in spared : file[r].uid = 0
    BY DEF Inductive, SparedUnestablished
  <2>3. \A r \in Resource :
          file'[r] = IF r \in spared THEN [file[r] EXCEPT !.status = "unverified"] ELSE file[r]
    BY <1>2 DEF BeginDelete
  <2>4. Promise!Claim(spared)
    BY <2>1, <2>2, <2>3, IntentClaims
  <2>5. QED
    BY <2>1, <2>4
<1>3. ASSUME NEW r \in Resource, DeleteAbsent(r)
      PROVE  Promise!Next \/ UNCHANGED Promise!vars
  <2>1. file[r].status # "absent"
    BY <1>3 DEF DeleteAbsent, Reached, Inductive, Removing, TypeOK
  <2>2. QED
    BY <1>3, <2>1, DeletedRelinquishes DEF DeleteAbsent
<1>4. CASE DeleteWait
  <2>1. current \in Resource /\ ~Live(current) /\ UNCHANGED clusterVars
    BY <1>4 DEF DeleteWait, TypeOK
  <2>2. file[current].status # "absent"
    BY <1>4 DEF DeleteWait, Inductive, Removing, CurrentInLoop, TypeOK
  <2>3. file' = [file EXCEPT ![current].status = "deleted"]
    BY <1>4 DEF DeleteWait
  <2>4. QED
    BY <2>1, <2>2, <2>3, DeletedRelinquishes
<1>5. CASE DeleteCall
  <2>1. CASE object[current].uid # seen
    BY <1>5, <2>1, SameStutters DEF DeleteCall
  <2>2. CASE object[current].uid = seen
    <3>1. current \in Resource /\ DeleteObject(current) /\ UNCHANGED file
      BY <1>5, <2>2 DEF DeleteCall, TypeOK
    <3>2. Ledger[current].state # "never"
      BY <1>5, <3>1, LedgerShape DEF DeleteCall, Inductive, Removing, CurrentInLoop, TypeOK
    <3>3. object[current].label = "mine" /\ Ledger[current].uid \in {0, object[current].uid}
      BY <1>5, <2>2, <3>1, LedgerShape DEF DeleteCall, Inductive, CheckedStays
    <3>4. Promise!DeleteObject(current)
      BY <3>1 DEF Promise!DeleteObject, DeleteObject, Promise!Live, Live, Promise!Vacant, Vacant
    <3>5. Promise!Delete(current)
      BY <3>1, <3>2, <3>3, <3>4, LedgerSame DEF Promise!Delete
    <3>6. QED
      BY <3>1, <3>5
  <2>3. QED
    BY <2>1, <2>2
<1>6. QED
  BY <1>1, <1>2, <1>3, <1>4, <1>5
     DEF Uninstall, StartUninstall, VerifyRemoval, RefuseRemoval, DeleteCheck, RefuseDelete,
         RetainCrd, FinishUninstall

LEMMA WorldRefines ==
    ASSUME NEW r \in Resource, World(r)
    PROVE  Promise!World(r)
<1>1. CASE \E label \in Label : Appear(r, label)
  BY <1>1, LedgerSame
     DEF World, Promise!World, Appear, Promise!Appear, Live, Promise!Live, Fresh, Promise!Fresh,
         Label, Promise!Label
<1>2. CASE Vanish(r)
  BY <1>2, LedgerSame
     DEF World, Promise!World, Vanish, Promise!Vanish, Live, Promise!Live, Vacant, Promise!Vacant
<1>3. QED
  BY <1>1, <1>2 DEF World

LEMMA LedgerStep == Inductive /\ [Next]_vars => [Promise!Next]_(Promise!vars)
<1> SUFFICES ASSUME Inductive, [Next]_vars PROVE Promise!Next \/ UNCHANGED Promise!vars
  OBVIOUS
<1>0. TypeOK'
  BY TypeStep DEF Inductive
<1>1. CASE Install
  BY <1>0, <1>1, InstallRefines
<1>2. CASE Uninstall
  BY <1>0, <1>2, UninstallRefines
<1>3. CASE Fault
  BY <1>3, SameStutters DEF Fault
<1>4. ASSUME NEW r \in Resource, World(r) PROVE Promise!Next
  BY <1>4, WorldRefines DEF Promise!Next
<1>5. CASE UNCHANGED vars
  BY <1>5, SameStutters DEF vars
<1>6. QED
  BY <1>1, <1>2, <1>3, <1>4, <1>5 DEF Next

THEOREM LedgerRefines == Spec => ImplementsOwnership
<1>1. Init => Promise!Init
  BY LedgerInit
<1>2. Inductive /\ [Next]_vars => [Promise!Next]_(Promise!vars)
  BY LedgerStep
<1>3. QED
  BY <1>1, <1>2, InductiveHolds, PTL DEF Spec, ImplementsOwnership, Promise!Spec

(***************************************************************************)
(* Rerun after one fault.  An object of ours that nobody else deletes has  *)
(* our label; before the first fault every uid in the file is that of the  *)
(* object there, unless its deletion is being waited for.  So what kubectl *)
(* apply creates then has a record without uid, and a uid that is stale in *)
(* the file after one fault meets a new object only between kubectl apply  *)
(* and the saving of its uid.  A second fault there ends all this.         *)
(***************************************************************************)
LabelsKept ==
    \A r \in Resource :
        /\ object[r].uid \in made => object[r].label = "mine"
        /\ object[r].terminating => Live(r)

UidsMatch ==
    faults <= 1 =>
        \A r \in Resource \ Meddled : object[r].uid \in made =>
            \/ file[r].uid \in {0, object[r].uid}
            \/ faults > 0 /\ pc = "record" /\ current = r

NoneStale ==
    faults = 0 =>
        \A r \in Resource \ Meddled :
            ~(pc = "deleteWait" /\ current = r) =>
                /\ ~object[r].terminating
                /\ file[r].status # "deleted" => file[r].uid \in {0, object[r].uid}

Rerunning == LabelsKept /\ UidsMatch /\ NoneStale

\* A step that leaves the cluster alone and has no fault keeps it, unless it
\* ends an application or a deletion without having saved what it did.
LEMMA FileStepKeepsRerunning ==
    ASSUME TypeOK, Rerunning, UNCHANGED <<object, made, faults>>,
           pc = "record" => ~Live(current) \/ file'[current].uid = object[current].uid,
           pc = "deleteWait" => ~Live(current) /\ file'[current].status = "deleted",
           \A r \in Resource :
               \/ file'[r] = file[r]
               \/ file'[r].uid \in {0, object[r].uid}
               \/ file'[r].uid = file[r].uid /\ file'[r].status = "deleted"
    PROVE  Rerunning'
<1>0. 0 \notin made
  BY DEF TypeOK, ClusterTypeOK
<1>1. LabelsKept'
  BY DEF Rerunning, LabelsKept, Live
<1>2. UidsMatch'
  BY <1>0 DEF Rerunning, UidsMatch, Live
<1>3. NoneStale'
  BY DEF Rerunning, NoneStale, LabelsKept
<1>4. QED
  BY <1>1, <1>2, <1>3 DEF Rerunning

\* kubectl apply and kubectl label: what is created has no uid in the file, or
\* is the object whose uid is saved next.
LEMMA ApplyKeepsRerunning ==
    ASSUME Inductive, Rerunning, pc \in {"call", "label"}, pc' = "record",
           ApplyObject(current), UNCHANGED <<file, current, faults>>
    PROVE  Rerunning'
<1>1. current \in Resource /\ object \in [Resource -> Object] /\ faults \in Nat
  BY BoundAssumption DEF Inductive, TypeOK, ClusterTypeOK
<1>2. CASE Live(current)
  <2>1. UNCHANGED made /\ object' = [object EXCEPT ![current].label = "mine"]
    BY <1>2 DEF ApplyObject
  <2>2. \A r \in Resource : /\ object'[r].uid = object[r].uid
                            /\ object'[r].terminating = object[r].terminating
                            /\ object'[r].label \in {"mine", object[r].label}
    BY <1>1, <2>1 DEF Object
  <2>3. QED
    BY <2>1, <2>2 DEF Rerunning, LabelsKept, UidsMatch, NoneStale, Live
<1>3. CASE ~Live(current)
  <2>1. made' = made \cup {minted + 1} /\ object' = [object EXCEPT ![current] = Fresh("mine")]
    BY <1>3 DEF ApplyObject
  <2>2. /\ object'[current] = [uid |-> minted + 1, label |-> "mine", terminating |-> FALSE]
        /\ minted + 1 # 0
        /\ \A r \in Resource \ {current} : /\ object'[r] = object[r]
                                           /\ object[r].uid # minted + 1
    BY <1>1, <2>1 DEF Fresh, Inductive, UidsBounded, TypeOK, ClusterTypeOK, Object
  <2>3. faults = 0 /\ current \notin Meddled => file[current].uid = 0
    BY <1>1, <1>3 DEF Rerunning, NoneStale, Live, Inductive, Intending
  <2>4. LabelsKept'
    BY <2>1, <2>2 DEF Rerunning, LabelsKept, Live
  <2>5. UidsMatch'
    BY <1>1, <2>1, <2>2, <2>3 DEF Rerunning, UidsMatch
  <2>6. NoneStale'
    BY <2>2, <2>3 DEF Rerunning, NoneStale
  <2>7. QED
    BY <2>4, <2>5, <2>6 DEF Rerunning
<1>4. QED
  BY <1>2, <1>3

LEMMA InstallKeepsRerunning == Inductive /\ Rerunning /\ Install => Rerunning'
<1> SUFFICES ASSUME Inductive, Rerunning, Install PROVE Rerunning'
  OBVIOUS
<1>0. TypeOK
  BY DEF Inductive
<1> USE <1>0, FileStepKeepsRerunning
<1>1. CASE \E S \in SUBSET Resource : S # {} /\ StartInstall(S)
  BY <1>1 DEF StartInstall, clusterVars
<1>2. ASSUME NEW r \in Resource, VerifyInstall(r) PROVE Rerunning'
  BY <1>2 DEF VerifyInstall, clusterVars
<1>3. ASSUME NEW r \in Resource, RefuseInstall(r) PROVE Rerunning'
  BY <1>3 DEF RefuseInstall, Stop, clusterVars
<1>4. ASSUME NEW r \in Resource, Apply(r) PROVE Rerunning'
  <2>1. \A q \in Resource : file'[q] = file[q] \/ file'[q].uid = 0
    BY <1>4 DEF Apply, Intended, TypeOK
  <2>2. QED
    BY <1>4, <2>1 DEF Apply, clusterVars
<1>5. ASSUME NEW r \in Resource, ShareCrd(r) PROVE Rerunning'
  BY <1>5 DEF ShareCrd, clusterVars
<1>6. ASSUME NEW r \in Resource, RefuseApply(r) PROVE Rerunning'
  BY <1>6 DEF RefuseApply, Stop, clusterVars
<1>7. ASSUME NEW r \in Resource, RegisterSecret(r) PROVE Rerunning'
  <2>1. \A q \in Resource : file'[q] = file[q] \/ file'[q].uid = 0
    BY <1>7 DEF RegisterSecret, Intended, TypeOK
  <2>2. UNCHANGED <<object, made, faults>> /\ pc = "apply"
    BY <1>7 DEF RegisterSecret, Stop, clusterVars
  <2>3. QED
    BY <2>1, <2>2
<1>8. CASE BeginApply
  <2>1. \A q \in Resource : file'[q] = file[q] \/ file'[q].uid = 0
    BY <1>8 DEF BeginApply, Intended
  <2>2. QED
    BY <1>8, <2>1 DEF BeginApply, clusterVars
<1>9. CASE KubectlApply
  BY <1>9, ApplyKeepsRerunning DEF KubectlApply, Goto
<1>10. CASE RecordApplied
  <2>1. current \in Resource
    BY <1>10 DEF RecordApplied, TypeOK
  <2>2. /\ \A q \in Resource \ {current} : file'[q] = file[q]
        /\ file'[current] = [status |-> "applied", uid |-> object[current].uid]
    BY <1>10, <2>1 DEF RecordApplied, TypeOK
  <2>3. file'[current].uid = object[current].uid
    BY <2>2
  <2>4. QED
    BY <1>10, <2>2, <2>3 DEF RecordApplied, clusterVars
<1>11. CASE RefuseRecord
  BY <1>11 DEF RefuseRecord, Stop, clusterVars
<1>12. CASE LabelSecret
  BY <1>12, ApplyKeepsRerunning DEF LabelSecret, Goto
<1>13. CASE FinishInstall
  BY <1>13 DEF FinishInstall, Stop, clusterVars
<1>14. QED
  BY <1>1, <1>2, <1>3, <1>4, <1>5, <1>6, <1>7, <1>8, <1>9, <1>10, <1>11, <1>12, <1>13
     DEF Install

LEMMA UninstallKeepsRerunning == Inductive /\ Rerunning /\ Uninstall => Rerunning'
<1> SUFFICES ASSUME Inductive, Rerunning, Uninstall PROVE Rerunning'
  OBVIOUS
<1>0. TypeOK
  BY DEF Inductive
<1> USE <1>0, FileStepKeepsRerunning
<1>1. CASE \E S \in SUBSET Resource, p \in BOOLEAN : S # {} /\ StartUninstall(S, p)
  BY <1>1 DEF StartUninstall, clusterVars
<1>2. ASSUME NEW r \in Resource, VerifyRemoval(r) PROVE Rerunning'
  BY <1>2 DEF VerifyRemoval, clusterVars
<1>3. ASSUME NEW r \in Resource, RefuseRemoval(r) PROVE Rerunning'
  BY <1>3 DEF RefuseRemoval, Stop, clusterVars
<1>4. CASE BeginDelete
  <2>1. \A r \in Resource : file'[r] = file[r] \/ file'[r].uid = 0
    BY <1>4 DEF BeginDelete, TypeOK, Record, Inductive, SparedUnestablished
  <2>2. QED
    BY <1>4, <2>1 DEF BeginDelete, clusterVars
<1>5. ASSUME NEW r \in Resource, DeleteAbsent(r) PROVE Rerunning'
  <2>1. \A q \in Resource : \/ file'[q] = file[q]
                            \/ file'[q].uid = file[q].uid /\ file'[q].status = "deleted"
    BY <1>5 DEF DeleteAbsent, TypeOK, Record
  <2>2. QED
    BY <1>5, <2>1 DEF DeleteAbsent, clusterVars
<1>6. ASSUME NEW r \in Resource, DeleteCheck(r) PROVE Rerunning'
  BY <1>6 DEF DeleteCheck, clusterVars
<1>7. ASSUME NEW r \in Resource, RefuseDelete(r) PROVE Rerunning'
  BY <1>7 DEF RefuseDelete, Stop, clusterVars
<1>8. ASSUME NEW r \in Resource, RetainCrd(r) PROVE Rerunning'
  BY <1>8 DEF RetainCrd, clusterVars
<1>9. CASE DeleteCall
  <2>1. CASE object[current].uid = seen
    <3>1. /\ current \in Resource /\ pc = "deleteCall" /\ pc' = "deleteWait"
          /\ UNCHANGED <<made, file, current, faults>>
      BY <1>9, <2>1 DEF DeleteCall, DeleteObject, Goto, TypeOK
    <3>2. /\ \A r \in Resource \ {current} : object'[r] = object[r]
          /\ \/ object'[current] = Vacant
             \/ /\ object'[current].uid = object[current].uid
                /\ object'[current].label = object[current].label
                /\ object[current].uid # 0
      BY <1>9, <2>1, <3>1 DEF DeleteCall, DeleteObject, Live, TypeOK, ClusterTypeOK, Object
    <3>3. 0 \notin made /\ ~Vacant.terminating /\ Vacant.uid = 0
      BY DEF TypeOK, ClusterTypeOK, Vacant
    <3>4. LabelsKept'
      BY <3>1, <3>2, <3>3 DEF Rerunning, LabelsKept, Live
    <3>5. UidsMatch'
      BY <3>1, <3>2, <3>3 DEF Rerunning, UidsMatch
    <3>6. NoneStale'
      BY <3>1, <3>2 DEF Rerunning, NoneStale
    <3>7. QED
      BY <3>4, <3>5, <3>6 DEF Rerunning
  <2>2. CASE object[current].uid # seen
    BY <1>9, <2>2 DEF DeleteCall, Stop, clusterVars
  <2>3. QED
    BY <2>1, <2>2
<1>10. CASE DeleteWait
  <2>1. /\ current \in Resource
        /\ \A q \in Resource : \/ file'[q] = file[q]
                               \/ file'[q].uid = file[q].uid /\ file'[q].status = "deleted"
        /\ file'[current].status = "deleted"
    BY <1>10 DEF DeleteWait, TypeOK, Record
  <2>2. QED
    BY <1>10, <2>1 DEF DeleteWait, clusterVars
<1>11. CASE FinishUninstall
  BY <1>11 DEF FinishUninstall, Stop, clusterVars
<1>12. QED
  BY <1>1, <1>2, <1>3, <1>4, <1>5, <1>6, <1>7, <1>8, <1>9, <1>10, <1>11 DEF Uninstall

LEMMA FaultKeepsRerunning ==
    ASSUME TypeOK, Rerunning, Fault
    PROVE  Rerunning'
<1>1. faults \in Nat /\ faults' = faults + 1 /\ UNCHANGED <<object, made, file>>
  BY BoundAssumption DEF TypeOK, Fault, clusterVars
<1>2. LabelsKept'
  BY <1>1 DEF Rerunning, LabelsKept, Live
<1>3. UidsMatch'
  BY <1>1 DEF Rerunning, UidsMatch
<1>4. NoneStale'
  BY <1>1 DEF NoneStale
<1>5. QED
  BY <1>2, <1>3, <1>4 DEF Rerunning

LEMMA WorldKeepsRerunning ==
    ASSUME TypeOK, Rerunning, NEW q \in Resource, World(q)
    PROVE  Rerunning'
<1>0. UNCHANGED <<file, pc, current, faults>>
  BY DEF World, cliVars
<1>1. 0 \notin made /\ minted + 1 \notin made /\ minted + 1 # 0
  BY DEF TypeOK, ClusterTypeOK
<1>2. CASE \E label \in Label : Appear(q, label)
  <2>1. /\ UNCHANGED made
        /\ \A r \in Resource \ {q} : object'[r] = object[r]
        /\ object'[q].uid = minted + 1 /\ ~object'[q].terminating
        /\ object[q].uid = 0
    BY <1>2 DEF Appear, Fresh, Live, TypeOK, ClusterTypeOK
  <2>2. LabelsKept'
    BY <1>1, <2>1 DEF Rerunning, LabelsKept, Live
  <2>3. UidsMatch'
    BY <1>0, <1>1, <2>1 DEF Rerunning, UidsMatch
  <2>4. NoneStale'
    BY <1>0, <2>1 DEF Rerunning, NoneStale
  <2>5. QED
    BY <2>2, <2>3, <2>4 DEF Rerunning
<1>3. CASE Vanish(q) /\ (q \in Meddled \/ object[q].terminating)
  <2>1. /\ UNCHANGED made
        /\ \A r \in Resource \ {q} : object'[r] = object[r]
        /\ object'[q].uid = 0 /\ ~object'[q].terminating
    BY <1>3 DEF Vanish, Vacant, TypeOK, ClusterTypeOK
  <2>2. LabelsKept'
    BY <1>1, <2>1 DEF Rerunning, LabelsKept, Live
  <2>3. UidsMatch'
    BY <1>0, <1>1, <2>1 DEF Rerunning, UidsMatch
  <2>4. NoneStale'
    BY <1>0, <1>3, <2>1 DEF Rerunning, NoneStale
  <2>5. QED
    BY <2>2, <2>3, <2>4 DEF Rerunning
<1>4. QED
  BY <1>2, <1>3 DEF World

LEMMA RerunningStep == Inductive /\ Rerunning /\ [Next]_vars => Rerunning'
<1> SUFFICES ASSUME Inductive, Rerunning, [Next]_vars PROVE Rerunning'
  OBVIOUS
<1>0. TypeOK
  BY DEF Inductive
<1>1. CASE Install
  BY <1>1, InstallKeepsRerunning
<1>2. CASE Uninstall
  BY <1>2, UninstallKeepsRerunning
<1>3. CASE Fault
  BY <1>0, <1>3, FaultKeepsRerunning
<1>4. ASSUME NEW r \in Resource, World(r) PROVE Rerunning'
  BY <1>0, <1>4, WorldKeepsRerunning
<1>5. CASE UNCHANGED vars
  BY <1>5 DEF vars, cliVars, clusterVars, Rerunning, LabelsKept, UidsMatch, NoneStale, Live
<1>6. QED
  BY <1>1, <1>2, <1>3, <1>4, <1>5 DEF Next

(***************************************************************************)
(* "rerun after correcting the cause" holds after one failed tool call,    *)
(* timeout or kill, wherever it happens: the next command accepts what was *)
(* created before as its own.  After two it need not (run refused).        *)
(***************************************************************************)
THEOREM RerunAfterOneFault == Spec => [](faults <= 1 => RerunAccepted)
<1>1. Init => Rerunning
  BY DEF Init, ClusterInit, Vacant, NoRecord, Rerunning, LabelsKept, UidsMatch, NoneStale
<1>2. Inductive /\ Rerunning /\ [Next]_vars => Rerunning'
  BY RerunningStep
<1>3. Inductive /\ Rerunning => (faults <= 1 => RerunAccepted)
  <2> SUFFICES ASSUME Rerunning, faults <= 1, pc = "idle",
                      NEW r \in Resource \ Meddled, object[r].uid \in made
               PROVE  Owned(r)
    BY DEF RerunAccepted
  <2>1. QED
    BY DEF Rerunning, LabelsKept, UidsMatch, Owned
<1>4. QED
  BY <1>1, <1>2, <1>3, InductiveHolds, PTL DEF Spec

=============================================================================
