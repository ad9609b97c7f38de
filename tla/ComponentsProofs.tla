-------------------------- MODULE ComponentsProofs --------------------------
(***************************************************************************)
(* Proofs about the lifecycle of components and addons, for any registry,  *)
(* of any number of phases, and any number of commands, failures and kills.*)
(***************************************************************************)
EXTENDS Components, WellFoundedInduction, TLAPS

Installing == {"mark", "begin", "phases", "apply", "wait"}

InstallingAddon == {"addonBind", "addonMark", "addonApply", "addonWait"}

Inactive == Gone \cup {"absent"}

\* The steps belong to their commands, which are at the components last.
Verbs ==
    /\ pc \in Installing \cup InstallingAddon => verb = "install"
    /\ pc \in {"remove", "addonRemove", "addonSave"} => Removing
    /\ pc \in Installing \cup {"remove"} => components = {}

\* What is installed without being worked on is what plan and bind found.
Planned ==
    pc \in Installing => \A c \in acting :
        /\ topology[c] = domain
        /\ \A d \in Closure({c}) \ acting :
            status[d] = "installed" /\ topology[d] \in {NoDomain, domain}

\* The loop of install: the phases behind it are built, those of a component in
\* their order.
Installation ==
    /\ pc \in Installing =>
        /\ \A p \in Phase : p[1] \in acting /\ p \notin todo => built[p] = domain
        /\ \A c \in acting : <<c, Length[c]>> \notin todo => status[c] = "installed"
        /\ \A p \in todo, q \in Phase : q[1] = p[1] /\ p[2] < q[2] => q \in todo
    /\ pc \in {"apply", "wait"} => First(at) /\ status[at[1]] = "installing"
    /\ pc = "wait" => built[at] = domain

\* The loop of uninstall: the phases behind it are gone, and nothing active
\* needs those before it.
Removal ==
    pc = "remove" =>
        /\ \A p \in Phase : p[1] \in acting /\ p \notin todo => built[p] = NoDomain
        /\ \A c \in acting : status[c] = "removing"
        /\ \A c \in Component \ acting :
            status[c] \notin Inactive => Closure({c}) \cap acting = {}

\* An installed component is whole.
Whole == \A p \in Phase : status[p[1]] = "installed" => built[p] # NoDomain

\* The inventory knows which topology a component was built for.
TopologyRecorded == \A p \in Phase : built[p] \in {NoDomain, topology[p[1]]}

\* An addon has its turn after those it uses, or before those it uses.
AddonOrder ==
    /\ verb = "install" =>
        \A a \in addons : \A b \in Uses[a] : b \in addons \/ addonStatus[b] = "installed"
    /\ pc \in InstallingAddon =>
        Uses[which] \cap addons = {} /\ addonStatus[which] = "installing"
    /\ pc \in {"addonRemove", "addonSave"} => addonStatus[which] = "uninstalling"
    /\ pc = "addonSave" => which \notin deployed

\* The agenda of the profile uninstall is everything that is recorded.
Agenda ==
    verb = "uninstallAll" =>
        /\ deployed \subseteq addons
        /\ components # {} => components = Recorded(status, purge)
        /\ \A a \in Addon \ addons : addonStatus[a] \in Inactive
        /\ \A a \in addons :
            addonStatus[a] # "absent" /\ (addonStatus[a] \in Gone => purge)

\* The two halves of Accounted; conversely, what is installed was deployed.
BuiltKnown == \A p \in Phase : built[p] # NoDomain => status[p[1]] \in Started \cup {"removing"}

DeployedKnown ==
    /\ \A a \in deployed : addonStatus[a] \in Started \cup {"uninstalling"}
    /\ \A a \in Addon : addonStatus[a] = "installed" => a \in deployed
    /\ pc = "addonWait" => which \in deployed

Inductive ==
    /\ TypeOK /\ Verbs /\ Planned /\ Installation /\ Removal /\ Whole /\ TopologyRecorded
    /\ Backed /\ OneTopology /\ BuiltKnown /\ DependenciesHeld
    /\ DeployedKnown /\ AddonOrder /\ Agenda /\ AddonsHeld
-----------------------------------------------------------------------------
(***************************************************************************)
(* Lemmas: dependencies and phases.                                        *)
(***************************************************************************)

\* A component is in its own closure, and so is what it needs.
LEMMA ClosureReflexive ==
    ASSUME NEW T \in SUBSET Component, NEW c \in T
    PROVE  c \in Closure(T)
BY DEF Closure

LEMMA ClosureNeeds ==
    ASSUME NEW T, NEW c \in Closure(T), NEW d \in Needs[c]
    PROVE  d \in Closure(T)
BY RegistryAssumption DEF Closure

LEMMA ClosureTransitive ==
    ASSUME NEW T, NEW c \in Closure(T), NEW d \in Closure({c})
    PROVE  d \in Closure(T)
BY DEF Closure

\* The same of addons.
LEMMA AddonClosureUses ==
    ASSUME NEW A \in SUBSET Addon
    PROVE  /\ A \subseteq AddonClosure(A)
           /\ \A a \in AddonClosure(A) : Uses[a] \subseteq AddonClosure(A)
BY RegistryAssumption DEF AddonClosure

\* A phase is a component and a number from 1 to Length.
LEMMA Phases ==
    /\ \A p \in Phase : /\ p[1] \in Component /\ p[2] \in Nat /\ 1 <= p[2] /\ p[2] <= Length[p[1]]
                        /\ p = <<p[1], p[2]>>
    /\ \A c \in Component : <<c, Length[c]>> \in Phase
    /\ \A c \in Component : Length[c] \in Nat
    /\ NoPhase \notin Phase
BY RegistryAssumption DEF Phase

\* No phase comes before itself.
LEMMA BeforeIrreflexive == \A p \in Phase : ~Before(p, p)
BY Phases DEF Before

-----------------------------------------------------------------------------
(***************************************************************************)
(* Lemmas: what the steps do.                                              *)
(***************************************************************************)

Begins ==
    \/ \E C \in SUBSET Component : StartInstall(C)
    \/ \E A \in SUBSET Addon : StartInstallAddons(A)
    \/ \E C \in SUBSET Component, A \in SUBSET Addon : StartInstallProfile(C, A)
    \/ \E C \in SUBSET Component, p \in BOOLEAN : StartUninstall(C, p)
    \/ \E a \in Addon, p \in BOOLEAN : StartUninstallAddon(a, p)
    \/ \E p \in BOOLEAN : StartUninstallProfile(p)

Ends == Finish \/ Refuse \/ Kill

OnAddons ==
    \/ \E a \in addons : InstallAddon(a)
    \/ BindAddon \/ MarkForAddon \/ DeployAddon \/ FinishAddon
    \/ \E a \in addons : RemoveAddon(a)
    \/ DeleteAddon \/ FinishAddonRemoval
    \/ FailAddon

OnComponents ==
    \/ InstallComponents \/ MarkCluster \/ BeginPhases
    \/ \E p \in todo : EnterPhase(p)
    \/ ApplyPhase \/ CompletePhase \/ FinishComponents \/ FailComponents
    \/ RemoveComponents
    \/ \E p \in todo : RemovePhase(p)
    \/ FinishRemoval

LEMMA Steps ==
    ASSUME Next
    PROVE  Begins \/ EditProfile \/ Ends \/ OnAddons \/ OnComponents
BY DEF Next, Operator, Progress, Begins, Ends, OnAddons, OnComponents

\* A command begins with its agenda.
LEMMA BeginsCommand ==
    ASSUME TypeOK, Begins
    PROVE  /\ pc = "idle" /\ pc' = "next"
           /\ verb' \in {"install", "uninstall", "uninstallAll"} /\ purge' \in BOOLEAN
           /\ components' \subseteq Component /\ addons' \subseteq Addon
           /\ verb' = "install" => addons' = {} \/ \E A \in SUBSET Addon : addons' = ToInstall(A)
           /\ verb' = "uninstallAll" =>
                components' = Recorded(status, purge') /\ addons' = Recorded(addonStatus, purge')
           /\ UNCHANGED <<inventory, cluster, domain, work, faults>>
<1>1. ASSUME NEW A \in SUBSET Addon PROVE ToInstall(A) \subseteq Addon
  BY DEF ToInstall, AddonClosure
<1>2. \A p : Recorded(status, p) \subseteq Component /\ Recorded(addonStatus, p) \subseteq Addon
  BY DEF Recorded, TypeOK
<1>3. CASE \/ \E C \in SUBSET Component : StartInstall(C)
           \/ \E A \in SUBSET Addon : StartInstallAddons(A)
           \/ \E C \in SUBSET Component, A \in SUBSET Addon : StartInstallProfile(C, A)
  BY <1>1, <1>3 DEF StartInstall, StartInstallAddons, StartInstallProfile, Start
<1>4. CASE \/ \E C \in SUBSET Component, p \in BOOLEAN : StartUninstall(C, p)
           \/ \E a \in Addon, p \in BOOLEAN : StartUninstallAddon(a, p)
  BY <1>4 DEF StartUninstall, StartUninstallAddon, Start
<1>5. CASE \E p \in BOOLEAN : StartUninstallProfile(p)
  BY <1>2, <1>5 DEF StartUninstallProfile, Start
<1>6. QED
  BY <1>3, <1>4, <1>5 DEF Begins

\* What a command leaves behind when it ends or is killed.
LEMMA EndsQuits ==
    ASSUME TypeOK, Ends
    PROVE  Quit /\ UNCHANGED <<inventory, cluster, domain>> /\ faults' \in 0..MaxFaults
<1>1. CASE Finish \/ Refuse
  BY <1>1 DEF Finish, Refuse, TypeOK
<1>2. CASE Kill
  BY <1>2, RegistryAssumption DEF Kill, TypeOK
<1>3. QED
  BY <1>1, <1>2 DEF Ends

\* Whatever is not about components leaves them as they are.
LEMMA ElsewhereLeaves ==
    ASSUME TypeOK, Begins \/ EditProfile \/ Ends \/ OnAddons
    PROVE  /\ UNCHANGED <<status, topology, built>>
           /\ pc' \notin Installing \cup {"remove"}
<1> USE DEF inventory, cluster, Installing
<1>1. CASE Begins
  BY <1>1, BeginsCommand
<1>2. CASE EditProfile
  BY <1>2 DEF EditProfile
<1>3. CASE Ends
  BY <1>3, EndsQuits DEF Quit
<1>4. CASE OnAddons
  BY <1>4 DEF OnAddons, InstallAddon, BindAddon, MarkForAddon, DeployAddon, FinishAddon,
     RemoveAddon, DeleteAddon, FinishAddonRemoval, FailAddon, Quit
<1>5. QED
  BY <1>1, <1>2, <1>3, <1>4

\* And the other way round.
LEMMA ComponentsLeaveAddons ==
    ASSUME TypeOK, OnComponents
    PROVE  /\ UNCHANGED <<addonStatus, deployed, domain>>
           /\ pc' \notin InstallingAddon \cup {"addonRemove", "addonSave"}
           /\ UNCHANGED <<verb, purge, addons, which>> \/ (verb' = "none" /\ FailComponents)
           /\ UNCHANGED components \/ components' = {}
<1> USE DEF inventory, cluster, command, work, InstallingAddon
<1>1. CASE InstallComponents \/ MarkCluster \/ BeginPhases \/ ApplyPhase \/ CompletePhase
  BY <1>1 DEF InstallComponents, MarkCluster, BeginPhases, ApplyPhase, CompletePhase
<1>2. CASE FinishComponents \/ RemoveComponents \/ FinishRemoval
  BY <1>2 DEF FinishComponents, RemoveComponents, FinishRemoval
<1>3. CASE (\E p \in todo : EnterPhase(p)) \/ \E p \in todo : RemovePhase(p)
  BY <1>3 DEF EnterPhase, RemovePhase
<1>4. CASE FailComponents
  BY <1>4 DEF FailComponents, Quit
<1>5. QED
  BY <1>1, <1>2, <1>3, <1>4 DEF OnComponents

LEMMA EnterPhaseDoes ==
    ASSUME TypeOK, NEW p \in todo, EnterPhase(p)
    PROVE  /\ p \in Phase /\ p[1] \in acting /\ p[1] \in Component
           /\ pc = "phases" /\ pc' = "apply" /\ First(p) /\ at' = p
           /\ status' \in [Component -> Status] /\ status'[p[1]] = "installing"
           /\ \A c \in Component : c # p[1] => status'[c] = status[c]
           /\ UNCHANGED <<topology, addonStatus, overall, bound, cluster, domain, verb, purge,
                          components, addons, acting, todo, which, faults>>
<1>1. p \in Phase /\ p[1] \in acting /\ p[1] \in Component
  BY DEF TypeOK
<1>2. QED
  BY <1>1 DEF EnterPhase, TypeOK, Status, Started

LEMMA ApplyPhaseDoes ==
    ASSUME TypeOK, ApplyPhase
    PROVE  /\ at \in Phase /\ at \in todo /\ at[1] \in acting /\ at[1] \in Component
           /\ pc = "apply" /\ pc' = "wait"
           /\ built' \in [Phase -> Domain \cup {NoDomain}] /\ built'[at] = domain
           /\ \A p \in Phase : p # at => built'[p] = built[p]
           /\ UNCHANGED <<inventory, marker, deployed, domain, command, faults>>
<1>1. at \in Phase /\ at \in todo /\ at[1] \in acting /\ at[1] \in Component
  BY DEF ApplyPhase, TypeOK
<1>2. QED
  BY <1>1 DEF ApplyPhase, TypeOK

LEMMA CompletePhaseDoes ==
    ASSUME TypeOK, CompletePhase
    PROVE  /\ at \in Phase /\ at \in todo /\ at[1] \in acting /\ at[1] \in Component
           /\ pc = "wait" /\ pc' = "phases" /\ todo' = todo \ {at} /\ at' = NoPhase
           /\ status' \in [Component -> Status]
           /\ status'[at[1]] = IF at[2] = Length[at[1]] THEN "installed" ELSE status[at[1]]
           /\ \A c \in Component : c # at[1] => status'[c] = status[c]
           /\ UNCHANGED <<topology, addonStatus, overall, bound, cluster, domain, verb, purge,
                          components, addons, acting, which, faults>>
<1>1. at \in Phase /\ at \in todo /\ at[1] \in acting /\ at[1] \in Component
  BY DEF CompletePhase, TypeOK
<1>2. QED
  BY <1>1 DEF CompletePhase, TypeOK, Status, Started

LEMMA RemovePhaseDoes ==
    ASSUME TypeOK, NEW p \in todo, RemovePhase(p)
    PROVE  /\ p \in Phase /\ p[1] \in acting /\ p[1] \in Component
           /\ pc = "remove" /\ Last(p) /\ todo' = todo \ {p}
           /\ built' \in [Phase -> Domain \cup {NoDomain}] /\ built'[p] = NoDomain
           /\ \A q \in Phase : q # p => built'[q] = built[q]
           /\ UNCHANGED <<inventory, marker, deployed, domain, verb, purge, pc, components, addons,
                          acting, at, which, faults>>
<1>1. p \in Phase /\ p[1] \in acting /\ p[1] \in Component
  BY DEF TypeOK
<1>2. QED
  BY <1>1 DEF RemovePhase, TypeOK

\* The statuses that the other steps set.
LEMMA StatusTypes ==
    ASSUME TypeOK
    PROVE  /\ InstallComponents \/ FinishComponents \/ FailComponents \/ RemoveComponents
                \/ FinishRemoval => status' \in [Component -> Status]
           /\ \A a \in addons : InstallAddon(a) \/ RemoveAddon(a) =>
                a \in Addon /\ addonStatus' \in [Addon -> AddonStatus]
           /\ FinishAddon \/ FinishAddonRemoval \/ FailAddon =>
                which \in addons /\ which \in Addon /\ addonStatus' \in [Addon -> AddonStatus]
<1> USE DEF TypeOK, Status, AddonStatus, Started, Gone
<1>1. InstallComponents \/ FinishComponents => status' \in [Component -> Status]
  BY DEF InstallComponents, FinishComponents
<1>2. FailComponents \/ RemoveComponents => status' \in [Component -> Status]
  BY DEF FailComponents, RemoveComponents
<1>3. FinishRemoval => status' \in [Component -> Status]
  BY DEF FinishRemoval
<1>4. ASSUME NEW a \in addons, InstallAddon(a) \/ RemoveAddon(a)
      PROVE  a \in Addon /\ addonStatus' \in [Addon -> AddonStatus]
  BY <1>4 DEF InstallAddon, RemoveAddon
<1>5. FinishAddon \/ FinishAddonRemoval \/ FailAddon => which \in addons /\ which \in Addon
  BY DEF FinishAddon, FinishAddonRemoval, FailAddon, AddonStep
<1>6. FinishAddon => addonStatus' \in [Addon -> AddonStatus]
  BY <1>5 DEF FinishAddon
<1>7. FinishAddonRemoval => addonStatus' \in [Addon -> AddonStatus]
  BY <1>5 DEF FinishAddonRemoval
<1>8. FailAddon => addonStatus' \in [Addon -> AddonStatus]
  BY <1>5 DEF FailAddon
<1>9. QED
  BY <1>1, <1>2, <1>3, <1>4, <1>5, <1>6, <1>7, <1>8

-----------------------------------------------------------------------------
(***************************************************************************)
(* Lemmas: when a phase has its turn, those before it are built, and for   *)
(* the topology of profile.yaml.                                           *)
(***************************************************************************)

LEMMA ApplyBacked ==
    ASSUME TypeOK, Planned, Installation, Whole, ApplyPhase, NEW q \in Phase, Before(q, at)
    PROVE  built[q] # NoDomain
<1>1. q \notin todo /\ at[1] \in acting /\ pc \in Installing
  BY ApplyPhaseDoes DEF Installation, First, Installing
<1>2. domain # NoDomain
  BY RegistryAssumption DEF TypeOK
<1>3. CASE q[1] \in acting
  BY <1>1, <1>2, <1>3 DEF Installation
<1>4. CASE q[1] \notin acting
  BY <1>1, <1>4 DEF Before, Planned, Whole
<1>5. QED
  BY <1>3, <1>4

LEMMA ApplyTopology ==
    ASSUME TypeOK, Planned, Installation, TopologyRecorded, ApplyPhase,
           NEW q \in Phase, Before(q, at), built[q] # NoDomain
    PROVE  built[q] = domain
<1>1. q \notin todo /\ at[1] \in acting /\ pc \in Installing
  BY ApplyPhaseDoes DEF Installation, First, Installing
<1>2. CASE q[1] \in acting
  BY <1>1, <1>2 DEF Installation
<1>3. CASE q[1] \notin acting
  <2>1. topology[q[1]] \in {NoDomain, domain}
    BY <1>1, <1>3 DEF Before, Planned
  <2>2. QED
    BY <2>1 DEF TopologyRecorded
<1>4. QED
  BY <1>2, <1>3

\* Who says that the installation is gone.
LEMMA OverallStays ==
    ASSUME TypeOK, Next, overall' \in Gone, overall' # overall
    PROVE  FinishRemoval \/ FinishAddonRemoval
<1> SUFFICES ASSUME ~FinishRemoval, ~FinishAddonRemoval PROVE overall' = overall
  OBVIOUS
<1>1. CASE Begins
  BY <1>1, BeginsCommand DEF inventory
<1>2. CASE EditProfile \/ Ends
  BY <1>2, EndsQuits DEF EditProfile, inventory
<1>3. CASE OnAddons
  BY <1>3 DEF OnAddons, InstallAddon, BindAddon, MarkForAddon, DeployAddon, FinishAddon,
     RemoveAddon, DeleteAddon, FailAddon, inventory, Gone
<1>4. CASE OnComponents
  BY <1>4 DEF OnComponents, InstallComponents, MarkCluster, BeginPhases, EnterPhase,
     ApplyPhase, CompletePhase, FinishComponents, FailComponents, RemoveComponents,
     RemovePhase, inventory, Gone
<1>5. QED
  BY <1>1, <1>2, <1>3, <1>4, Steps

-----------------------------------------------------------------------------
(***************************************************************************)
(* Lemmas: each part of the inductive invariant is kept.                   *)
(***************************************************************************)

\* Types.
LEMMA TypeOKKept ==
    ASSUME TypeOK, Verbs, Next
    PROVE  TypeOK'
<1>1. CASE Begins
  BY <1>1, BeginsCommand DEF TypeOK, Step, AddonStep, inventory, cluster, work
<1>2. CASE EditProfile
  BY <1>2 DEF EditProfile, TypeOK, inventory, cluster, command, work
<1>3. CASE Ends
  BY <1>3, EndsQuits DEF Quit, TypeOK, Step, AddonStep, inventory, cluster
<1>4. CASE MarkCluster \/ BeginPhases
  BY <1>4 DEF MarkCluster, command, work, inventory, TypeOK, Step, AddonStep, Overall,
     BeginPhases, cluster
<1>5. CASE InstallComponents
  <2>1. status' \in [Component -> Status]
    BY <1>5, StatusTypes
  <2>2. QED
    BY <1>5, <2>1, RegistryAssumption DEF InstallComponents, cluster, TypeOK, Step, AddonStep,
       Acting, Closure
<1>6. ASSUME NEW p \in todo, EnterPhase(p) PROVE TypeOK'
  <2>1. p # NoPhase
    BY <1>6, EnterPhaseDoes, Phases
  <2>2. QED
    BY <1>6, <2>1, EnterPhaseDoes DEF cluster, TypeOK, Step, AddonStep
<1>7. CASE ApplyPhase
  BY <1>7, ApplyPhaseDoes DEF inventory, cluster, command, work, TypeOK, Step, AddonStep
<1>8. CASE CompletePhase
  BY <1>8, CompletePhaseDoes DEF cluster, TypeOK, Step, AddonStep
<1>9. CASE FinishComponents
  <2>1. status' \in [Component -> Status]
    BY <1>9, StatusTypes
  <2>2. QED
    BY <1>9, <2>1, RegistryAssumption DEF FinishComponents, cluster, TypeOK, Step, AddonStep,
       Overall
<1>10. CASE FailComponents
  <2>1. status' \in [Component -> Status] /\ faults' \in 0..MaxFaults
    BY <1>10, StatusTypes, RegistryAssumption DEF TypeOK, FailComponents
  <2>2. QED
    BY <1>10, <2>1, RegistryAssumption DEF FailComponents, cluster, Quit, TypeOK, Step, AddonStep
<1>11. CASE RemoveComponents
  <2>1. status' \in [Component -> Status]
    BY <1>11, StatusTypes
  <2>2. QED
    BY <1>11, <2>1, RegistryAssumption DEF RemoveComponents, cluster, TypeOK, Step, AddonStep,
       Overall
<1>12. ASSUME NEW p \in todo, RemovePhase(p) PROVE TypeOK'
  BY <1>12, RemovePhaseDoes DEF inventory, TypeOK, Step, AddonStep
<1>13. CASE FinishRemoval
  <2>1. status' \in [Component -> Status]
    BY <1>13, StatusTypes
  <2>2. QED
    BY <1>13, <2>1, RegistryAssumption DEF FinishRemoval, cluster, TypeOK, Step, AddonStep, Overall,
       Remaining, Gone
<1>14. ASSUME NEW a \in addons, InstallAddon(a) PROVE TypeOK'
  <2>1. a \in addons /\ addonStatus' \in [Addon -> AddonStatus]
    BY <1>14, StatusTypes
  <2>2. QED
    BY <1>14, <2>1, RegistryAssumption DEF InstallAddon, cluster, TypeOK, Step, AddonStep
<1>15. CASE BindAddon \/ MarkForAddon
  BY <1>15 DEF BindAddon, command, work, cluster, TypeOK, Step, AddonStep, MarkForAddon,
     inventory
<1>16. CASE DeployAddon
  BY <1>16 DEF DeployAddon, command, work, inventory, TypeOK, Step, AddonStep
<1>17. CASE FinishAddon
  <2>1. which \in addons /\ addonStatus' \in [Addon -> AddonStatus]
    BY <1>17, StatusTypes
  <2>2. QED
    BY <1>17, <2>1, RegistryAssumption DEF FinishAddon, cluster, TypeOK, Step, AddonStep, Overall
<1>18. CASE FailAddon
  <2>1. which \in addons /\ addonStatus' \in [Addon -> AddonStatus] /\ faults' \in 0..MaxFaults
    BY <1>18, StatusTypes, RegistryAssumption DEF TypeOK, FailAddon
  <2>2. QED
    BY <1>18, <2>1, RegistryAssumption DEF FailAddon, cluster, Quit, TypeOK, Step, AddonStep
<1>19. ASSUME NEW a \in addons, RemoveAddon(a) PROVE TypeOK'
  <2>1. a \in addons /\ addonStatus' \in [Addon -> AddonStatus]
    BY <1>19, StatusTypes
  <2>2. QED
    BY <1>19, <2>1, RegistryAssumption DEF RemoveAddon, cluster, TypeOK, Step, AddonStep
<1>20. CASE DeleteAddon
  BY <1>20 DEF DeleteAddon, command, work, inventory, TypeOK, Step, AddonStep
<1>21. CASE FinishAddonRemoval
  <2>1. which \in addons /\ addonStatus' \in [Addon -> AddonStatus]
    BY <1>21, StatusTypes
  <2>2. QED
    BY <1>21, <2>1, RegistryAssumption DEF FinishAddonRemoval, cluster, TypeOK, Step, AddonStep,
       Overall, Remaining, Gone
<1>22. QED
  BY <1>1, <1>2, <1>3, <1>4, <1>5, <1>6, <1>7, <1>8, <1>9, <1>10, <1>11, <1>12, <1>13, <1>14,
     <1>15, <1>16, <1>17, <1>18, <1>19, <1>20, <1>21, Steps DEF OnComponents, OnAddons

\* Each step of a command leads to one of its own.
LEMMA VerbsKept ==
    ASSUME TypeOK, Verbs, Next
    PROVE  Verbs'
<1> USE DEF Verbs, Removing, Installing, InstallingAddon
<1>1. CASE Begins
  BY <1>1, BeginsCommand
<1>2. CASE EditProfile
  BY <1>2 DEF EditProfile, command, work
<1>3. CASE Ends
  BY <1>3, EndsQuits DEF Quit
<1>4. CASE MarkCluster \/ BeginPhases
  BY <1>4 DEF MarkCluster, command, work, inventory, BeginPhases, cluster
<1>5. CASE InstallComponents
  BY <1>5 DEF InstallComponents, cluster
<1>6. ASSUME NEW p \in todo, EnterPhase(p) PROVE Verbs'
  BY <1>6, EnterPhaseDoes DEF cluster
<1>7. CASE ApplyPhase
  BY <1>7, ApplyPhaseDoes DEF inventory, cluster, command, work
<1>8. CASE CompletePhase
  BY <1>8, CompletePhaseDoes DEF cluster
<1>9. CASE FinishComponents
  BY <1>9 DEF FinishComponents, cluster
<1>10. CASE FailComponents
  BY <1>10 DEF FailComponents, cluster, Quit
<1>11. CASE RemoveComponents
  BY <1>11 DEF RemoveComponents, cluster
<1>12. ASSUME NEW p \in todo, RemovePhase(p) PROVE Verbs'
  BY <1>12, RemovePhaseDoes DEF inventory
<1>13. CASE FinishRemoval
  BY <1>13 DEF FinishRemoval, cluster
<1>14. ASSUME NEW a \in addons, InstallAddon(a) PROVE Verbs'
  BY <1>14 DEF InstallAddon, cluster
<1>15. CASE BindAddon \/ MarkForAddon
  BY <1>15 DEF BindAddon, command, work, cluster, MarkForAddon, inventory
<1>16. CASE DeployAddon
  BY <1>16 DEF DeployAddon, command, work, inventory
<1>17. CASE FinishAddon
  BY <1>17 DEF FinishAddon, cluster
<1>18. CASE FailAddon
  BY <1>18 DEF FailAddon, cluster, Quit
<1>19. ASSUME NEW a \in addons, RemoveAddon(a) PROVE Verbs'
  BY <1>19 DEF RemoveAddon, cluster
<1>20. CASE DeleteAddon
  BY <1>20 DEF DeleteAddon, command, work, inventory
<1>21. CASE FinishAddonRemoval
  BY <1>21 DEF FinishAddonRemoval, cluster
<1>22. QED
  BY <1>1, <1>2, <1>3, <1>4, <1>5, <1>6, <1>7, <1>8, <1>9, <1>10, <1>11, <1>12, <1>13, <1>14,
     <1>15, <1>16, <1>17, <1>18, <1>19, <1>20, <1>21, Steps DEF OnComponents, OnAddons

\* plan and bind: what the closure has beyond the agenda is installed, and of this
\* topology.
LEMMA PlannedKept ==
    ASSUME TypeOK, Planned, Next
    PROVE  Planned'
<1> USE DEF Planned, Installing
<1>1. CASE Begins \/ EditProfile \/ Ends \/ OnAddons
  BY <1>1, ElsewhereLeaves
<1>2. CASE MarkCluster \/ BeginPhases
  BY <1>2 DEF MarkCluster, command, work, inventory, BeginPhases, cluster
<1>3. CASE InstallComponents
  <2> SUFFICES ASSUME NEW c \in acting'
               PROVE  /\ topology'[c] = domain
                      /\ \A d \in Closure({c}) \ acting' :
                            status'[d] = "installed" /\ topology'[d] \in {NoDomain, domain}
    BY <1>3 DEF InstallComponents
  <2>1. acting' = Acting(components) /\ c \in Closure(components) /\ c \in Component
    BY <1>3 DEF InstallComponents, Acting, Closure
  <2>2. topology'[c] = domain
    BY <1>3, <2>1 DEF InstallComponents
  <2>3. ASSUME NEW d \in Closure({c}) \ acting'
        PROVE  status'[d] = "installed" /\ topology'[d] \in {NoDomain, domain}
    <3>1. d \in Closure(components) /\ d \in Component
      BY <2>1, <2>3, ClosureTransitive DEF Closure
    <3>2. status[d] = "installed"
      BY <2>1, <2>3, <3>1 DEF Acting
    <3>3. topology[d] \in {NoDomain, domain}
      BY <1>3, <3>1, <3>2 DEF InstallComponents, InstallAccepted, TopologyAccepted, Gone
    <3>4. QED
      BY <1>3, <2>3, <3>1, <3>2, <3>3 DEF InstallComponents
  <2>4. QED
    BY <2>2, <2>3
<1>4. ASSUME NEW p \in todo, EnterPhase(p) PROVE Planned'
  <2>1. \A c \in acting : \A d \in Closure({c}) \ acting : d \in Component /\ d # p[1]
    BY <1>4, EnterPhaseDoes DEF Closure
  <2>2. QED
    BY <1>4, <2>1, EnterPhaseDoes
<1>5. CASE ApplyPhase
  BY <1>5, ApplyPhaseDoes DEF inventory, cluster, command, work
<1>6. CASE CompletePhase
  <2>1. \A c \in acting : \A d \in Closure({c}) \ acting : d \in Component /\ d # at[1]
    BY <1>6, CompletePhaseDoes DEF Closure
  <2>2. QED
    BY <1>6, <2>1, CompletePhaseDoes
<1>7. CASE FinishComponents
  BY <1>7 DEF FinishComponents, cluster
<1>8. CASE FailComponents
  BY <1>8 DEF FailComponents, cluster, Quit
<1>9. CASE RemoveComponents
  BY <1>9 DEF RemoveComponents, cluster
<1>10. ASSUME NEW p \in todo, RemovePhase(p) PROVE Planned'
  BY <1>10, RemovePhaseDoes DEF inventory
<1>11. CASE FinishRemoval
  BY <1>11 DEF FinishRemoval, cluster
<1>12. QED
  BY <1>1, <1>2, <1>3, <1>4, <1>5, <1>6, <1>7, <1>8, <1>9, <1>10, <1>11, Steps DEF OnComponents

\* A phase is left when it is built, and entered when those before it are left.
LEMMA InstallationKept ==
    ASSUME TypeOK, Verbs, Installation, Next
    PROVE  Installation'
<1> USE DEF Installation, Installing, First
<1>1. CASE Begins \/ EditProfile \/ Ends \/ OnAddons
  BY <1>1, ElsewhereLeaves
<1>2. CASE MarkCluster \/ BeginPhases
  BY <1>2 DEF MarkCluster, command, work, inventory, BeginPhases, cluster
<1>3. CASE InstallComponents
  <2>1. /\ todo' = {p \in Phase : p[1] \in acting'} /\ pc' = "mark"
    BY <1>3 DEF InstallComponents
  <2>2. acting' \subseteq Component
    BY <1>3 DEF InstallComponents, Acting, Closure
  <2>3. QED
    BY <2>1, <2>2, Phases
<1>4. ASSUME NEW p \in todo, EnterPhase(p) PROVE Installation'
  <2>1. ASSUME NEW c \in acting, <<c, Length[c]>> \notin todo PROVE status'[c] = "installed"
    <3>1. c \in Component /\ c # p[1]
      <4>1. c \in Component
        BY DEF TypeOK
      <4>2. <<p[1], Length[p[1]]>> \in todo
        BY <1>4, EnterPhaseDoes, Phases
      <4>3. QED
        BY <2>1, <4>1, <4>2
    <3>2. QED
      BY <1>4, <2>1, <3>1, EnterPhaseDoes
  <2>2. QED
    BY <1>4, <2>1, EnterPhaseDoes DEF cluster
<1>5. CASE ApplyPhase
  <2>1. UNCHANGED <<status, acting, todo, at, domain>> /\ pc = "apply" /\ pc' = "wait"
    BY <1>5, ApplyPhaseDoes DEF inventory, command, work
  <2>2. QED
    BY <1>5, <2>1, ApplyPhaseDoes
<1>6. CASE CompletePhase
  <2>1. ASSUME NEW q \in Phase, q[1] \in acting, q \notin todo' PROVE built[q] = domain
    BY <1>6, <2>1, CompletePhaseDoes
  <2>2. ASSUME NEW c \in acting, <<c, Length[c]>> \notin todo' PROVE status'[c] = "installed"
    <3>1. c \in Component
      BY DEF TypeOK
    <3>2. CASE <<c, Length[c]>> = at
      BY <1>6, <3>1, <3>2, CompletePhaseDoes
    <3>3. CASE <<c, Length[c]>> # at
      <4>1. status[c] = "installed"
        BY <1>6, <2>2, <3>3, CompletePhaseDoes
      <4>2. QED
        BY <1>6, <3>1, <4>1, CompletePhaseDoes
    <3>4. QED
      BY <3>2, <3>3
  <2>3. ASSUME NEW q \in todo', NEW r \in Phase, r[1] = q[1], q[2] < r[2] PROVE r \in todo'
    <3>1. q \in todo /\ r \in todo
      BY <1>6, <2>3, CompletePhaseDoes
    <3>2. r # at
      BY <1>6, <2>3, <3>1 DEF Before, CompletePhase
    <3>3. QED
      BY <1>6, <3>1, <3>2, CompletePhaseDoes
  <2>4. QED
    BY <1>6, <2>1, <2>2, <2>3, CompletePhaseDoes DEF cluster
<1>7. CASE FinishComponents
  BY <1>7 DEF FinishComponents, cluster
<1>8. CASE FailComponents
  BY <1>8 DEF FailComponents, cluster, Quit
<1>9. CASE RemoveComponents
  BY <1>9 DEF RemoveComponents, cluster
<1>10. ASSUME NEW p \in todo, RemovePhase(p) PROVE Installation'
  BY <1>10, RemovePhaseDoes DEF inventory
<1>11. CASE FinishRemoval
  BY <1>11 DEF FinishRemoval, cluster
<1>12. QED
  BY <1>1, <1>2, <1>3, <1>4, <1>5, <1>6, <1>7, <1>8, <1>9, <1>10, <1>11, Steps DEF OnComponents

\* Nothing active needs what is removed, and the last phase goes first.
LEMMA RemovalKept ==
    ASSUME TypeOK, Removal, Next
    PROVE  Removal'
<1> USE DEF Removal, Inactive
<1>1. CASE Begins \/ EditProfile \/ Ends \/ OnAddons
  BY <1>1, ElsewhereLeaves
<1>2. CASE MarkCluster \/ BeginPhases
  BY <1>2 DEF MarkCluster, command, work, inventory, BeginPhases, cluster
<1>3. CASE InstallComponents
  BY <1>3 DEF InstallComponents, cluster
<1>4. ASSUME NEW p \in todo, EnterPhase(p) PROVE Removal'
  BY <1>4, EnterPhaseDoes DEF cluster
<1>5. CASE ApplyPhase
  BY <1>5, ApplyPhaseDoes DEF inventory, cluster, command, work
<1>6. CASE CompletePhase
  BY <1>6, CompletePhaseDoes DEF cluster
<1>7. CASE FinishComponents
  BY <1>7 DEF FinishComponents, cluster
<1>8. CASE FailComponents
  BY <1>8 DEF FailComponents, cluster, Quit
<1>9. CASE RemoveComponents
  BY <1>9 DEF RemoveComponents, cluster, RemovalAccepted, TypeOK
<1>10. ASSUME NEW p \in todo, RemovePhase(p) PROVE Removal'
  BY <1>10, RemovePhaseDoes DEF inventory
<1>11. CASE FinishRemoval
  BY <1>11 DEF FinishRemoval, cluster
<1>12. QED
  BY <1>1, <1>2, <1>3, <1>4, <1>5, <1>6, <1>7, <1>8, <1>9, <1>10, <1>11, Steps DEF OnComponents

\* Installed means that every phase was built.
LEMMA WholeKept ==
    ASSUME TypeOK, Verbs, Planned, Installation, Removal, Whole, Next
    PROVE  Whole'
<1> USE DEF Whole
<1>1. CASE Begins \/ EditProfile \/ Ends \/ OnAddons
  BY <1>1, ElsewhereLeaves
<1>2. CASE MarkCluster \/ BeginPhases
  BY <1>2 DEF MarkCluster, command, work, inventory, BeginPhases, cluster
<1>3. CASE InstallComponents
  <2>1. \A q \in Phase : status'[q[1]] = "installed" => status[q[1]] = "installed"
    BY <1>3, Phases DEF InstallComponents
  <2>2. QED
    BY <1>3, <2>1 DEF InstallComponents, cluster
<1>4. ASSUME NEW p \in todo, EnterPhase(p) PROVE Whole'
  <2>1. \A q \in Phase : status'[q[1]] = "installed" => status[q[1]] = "installed"
    BY <1>4, EnterPhaseDoes, Phases
  <2>2. QED
    BY <1>4, <2>1, EnterPhaseDoes DEF cluster
<1>5. CASE ApplyPhase
  <2>1. domain # NoDomain
    BY RegistryAssumption DEF TypeOK
  <2>2. QED
    BY <1>5, <2>1, ApplyPhaseDoes DEF inventory
<1>6. CASE CompletePhase
  <2> SUFFICES ASSUME NEW q \in Phase, status'[q[1]] = "installed" PROVE built[q] # NoDomain
    BY <1>6, CompletePhaseDoes DEF cluster
  <2>1. domain # NoDomain
    BY RegistryAssumption DEF TypeOK
  <2>2. CASE q[1] # at[1] \/ status[q[1]] = "installed"
    BY <1>6, <2>2, CompletePhaseDoes, Phases
  <2>3. CASE q[1] = at[1] /\ status[q[1]] # "installed"
    <3>1. at[2] = Length[at[1]] /\ built[at] = domain /\ at[1] \in acting
      BY <1>6, <2>3, CompletePhaseDoes DEF Installation
    <3>2. CASE q = at
      BY <2>1, <3>1, <3>2
    <3>3. CASE q # at
      <4>1. q[2] < at[2]
        BY <1>6, <2>3, <3>1, <3>3, CompletePhaseDoes, Phases
      <4>2. q \notin todo
        BY <1>6, <2>3, <4>1 DEF CompletePhase, Installation, First, Before
      <4>3. QED
        BY <1>6, <2>1, <2>3, <3>1, <4>2 DEF CompletePhase, Installation, Installing
    <3>4. QED
      BY <3>2, <3>3
  <2>4. QED
    BY <2>2, <2>3
<1>7. CASE FinishComponents
  BY <1>7 DEF FinishComponents, cluster, Installation, Installing, TypeOK
<1>8. CASE FailComponents
  <2>1. \A q \in Phase : status'[q[1]] = "installed" => status[q[1]] = "installed"
    BY <1>8, Phases DEF FailComponents
  <2>2. QED
    BY <1>8, <2>1 DEF FailComponents, cluster
<1>9. CASE RemoveComponents
  <2>1. \A q \in Phase : status'[q[1]] = "installed" => status[q[1]] = "installed"
    BY <1>9, Phases DEF RemoveComponents
  <2>2. QED
    BY <1>9, <2>1 DEF RemoveComponents, cluster
<1>10. ASSUME NEW p \in todo, RemovePhase(p) PROVE Whole'
  <2>1. status[p[1]] = "removing"
    BY <1>10, RemovePhaseDoes DEF Removal
  <2>2. QED
    BY <1>10, <2>1, RemovePhaseDoes DEF inventory
<1>11. CASE FinishRemoval
  <2>1. \A q \in Phase : status'[q[1]] = "installed" => status[q[1]] = "installed"
    BY <1>11, Phases DEF FinishRemoval
  <2>2. QED
    BY <1>11, <2>1 DEF FinishRemoval, cluster
<1>12. QED
  BY <1>1, <1>2, <1>3, <1>4, <1>5, <1>6, <1>7, <1>8, <1>9, <1>10, <1>11, Steps DEF OnComponents

\* What is built is active.
LEMMA BuiltKnownKept ==
    ASSUME TypeOK, Installation, Removal, BuiltKnown, Next
    PROVE  BuiltKnown'
<1> USE DEF BuiltKnown, Started
<1>1. CASE Begins \/ EditProfile \/ Ends \/ OnAddons
  BY <1>1, ElsewhereLeaves
<1>2. CASE MarkCluster \/ BeginPhases
  BY <1>2 DEF MarkCluster, command, work, inventory, BeginPhases, cluster
<1>3. CASE InstallComponents
  <2>1. \A q \in Phase : status'[q[1]] = status[q[1]] \/ status[q[1]] = "absent"
    BY <1>3, Phases DEF InstallComponents
  <2>2. QED
    BY <1>3, <2>1 DEF InstallComponents, cluster
<1>4. ASSUME NEW p \in todo, EnterPhase(p) PROVE BuiltKnown'
  <2>1. \A q \in Phase : status'[q[1]] \in {status[q[1]], "installing"}
    BY <1>4, EnterPhaseDoes, Phases
  <2>2. QED
    BY <1>4, <2>1, EnterPhaseDoes DEF cluster
<1>5. CASE ApplyPhase
  <2>1. status[at[1]] = "installing"
    BY <1>5 DEF ApplyPhase, Installation
  <2>2. QED
    BY <1>5, <2>1, ApplyPhaseDoes DEF inventory
<1>6. CASE CompletePhase
  <2>1. \A q \in Phase : status'[q[1]] \in {status[q[1]], "installed"}
    BY <1>6, CompletePhaseDoes, Phases
  <2>2. QED
    BY <1>6, <2>1, CompletePhaseDoes DEF cluster
<1>7. CASE FinishComponents
  <2>1. \A q \in Phase : status'[q[1]] \in {status[q[1]], "installed"}
    BY <1>7, Phases DEF FinishComponents
  <2>2. QED
    BY <1>7, <2>1 DEF FinishComponents, cluster
<1>8. CASE FailComponents
  <2>1. \A q \in Phase : status'[q[1]] \in {status[q[1]], "failed"}
    BY <1>8, Phases DEF FailComponents
  <2>2. QED
    BY <1>8, <2>1 DEF FailComponents, cluster
<1>9. CASE RemoveComponents
  <2>1. \A q \in Phase : status'[q[1]] \in {status[q[1]], "removing"}
    BY <1>9, Phases DEF RemoveComponents
  <2>2. QED
    BY <1>9, <2>1 DEF RemoveComponents, cluster
<1>10. ASSUME NEW p \in todo, RemovePhase(p) PROVE BuiltKnown'
  BY <1>10, RemovePhaseDoes DEF inventory
<1>11. CASE FinishRemoval
  <2>1. \A q \in Phase : q[1] \in acting \/ status'[q[1]] = status[q[1]]
    BY <1>11, Phases DEF FinishRemoval
  <2>2. \A q \in Phase : q[1] \in acting => built[q] = NoDomain
    BY <1>11 DEF FinishRemoval, Removal
  <2>3. QED
    BY <1>11, <2>1, <2>2 DEF FinishRemoval, cluster
<1>12. QED
  BY <1>1, <1>2, <1>3, <1>4, <1>5, <1>6, <1>7, <1>8, <1>9, <1>10, <1>11, Steps DEF OnComponents

\* A component changes its topology only when nothing of it is built.
LEMMA TopologyRecordedKept ==
    ASSUME TypeOK, Planned, Installation, BuiltKnown, TopologyRecorded, Next
    PROVE  TopologyRecorded'
<1> USE DEF TopologyRecorded
<1>1. CASE Begins \/ EditProfile \/ Ends \/ OnAddons
  BY <1>1, ElsewhereLeaves
<1>2. CASE MarkCluster \/ BeginPhases
  BY <1>2 DEF MarkCluster, command, work, inventory, BeginPhases, cluster
<1>3. CASE InstallComponents
  <2> SUFFICES ASSUME NEW q \in Phase PROVE built[q] \in {NoDomain, topology'[q[1]]}
    BY <1>3 DEF InstallComponents, cluster
  <2>1. CASE q[1] \in acting'
    <3>1. q[1] \in Closure(components) /\ topology'[q[1]] = domain
      BY <1>3, <2>1, Phases DEF InstallComponents, Acting
    <3>2. topology[q[1]] \in {NoDomain, domain} \/ status[q[1]] \in Gone
      BY <1>3, <3>1 DEF InstallComponents, InstallAccepted, TopologyAccepted
    <3>3. status[q[1]] \in Gone => built[q] = NoDomain
      BY DEF BuiltKnown, Gone, Started
    <3>4. QED
      BY <3>1, <3>2, <3>3
  <2>2. CASE q[1] \notin acting'
    BY <1>3, <2>2, Phases DEF InstallComponents
  <2>3. QED
    BY <2>1, <2>2
<1>4. ASSUME NEW p \in todo, EnterPhase(p) PROVE TopologyRecorded'
  BY <1>4, EnterPhaseDoes DEF cluster
<1>5. CASE ApplyPhase
  <2>1. topology[at[1]] = domain
    BY <1>5, ApplyPhaseDoes DEF Planned, Installing
  <2>2. QED
    BY <1>5, <2>1, ApplyPhaseDoes DEF inventory
<1>6. CASE CompletePhase
  BY <1>6, CompletePhaseDoes DEF cluster
<1>7. CASE FinishComponents
  BY <1>7 DEF FinishComponents, cluster
<1>8. CASE FailComponents
  BY <1>8 DEF FailComponents, cluster, Quit
<1>9. CASE RemoveComponents
  BY <1>9 DEF RemoveComponents, cluster
<1>10. ASSUME NEW p \in todo, RemovePhase(p) PROVE TopologyRecorded'
  BY <1>10, RemovePhaseDoes DEF inventory
<1>11. CASE FinishRemoval
  BY <1>11 DEF FinishRemoval, cluster
<1>12. QED
  BY <1>1, <1>2, <1>3, <1>4, <1>5, <1>6, <1>7, <1>8, <1>9, <1>10, <1>11, Steps DEF OnComponents

\* The phases before one that is built are built.
LEMMA BackedKept ==
    ASSUME TypeOK, Verbs, Planned, Installation, Removal, Whole, TopologyRecorded, BuiltKnown,
           Backed, Next
    PROVE  Backed'
<1> USE DEF Backed
<1>1. CASE Begins \/ EditProfile \/ Ends \/ OnAddons
  BY <1>1, ElsewhereLeaves DEF Before
<1>2. CASE MarkCluster \/ BeginPhases
  BY <1>2 DEF MarkCluster, command, work, inventory, BeginPhases, cluster
<1>3. CASE InstallComponents
  BY <1>3 DEF InstallComponents, cluster
<1>4. ASSUME NEW p \in todo, EnterPhase(p) PROVE Backed'
  BY <1>4, EnterPhaseDoes DEF cluster
<1>5. CASE ApplyPhase
  <2>1. \A q \in Phase : Before(q, at) => built[q] # NoDomain
    BY <1>5, ApplyBacked
  <2>2. domain # NoDomain
    BY RegistryAssumption DEF TypeOK
  <2>3. \A q \in Phase : built[q] # NoDomain => built'[q] # NoDomain
    BY <1>5, <2>2, ApplyPhaseDoes
  <2>4. \A q \in Phase : q # at => built'[q] = built[q]
    BY <1>5, ApplyPhaseDoes
  <2>5. \A p, q : Before(q, p)' <=> Before(q, p)
    BY DEF Before
  <2>6. QED
    BY <2>1, <2>3, <2>4, <2>5
<1>6. CASE CompletePhase
  BY <1>6, CompletePhaseDoes DEF cluster
<1>7. CASE FinishComponents
  BY <1>7 DEF FinishComponents, cluster
<1>8. CASE FailComponents
  BY <1>8 DEF FailComponents, cluster, Quit
<1>9. CASE RemoveComponents
  BY <1>9 DEF RemoveComponents, cluster
<1>10. ASSUME NEW p \in todo, RemovePhase(p) PROVE Backed'
  <2> SUFFICES ASSUME NEW r \in Phase, r # p, Before(p, r), built[r] # NoDomain PROVE FALSE
    BY <1>10, RemovePhaseDoes
  <2>1. CASE r[1] \in acting
    BY <1>10, <2>1, RemovePhaseDoes DEF Last, Removal
  <2>2. CASE r[1] \notin acting
    <3>1. p[1] \in Closure({r[1]}) /\ p[1] \in acting
      BY <1>10, <2>2, RemovePhaseDoes DEF Before
    <3>2. status[r[1]] \notin Inactive
      BY DEF BuiltKnown, Started, Inactive, Gone
    <3>3. QED
      BY <1>10, <2>2, <3>1, <3>2, RemovePhaseDoes, Phases DEF Removal
  <2>3. QED
    BY <2>1, <2>2
<1>11. CASE FinishRemoval
  BY <1>11 DEF FinishRemoval, cluster
<1>12. QED
  BY <1>1, <1>2, <1>3, <1>4, <1>5, <1>6, <1>7, <1>8, <1>9, <1>10, <1>11, Steps DEF OnComponents

\* What is built next to each other is built for one topology.
LEMMA OneTopologyKept ==
    ASSUME TypeOK, Verbs, Planned, Installation, Removal, Whole, TopologyRecorded, BuiltKnown,
           Backed, OneTopology, Next
    PROVE  OneTopology'
<1> USE DEF OneTopology
<1>1. CASE Begins \/ EditProfile \/ Ends \/ OnAddons
  BY <1>1, ElsewhereLeaves
<1>2. CASE MarkCluster \/ BeginPhases
  BY <1>2 DEF MarkCluster, command, work, inventory, BeginPhases, cluster
<1>3. CASE InstallComponents
  BY <1>3 DEF InstallComponents, cluster
<1>4. ASSUME NEW p \in todo, EnterPhase(p) PROVE OneTopology'
  BY <1>4, EnterPhaseDoes DEF cluster
<1>5. CASE ApplyPhase
  <2>1. topology[at[1]] = domain /\ at \in Phase
    BY <1>5, ApplyPhaseDoes DEF Planned, Installing
  <2>2. ASSUME NEW q \in Phase, Before(q, at), built[q] # NoDomain PROVE built[q] = domain
    BY <1>5, <2>2, ApplyTopology
  <2>3. ASSUME NEW r \in Phase, Before(at, r), built[r] # NoDomain PROVE built[r] = domain
    <3>1. built[at] # NoDomain
      BY <2>1, <2>3 DEF Backed
    <3>2. built[at] = domain
      BY <2>1, <3>1 DEF TopologyRecorded
    <3>3. QED
      BY <2>1, <2>3, <3>1, <3>2
  <2>4. QED
    BY <1>5, <2>1, <2>2, <2>3, ApplyPhaseDoes, BeforeIrreflexive
<1>6. CASE CompletePhase
  BY <1>6, CompletePhaseDoes DEF cluster
<1>7. CASE FinishComponents
  BY <1>7 DEF FinishComponents, cluster
<1>8. CASE FailComponents
  BY <1>8 DEF FailComponents, cluster, Quit
<1>9. CASE RemoveComponents
  BY <1>9 DEF RemoveComponents, cluster
<1>10. ASSUME NEW p \in todo, RemovePhase(p) PROVE OneTopology'
  <2>1. \A q \in Phase : built'[q] # NoDomain => built[q] # NoDomain /\ built'[q] = built[q]
    BY <1>10, RemovePhaseDoes
  <2>2. QED
    BY <2>1
<1>11. CASE FinishRemoval
  BY <1>11 DEF FinishRemoval, cluster
<1>12. QED
  BY <1>1, <1>2, <1>3, <1>4, <1>5, <1>6, <1>7, <1>8, <1>9, <1>10, <1>11, Steps DEF OnComponents

\* A component is installed after, and removed before, what it needs.
LEMMA DependenciesHeldKept ==
    ASSUME TypeOK, Planned, Installation, Removal, DependenciesHeld, Next
    PROVE  DependenciesHeld'
<1> USE DEF DependenciesHeld
<1>1. CASE Begins \/ EditProfile \/ Ends \/ OnAddons
  BY <1>1, ElsewhereLeaves
<1>2. CASE MarkCluster \/ BeginPhases
  BY <1>2 DEF MarkCluster, command, work, inventory, BeginPhases, cluster
<1>3. CASE InstallComponents
  <2>1. \A c \in Component : status'[c] \in Started <=> status[c] \in Started
    BY <1>3 DEF InstallComponents, Started
  <2>2. \A c \in Component : Needs[c] \subseteq Component
    BY RegistryAssumption
  <2>3. QED
    BY <2>1, <2>2
<1>4. ASSUME NEW p \in todo, EnterPhase(p) PROVE DependenciesHeld'
  <2> SUFFICES ASSUME NEW c \in Component, status'[c] \in Started, NEW d \in Needs[c]
               PROVE  status'[d] \in Started
    OBVIOUS
  <2>0. d \in Component /\ "installing" \in Started /\ "installed" \in Started
    BY RegistryAssumption DEF Started
  <2>1. CASE c # p[1] \/ d = p[1]
    BY <1>4, <2>0, <2>1, EnterPhaseDoes
  <2>2. CASE c = p[1] /\ d # p[1]
    <3>1. d \in Closure({c})
      BY ClosureReflexive, ClosureNeeds
    <3>2. status[d] = "installed"
      <4>1. CASE d \in acting
        <5>1. <<d, Length[d]>> \in Phase
          BY <2>0, Phases
        <5>2. Before(<<d, Length[d]>>, p)
          BY <2>2, <3>1 DEF Before
        <5>3. QED
          BY <1>4, <4>1, <5>1, <5>2, EnterPhaseDoes DEF Installation, Installing, First
      <4>2. CASE d \notin acting
        BY <1>4, <2>2, <3>1, <4>2, EnterPhaseDoes DEF Planned, Installing
      <4>3. QED
        BY <4>1, <4>2
    <3>3. QED
      BY <1>4, <2>0, <2>2, <3>2, EnterPhaseDoes
  <2>3. QED
    BY <2>1, <2>2
<1>5. CASE ApplyPhase
  BY <1>5, ApplyPhaseDoes DEF inventory, cluster, command, work
<1>6. CASE CompletePhase
  <2>1. status[at[1]] = "installing" /\ at[1] \in Component
    BY <1>6, CompletePhaseDoes DEF Installation
  <2>2. \A c \in Component : status'[c] \in Started <=> status[c] \in Started
    BY <1>6, <2>1, CompletePhaseDoes DEF Started
  <2>3. \A c \in Component : Needs[c] \subseteq Component
    BY RegistryAssumption
  <2>4. QED
    BY <2>2, <2>3
<1>7. CASE FinishComponents
  <2>1. \A c \in acting : status[c] = "installed"
    BY <1>7 DEF FinishComponents, Installation, Installing
  <2>2. \A c \in Component : status'[c] = status[c]
    BY <1>7, <2>1 DEF FinishComponents
  <2>3. \A c \in Component : Needs[c] \subseteq Component
    BY RegistryAssumption
  <2>4. QED
    BY <2>2, <2>3
<1>8. CASE FailComponents
  <2>1. \A c \in Component : status'[c] \in Started <=> status[c] \in Started
    BY <1>8 DEF FailComponents, Started
  <2>2. \A c \in Component : Needs[c] \subseteq Component
    BY RegistryAssumption
  <2>3. QED
    BY <2>1, <2>2
<1>9. CASE RemoveComponents
  <2> SUFFICES ASSUME NEW c \in Component, status'[c] \in Started, NEW d \in Needs[c]
               PROVE  status'[d] \in Started
    OBVIOUS
  <2>1. c \notin components /\ status[c] \in Started
    BY <1>9 DEF RemoveComponents, Started
  <2>2. Closure({c}) \cap components = {}
    BY <1>9, <2>1 DEF RemoveComponents, RemovalAccepted, Started, Gone
  <2>3. d \in Closure({c}) /\ d \in Component
    BY ClosureReflexive, ClosureNeeds, RegistryAssumption
  <2>4. QED
    BY <1>9, <2>1, <2>2, <2>3 DEF RemoveComponents
<1>10. ASSUME NEW p \in todo, RemovePhase(p) PROVE DependenciesHeld'
  BY <1>10, RemovePhaseDoes DEF inventory
<1>11. CASE FinishRemoval
  <2> SUFFICES ASSUME NEW c \in Component, status'[c] \in Started, NEW d \in Needs[c]
               PROVE  status'[d] \in Started
    OBVIOUS
  <2>1. c \notin acting /\ status[c] \in Started
    BY <1>11 DEF FinishRemoval, Started
  <2>2. status[d] \in Started /\ d \in Component
    BY <2>1, RegistryAssumption
  <2>3. d \notin acting
    BY <1>11, <2>2 DEF FinishRemoval, Removal, Started
  <2>4. QED
    BY <1>11, <2>2, <2>3 DEF FinishRemoval
<1>12. QED
  BY <1>1, <1>2, <1>3, <1>4, <1>5, <1>6, <1>7, <1>8, <1>9, <1>10, <1>11, Steps DEF OnComponents

\* What an addon deploys is accounted for.
LEMMA DeployedKnownKept ==
    ASSUME TypeOK, Verbs, AddonOrder, DeployedKnown, Next
    PROVE  DeployedKnown'
<1> USE DEF DeployedKnown, Started
<1>1. CASE Begins
  BY <1>1, BeginsCommand DEF inventory, cluster
<1>2. CASE EditProfile
  BY <1>2 DEF EditProfile, inventory, cluster, command, work
<1>3. CASE Ends
  BY <1>3, EndsQuits DEF Quit, inventory, cluster
<1>4. CASE OnComponents
  BY <1>4, ComponentsLeaveAddons DEF InstallingAddon
<1>5. ASSUME NEW a \in addons, InstallAddon(a) PROVE DeployedKnown'
  BY <1>5 DEF InstallAddon, cluster, TypeOK
<1>6. CASE BindAddon \/ MarkForAddon
  BY <1>6 DEF BindAddon, command, work, cluster, MarkForAddon, inventory
<1>7. CASE DeployAddon
  BY <1>7 DEF DeployAddon, command, work, inventory, AddonOrder, InstallingAddon
<1>8. CASE FinishAddon
  BY <1>8 DEF FinishAddon, cluster, TypeOK
<1>9. CASE FailAddon
  BY <1>9 DEF FailAddon, cluster, Quit, TypeOK
<1>10. ASSUME NEW a \in addons, RemoveAddon(a) PROVE DeployedKnown'
  BY <1>10 DEF RemoveAddon, cluster, TypeOK
<1>11. CASE DeleteAddon
  BY <1>11 DEF DeleteAddon, command, work, inventory, AddonOrder, TypeOK
<1>12. CASE FinishAddonRemoval
  <2>1. which \notin deployed
    BY <1>12 DEF FinishAddonRemoval, AddonOrder
  <2>2. QED
    BY <1>12, <2>1 DEF FinishAddonRemoval, cluster, TypeOK
<1>13. QED
  BY <1>1, <1>2, <1>3, <1>4, <1>5, <1>6, <1>7, <1>8, <1>9, <1>10, <1>11, <1>12,
     Steps DEF OnAddons

\* An addon has its turn after those it uses, or before them.
LEMMA AddonOrderKept ==
    ASSUME TypeOK, Verbs, AddonOrder, Next
    PROVE  AddonOrder'
<1> USE DEF AddonOrder, InstallingAddon
<1>1. CASE Begins
  <2>1. CASE verb' = "install"
    <3>1. CASE addons' = {}
      BY <1>1, <2>1, <3>1, BeginsCommand
    <3>2. ASSUME NEW A \in SUBSET Addon, addons' = ToInstall(A)
          PROVE  \A a \in addons' : \A b \in Uses[a] : b \in addons' \/ addonStatus[b] = "installed"
      BY <3>2, AddonClosureUses DEF ToInstall
    <3>3. QED
      BY <1>1, <2>1, <3>1, <3>2, BeginsCommand DEF inventory
  <2>2. QED
    BY <1>1, <2>1, BeginsCommand DEF inventory, cluster
<1>2. CASE EditProfile
  BY <1>2 DEF EditProfile, inventory, cluster, command, work
<1>3. CASE Ends
  BY <1>3, EndsQuits DEF Quit, inventory, cluster
<1>4. CASE OnComponents
  BY <1>4, ComponentsLeaveAddons DEF FailComponents, InstallingAddon, Quit
<1>5. ASSUME NEW a \in addons, InstallAddon(a) PROVE AddonOrder'
  BY <1>5 DEF InstallAddon, cluster, AddonFirst, TypeOK, Removing
<1>6. CASE BindAddon \/ MarkForAddon
  BY <1>6 DEF BindAddon, command, work, cluster, MarkForAddon, inventory
<1>7. CASE DeployAddon
  BY <1>7 DEF DeployAddon, command, work, inventory
<1>8. CASE FinishAddon
  BY <1>8 DEF FinishAddon, cluster, TypeOK
<1>9. CASE FailAddon
  BY <1>9 DEF FailAddon, cluster, Quit, TypeOK
<1>10. ASSUME NEW a \in addons, RemoveAddon(a) PROVE AddonOrder'
  BY <1>10 DEF RemoveAddon, cluster, TypeOK
<1>11. CASE DeleteAddon
  BY <1>11 DEF DeleteAddon, command, work, inventory
<1>12. CASE FinishAddonRemoval
  BY <1>12 DEF FinishAddonRemoval, cluster, TypeOK, Verbs, Removing
<1>13. QED
  BY <1>1, <1>2, <1>3, <1>4, <1>5, <1>6, <1>7, <1>8, <1>9, <1>10, <1>11, <1>12,
     Steps DEF OnAddons

\* Nothing comes back while the profile is uninstalled.
LEMMA AgendaKept ==
    ASSUME TypeOK, Verbs, AddonOrder, DeployedKnown, Agenda, Next
    PROVE  Agenda'
<1> USE DEF Agenda, Inactive, InstallingAddon, Removing
<1>1. CASE Begins
  <2>1. CASE verb' = "uninstallAll"
    <3>1. UNCHANGED <<status, addonStatus, deployed>> /\ purge' \in BOOLEAN
      BY <1>1, BeginsCommand DEF inventory, cluster
    <3>2. components' = Recorded(status, purge') /\ addons' = Recorded(addonStatus, purge')
      BY <1>1, <2>1, BeginsCommand
    <3>3. \A a \in Addon : a \in addons' <=>
            addonStatus[a] \notin (IF purge' THEN {"absent", "purged"} ELSE {"absent"} \cup Gone)
      BY <3>2 DEF Recorded, TypeOK
    <3>4. deployed \subseteq Addon /\ addons' \subseteq Addon
      BY <1>1, BeginsCommand DEF TypeOK
    <3>5. QED
      BY <3>1, <3>2, <3>3, <3>4 DEF DeployedKnown, Started, Gone
  <2>2. QED
    BY <2>1
<1>2. CASE EditProfile
  BY <1>2 DEF EditProfile, inventory, cluster, command, work
<1>3. CASE Ends
  BY <1>3, EndsQuits DEF Quit, inventory, cluster
<1>4. CASE OnComponents
  <2>1. CASE verb' = "uninstallAll"
    <3>1. components' # {} => components' = components /\ status' = status
      BY <1>4, <2>1 DEF OnComponents, InstallComponents, MarkCluster, BeginPhases, EnterPhase,
         ApplyPhase, CompletePhase, FinishComponents, FailComponents, RemoveComponents,
         RemovePhase, FinishRemoval, Verbs, Installing, Quit, inventory, command
    <3>2. QED
      BY <1>4, <2>1, <3>1, ComponentsLeaveAddons
  <2>2. QED
    BY <2>1
<1>5. ASSUME NEW a \in addons, InstallAddon(a) PROVE Agenda'
  BY <1>5 DEF InstallAddon, cluster, TypeOK, Verbs
<1>6. CASE BindAddon \/ MarkForAddon
  BY <1>6 DEF BindAddon, command, work, cluster, MarkForAddon, inventory
<1>7. CASE DeployAddon
  BY <1>7 DEF DeployAddon, command, work, inventory, TypeOK, Verbs
<1>8. CASE FinishAddon
  BY <1>8 DEF FinishAddon, cluster, TypeOK, Verbs
<1>9. CASE FailAddon
  BY <1>9 DEF FailAddon, cluster, Quit, TypeOK, Verbs
<1>10. ASSUME NEW a \in addons, RemoveAddon(a) PROVE Agenda'
  <2>1. /\ addonStatus'[a] = "uninstalling" /\ a \in Addon
        /\ \A b \in Addon : b # a => addonStatus'[b] = addonStatus[b]
        /\ UNCHANGED <<verb, purge, components, addons, status, deployed>>
    BY <1>10 DEF RemoveAddon, TypeOK, cluster
  <2>2. QED
    BY <2>1 DEF Gone, TypeOK
<1>11. CASE DeleteAddon
  BY <1>11 DEF DeleteAddon, command, work, inventory, TypeOK, Verbs
<1>12. CASE FinishAddonRemoval
  <2>1. /\ which \in Addon /\ which \in addons /\ addons' = addons \ {which}
        /\ UNCHANGED <<verb, purge, components, status, deployed>>
    BY <1>12, StatusTypes DEF FinishAddonRemoval, cluster
  <2>2. addonStatus'[which] \in Gone
    BY <1>12, <2>1 DEF FinishAddonRemoval, TypeOK, Gone
  <2>3. \A b \in Addon : b # which => addonStatus'[b] = addonStatus[b]
    BY <1>12 DEF FinishAddonRemoval, TypeOK
  <2>4. which \notin deployed
    BY <1>12 DEF FinishAddonRemoval, AddonOrder
  <2>5. QED
    BY <2>1, <2>2, <2>3, <2>4 DEF TypeOK
<1>13. QED
  BY <1>1, <1>2, <1>3, <1>4, <1>5, <1>6, <1>7, <1>8, <1>9, <1>10, <1>11, <1>12,
     Steps DEF OnAddons

\* An addon is deployed when those it uses are installed, and removed before
\* them.
LEMMA AddonsHeldKept ==
    ASSUME TypeOK, Verbs, AddonOrder, DeployedKnown, AddonsHeld, Next
    PROVE  AddonsHeld'
<1> USE DEF AddonsHeld, Started
<1>0. deployed \subseteq Addon /\ \A a \in Addon : Uses[a] \subseteq Addon
  BY RegistryAssumption DEF TypeOK
<1>1. CASE Begins
  BY <1>1, BeginsCommand DEF inventory, cluster
<1>2. CASE EditProfile
  BY <1>2 DEF EditProfile, inventory, cluster, command, work
<1>3. CASE Ends
  BY <1>3, EndsQuits DEF Quit, inventory, cluster
<1>4. CASE OnComponents
  BY <1>4, ComponentsLeaveAddons
<1>5. ASSUME NEW a \in addons, InstallAddon(a) PROVE AddonsHeld'
  BY <1>0, <1>5 DEF InstallAddon, cluster, TypeOK
<1>6. CASE BindAddon \/ MarkForAddon
  BY <1>6 DEF BindAddon, command, work, cluster, MarkForAddon, inventory
<1>7. CASE DeployAddon
  <2>1. /\ which \in addons /\ which \in Addon
        /\ deployed' = deployed \cup {which} /\ UNCHANGED addonStatus
    BY <1>7, RegistryAssumption DEF DeployAddon, inventory, TypeOK, AddonStep
  <2>2. \A b \in Uses[which] : b \in Addon /\ addonStatus[b] = "installed"
    BY <1>0, <1>7, <2>1 DEF DeployAddon, AddonOrder, InstallingAddon, Verbs
  <2>3. QED
    BY <2>1, <2>2 DEF DeployedKnown
<1>8. CASE FinishAddon
  BY <1>0, <1>8 DEF FinishAddon, cluster, TypeOK
<1>9. CASE FailAddon
  BY <1>0, <1>9 DEF FailAddon, cluster, Quit, TypeOK
<1>10. ASSUME NEW a \in addons, RemoveAddon(a) PROVE AddonsHeld'
  <2>1. /\ UNCHANGED deployed /\ a \in Addon
        /\ \A b \in Addon : b # a => addonStatus'[b] = addonStatus[b]
    BY <1>10 DEF RemoveAddon, TypeOK, cluster
  <2>2. \A b \in deployed : a \notin Uses[b]
    BY <1>0, <1>10 DEF RemoveAddon, AddonRemovalAccepted, DeployedKnown, Gone
  <2>3. QED
    BY <1>0, <2>1, <2>2
<1>11. CASE DeleteAddon
  <2>1. /\ addonStatus[which] = "uninstalling" /\ deployed' = deployed \ {which}
        /\ UNCHANGED addonStatus
    BY <1>11 DEF DeleteAddon, inventory, AddonOrder
  <2>2. QED
    BY <1>0, <2>1
<1>12. CASE FinishAddonRemoval
  <2>1. /\ which \in Addon /\ addonStatus[which] = "uninstalling" /\ UNCHANGED deployed
        /\ \A b \in Addon : b # which => addonStatus'[b] = addonStatus[b]
    BY <1>12, StatusTypes DEF FinishAddonRemoval, TypeOK, cluster, AddonOrder
  <2>2. QED
    BY <1>0, <2>1
<1>13. QED
  BY <1>1, <1>2, <1>3, <1>4, <1>5, <1>6, <1>7, <1>8, <1>9, <1>10, <1>11, <1>12,
     Steps DEF OnAddons

-----------------------------------------------------------------------------

LEMMA InitInductive == Init => Inductive
<1> SUFFICES ASSUME Init PROVE Inductive
  OBVIOUS
<1> USE DEF Init
<1>1. TypeOK
  <2>1. /\ status \in [Component -> Status] /\ topology \in [Component -> Domain \cup {NoDomain}]
        /\ addonStatus \in [Addon -> AddonStatus] /\ built \in [Phase -> Domain \cup {NoDomain}]
    BY DEF Status, AddonStatus
  <2>2. faults \in 0..MaxFaults /\ overall \in Overall /\ pc \in Step /\ pc \notin AddonStep
    BY RegistryAssumption DEF Overall, Step, AddonStep
  <2>3. QED
    BY <2>1, <2>2 DEF TypeOK
<1>2. Verbs /\ Planned /\ Installation /\ Removal
  BY DEF Verbs, Planned, Installation, Removal, Installing, InstallingAddon
<1>3. Whole /\ TopologyRecorded /\ Backed /\ OneTopology /\ BuiltKnown
  BY Phases DEF Whole, TopologyRecorded, Backed, OneTopology, BuiltKnown
<1>4. DependenciesHeld
  BY DEF DependenciesHeld, Started
<1>5. DeployedKnown /\ AddonOrder /\ Agenda /\ AddonsHeld
  BY DEF DeployedKnown, AddonOrder, Agenda, AddonsHeld, InstallingAddon
<1>6. QED
  BY <1>1, <1>2, <1>3, <1>4, <1>5 DEF Inductive

LEMMA StepInductive == Inductive /\ [Next]_vars => Inductive'
<1> SUFFICES ASSUME Inductive, [Next]_vars PROVE Inductive'
  OBVIOUS
<1> USE DEF Inductive
<1>1. CASE Next
  BY <1>1, TypeOKKept, VerbsKept, PlannedKept, InstallationKept, RemovalKept, WholeKept,
     BuiltKnownKept, TopologyRecordedKept, BackedKept, OneTopologyKept, DependenciesHeldKept,
     DeployedKnownKept, AddonOrderKept, AgendaKept, AddonsHeldKept
<1>2. CASE UNCHANGED vars
  <2> USE <1>2 DEF vars, inventory, cluster, command, work
  <2>1. TypeOK' /\ Verbs' /\ Planned' /\ Installation' /\ Removal'
    BY DEF TypeOK, Verbs, Removing, Planned, Installation, First, Before, Removal
  <2>2. Whole' /\ TopologyRecorded' /\ Backed' /\ OneTopology' /\ BuiltKnown'
    BY DEF Whole, TopologyRecorded, Backed, OneTopology, BuiltKnown, Before
  <2>3. DependenciesHeld' /\ DeployedKnown' /\ AddonOrder' /\ Agenda' /\ AddonsHeld'
    BY DEF DependenciesHeld, DeployedKnown, AddonOrder, Agenda, Recorded, AddonsHeld
  <2>4. QED
    BY <2>1, <2>2, <2>3
<1>3. QED
  BY <1>1, <1>2

\* The inductive invariant holds: what the theorems follow from.
LEMMA Invariance == Spec => []Inductive
BY InitInductive, StepInductive, PTL DEF Spec

\* Type correctness of the lifecycle of components and addons.
THEOREM ComponentTypes == Spec => []TypeOK
<1>1. Inductive => TypeOK
  BY DEF Inductive
<1>2. QED
  BY <1>1, Invariance, PTL

\* Controllers outlive what they control, wherever a command stops.
THEOREM PhasesBacked == Spec => []Backed
<1>1. Inductive => Backed
  BY DEF Inductive
<1>2. QED
  BY <1>1, Invariance, PTL

\* Phases that depend on each other are of one topology.
THEOREM TopologiesAgree == Spec => []OneTopology
<1>1. Inductive => OneTopology
  BY DEF Inductive
<1>2. QED
  BY <1>1, Invariance, PTL

\* What is in the cluster is active in the inventory.
THEOREM ClusterAccounted == Spec => []Accounted
<1>1. Inductive => Accounted
  BY DEF Inductive, BuiltKnown, DeployedKnown, Accounted
<1>2. QED
  BY <1>1, Invariance, PTL

\* A component that may be there has all it depends on.
THEOREM DependenciesAreHeld == Spec => []DependenciesHeld
<1>1. Inductive => DependenciesHeld
  BY DEF Inductive
<1>2. QED
  BY <1>1, Invariance, PTL

\* An addon with objects in the cluster keeps those it uses.
THEOREM AddonsAreHeld == Spec => []AddonsHeld
<1>1. Inductive => AddonsHeld
  BY DEF Inductive
<1>2. QED
  BY <1>1, Invariance, PTL

\* The profile uninstall is done with the addons before it touches a component.
THEOREM AddonsGoFirst == Spec => AddonsFirst
<1>1. Inductive => (verb = "uninstallAll" /\ RemoveComponents => deployed = {})
  BY DEF Inductive, Agenda, RemoveComponents
<1>2. QED
  BY <1>1, Invariance, PTL DEF AddonsFirst

\* No item of the profile uninstall's own agenda is refused.
THEOREM ProfileUninstallIsAccepted == Spec => ProfileUninstallAccepted
<1>1. ASSUME Inductive, verb = "uninstallAll", Refuse PROVE ~BindAccepted
  <2> SUFFICES ASSUME BindAccepted PROVE FALSE
    OBVIOUS
  <2> USE <1>1 DEF Inductive
  <2>1. CASE addons = {} /\ components # {} /\ ~RemovalAccepted(components)
    <3>1. components = Recorded(status, purge)
      BY <2>1 DEF Agenda
    <3>2. \A c \in Component : c \in components <=>
            status[c] \notin (IF purge THEN {"absent", "purged"} ELSE {"absent"} \cup Gone)
      BY <3>1 DEF Recorded, TypeOK
    <3>3. components \subseteq Component
      BY DEF TypeOK
    <3>4. QED
      BY <2>1, <3>2, <3>3 DEF RemovalAccepted, Gone
  <2>2. ASSUME NEW a \in Addon, AddonLast(a), ~AddonRemovalAccepted(a) PROVE FALSE
    <3>1. \A b \in Addon : a \in Uses[b] => addonStatus[b] \in Gone \cup {"absent"}
      BY <2>2 DEF AddonLast, Agenda, Inactive
    <3>2. addonStatus[a] # "absent" /\ (addonStatus[a] \in Gone => purge)
      BY <2>2 DEF AddonLast, Agenda
    <3>3. QED
      BY <2>2, <3>1, <3>2 DEF AddonRemovalAccepted
  <2>3. QED
    BY <2>1, <2>2 DEF Refuse
<1>2. Inductive => (verb = "uninstallAll" /\ Refuse => ~BindAccepted)
  BY <1>1
<1>3. QED
  BY <1>2, Invariance, PTL DEF ProfileUninstallAccepted

\* The installation is gone only when nothing of it is left in the cluster.
THEOREM GoneMeansEmpty == Spec => GoneIsEmpty
<1>1. ASSUME Inductive, Inductive', Next, overall' \in Gone, overall' # overall
      PROVE  deployed = {} /\ \A p \in Phase : built[p] = NoDomain
  <2>1. FinishRemoval \/ FinishAddonRemoval
    BY <1>1, OverallStays DEF Inductive
  <2>2. /\ overall' = Remaining(status', addonStatus')
        /\ built' = built /\ deployed' = deployed
    BY <2>1 DEF FinishRemoval, FinishAddonRemoval, cluster
  <2>3. /\ \A c \in Component : status'[c] \in Gone \cup {"absent"}
        /\ \A a \in Addon : addonStatus'[a] \in Gone \cup {"absent"}
    BY <1>1, <2>2 DEF Remaining, Gone
  <2>4. BuiltKnown' /\ DeployedKnown' /\ deployed \subseteq Addon
    BY <1>1 DEF Inductive, TypeOK
  <2>5. deployed = {}
    BY <2>2, <2>3, <2>4 DEF DeployedKnown, Started, Gone
  <2>6. \A p \in Phase : built[p] = NoDomain
    BY <2>2, <2>3, <2>4, Phases DEF BuiltKnown, Started, Gone
  <2>7. QED
    BY <2>5, <2>6
<1> DEFINE Empty == overall' \in Gone /\ overall' # overall =>
                        deployed = {} /\ \A p \in Phase : built[p] = NoDomain
<1>2. Inductive /\ Inductive' /\ [Next]_vars => [Empty]_vars
  BY <1>1
<1>3. QED
  BY <1>2, Invariance, PTL DEF Spec, GoneIsEmpty

-----------------------------------------------------------------------------
(***************************************************************************)
(* No command is stuck: the part of CommandEnds that is about safety.      *)
(***************************************************************************)

\* resolve and addon_order return a list with what is needed first, and raise on
\* a cycle: the place in that list is a rank.
Acyclic(Item, needs) ==
    \E n \in Nat : \E rank \in [Item -> 0..n] :
        \A x \in Item : \A y \in needs[x] : rank[y] < rank[x]

\* What is next on the agenda can be taken or is refused: there is a phase that
\* no other has to precede, an addon that uses none of those to come.
Ready ==
    \/ pc \in {"mark", "begin", "apply", "wait"} \cup AddonStep
    \/ pc = "phases" /\ (todo = {} \/ \E p \in todo : First(p))
    \/ pc = "remove" /\ (todo = {} \/ \E p \in todo : Last(p))
    \/ /\ pc = "next" /\ verb = "install"
       /\ components # {} \/ addons = {} \/ \E a \in addons : AddonFirst(a)
    \/ pc = "next" /\ Removing /\ (addons = {} \/ \E a \in addons : AddonLast(a))

\* A command that runs has a verb; what bind saves is marked next.
Commanded ==
    /\ pc # "idle" => verb # "none"
    /\ faults = 0 /\ bound /\ ~marker => pc \in {"mark", "addonMark"}

LEMMA Least ==
    ASSUME NEW T \in SUBSET Nat, T # {}
    PROVE  \E m \in T : \A k \in T : m <= k
<1> DEFINE R == {s \in Nat \X Nat : s[1] < s[2]}
<1>1. IsWellFoundedOn(R, Nat)
  BY NatLessThanWellFounded DEF OpToRel
<1> HIDE DEF R
<1>2. PICK m \in T : \A k \in T : ~(<<k, m>> \in R)
  BY <1>1, WFMin
<1>3. ASSUME NEW k \in T PROVE m <= k
  <2>1. m \in Nat /\ k \in Nat /\ (k < m => <<k, m>> \in R)
    BY DEF R
  <2>2. QED
    BY <1>2, <2>1
<1>4. QED
  BY <1>3

\* Likewise for a measure of the members of any set.
LEMMA LeastBy ==
    ASSUME NEW S, S # {}, NEW f, \A x \in S : f[x] \in Nat
    PROVE  \E x \in S : \A y \in S : f[x] <= f[y]
<1> DEFINE T == {f[x] : x \in S}
<1>1. T \in SUBSET Nat /\ T # {}
  OBVIOUS
<1>2. PICK m \in T : \A k \in T : m <= k
  BY <1>1, Least
<1>3. PICK x \in S : m = f[x]
  OBVIOUS
<1>4. \A y \in S : f[y] \in T
  OBVIOUS
<1>5. QED
  BY <1>2, <1>3, <1>4

\* A dependency has a lower rank, at any distance.
LEMMA ClosureRanked ==
    ASSUME NEW n \in Nat, NEW rank \in [Component -> 0..n],
           \A c \in Component : \A d \in Needs[c] : rank[d] < rank[c],
           NEW c \in Component, NEW d \in Closure({c}), d # c
    PROVE  rank[d] < rank[c]
<1> DEFINE S == {c} \cup {e \in Component : rank[e] < rank[c]}
<1>1. S \in SUBSET Component /\ {c} \subseteq S
  OBVIOUS
<1>2. ASSUME NEW e \in S, NEW f \in Needs[e] PROVE f \in S
  <2>1. e \in Component /\ f \in Component
    BY RegistryAssumption
  <2>2. rank[f] < rank[e] /\ (e = c \/ rank[e] < rank[c])
    BY <2>1
  <2>3. rank[e] \in Nat /\ rank[f] \in Nat /\ rank[c] \in Nat
    BY <2>1
  <2>4. rank[f] < rank[c]
    BY <2>2, <2>3
  <2>5. QED
    BY <2>1, <2>4
<1>3. d \in S
  <2> HIDE DEF S
  <2>1. QED
    BY <1>1, <1>2 DEF Closure
<1>4. QED
  BY <1>3

\* Among phases there is one that none precedes, and one that precedes none.
LEMMA FirstExists ==
    ASSUME Acyclic(Component, Needs), todo \subseteq Phase, todo # {}
    PROVE  \E p \in todo : First(p)
<1>0. PICK n \in Nat : \E rank \in [Component -> 0..n] :
        \A c \in Component : \A d \in Needs[c] : rank[d] < rank[c]
  BY DEF Acyclic
<1>1. PICK rank \in [Component -> 0..n] :
        \A c \in Component : \A d \in Needs[c] : rank[d] < rank[c]
  BY <1>0
<1> DEFINE r == [p \in todo |-> rank[p[1]]]
<1>2. PICK p \in todo : \A q \in todo : r[p] <= r[q]
  <2>1. \A q \in todo : r[q] \in Nat
    BY Phases
  <2>2. QED
    BY <2>1, LeastBy
<1> DEFINE own == {q \in todo : q[1] = p[1]}
           k == [q \in own |-> q[2]]
<1>3. PICK f \in own : \A q \in own : k[f] <= k[q]
  <2>1. \A q \in own : k[q] \in Nat
    BY Phases
  <2>2. QED
    BY <2>1, LeastBy
<1>4. ASSUME NEW q \in todo, Before(q, f) PROVE FALSE
  <2>1. /\ f \in Phase /\ q \in Phase /\ f[1] = p[1]
        /\ f[1] \in Component /\ q[1] \in Component /\ f[2] \in Nat /\ q[2] \in Nat
    BY Phases
  <2>2. CASE q[1] = f[1]
    <3>1. q \in own /\ f[2] <= q[2]
      BY <1>3, <2>1, <2>2
    <3>2. QED
      BY <1>4, <2>1, <2>2, <3>1 DEF Before
  <2>3. CASE q[1] # f[1]
    <3>1. rank[q[1]] < rank[f[1]]
      BY <1>1, <1>4, <2>1, <2>3, ClosureRanked DEF Before
    <3>2. rank[f[1]] <= rank[q[1]]
      BY <1>2, <2>1
    <3>3. rank[f[1]] \in Nat /\ rank[q[1]] \in Nat
      BY <2>1
    <3>4. QED
      BY <3>1, <3>2, <3>3
  <2>4. QED
    BY <2>2, <2>3
<1>5. QED
  BY <1>4 DEF First

LEMMA LastExists ==
    ASSUME Acyclic(Component, Needs), todo \subseteq Phase, todo # {}
    PROVE  \E p \in todo : Last(p)
<1>0. PICK n \in Nat : \E rank \in [Component -> 0..n] :
        \A c \in Component : \A d \in Needs[c] : rank[d] < rank[c]
  BY DEF Acyclic
<1>1. PICK rank \in [Component -> 0..n] :
        \A c \in Component : \A d \in Needs[c] : rank[d] < rank[c]
  BY <1>0
<1> DEFINE r == [p \in todo |-> n - rank[p[1]]]
<1>2. PICK p \in todo : \A q \in todo : r[p] <= r[q]
  <2>1. \A q \in todo : r[q] \in Nat
    BY Phases
  <2>2. QED
    BY <2>1, LeastBy
<1> DEFINE own == {q \in todo : q[1] = p[1]}
           k == [q \in own |-> Length[q[1]] - q[2]]
<1>3. PICK f \in own : \A q \in own : k[f] <= k[q]
  <2>1. \A q \in own : k[q] \in Nat
    BY Phases
  <2>2. QED
    BY <2>1, LeastBy
<1>4. ASSUME NEW q \in todo, Before(f, q) PROVE FALSE
  <2>1. /\ f \in Phase /\ q \in Phase /\ f[1] = p[1]
        /\ f[1] \in Component /\ q[1] \in Component /\ f[2] \in Nat /\ q[2] \in Nat
        /\ Length[f[1]] \in Nat
    BY Phases
  <2>2. CASE q[1] = f[1]
    <3>1. q \in own /\ Length[f[1]] - f[2] <= Length[f[1]] - q[2]
      BY <1>3, <2>1, <2>2
    <3>2. QED
      BY <1>4, <2>1, <2>2, <3>1 DEF Before
  <2>3. CASE q[1] # f[1]
    <3>1. rank[f[1]] < rank[q[1]]
      BY <1>1, <1>4, <2>1, <2>3, ClosureRanked DEF Before
    <3>2. n - rank[f[1]] <= n - rank[q[1]]
      BY <1>2, <2>1
    <3>3. rank[f[1]] \in Nat /\ rank[q[1]] \in Nat
      BY <2>1
    <3>4. QED
      BY <3>1, <3>2, <3>3
  <2>4. QED
    BY <2>2, <2>3
<1>5. QED
  BY <1>4 DEF Last

\* The same of addons.
LEMMA AddonExists ==
    ASSUME Acyclic(Addon, Uses), addons \subseteq Addon, addons # {}
    PROVE  (\E a \in addons : AddonFirst(a)) /\ \E a \in addons : AddonLast(a)
<1>0. PICK n \in Nat : \E rank \in [Addon -> 0..n] :
        \A a \in Addon : \A b \in Uses[a] : rank[b] < rank[a]
  BY DEF Acyclic
<1>1. PICK rank \in [Addon -> 0..n] :
        \A a \in Addon : \A b \in Uses[a] : rank[b] < rank[a]
  BY <1>0
<1>2. \A a \in addons : a \in Addon /\ rank[a] \in 0..n
  OBVIOUS
<1>3. \E a \in addons : AddonFirst(a)
  <2> DEFINE r == [a \in addons |-> rank[a]]
  <2>1. PICK a \in addons : \A b \in addons : r[a] <= r[b]
    BY <1>2, LeastBy
  <2>2. \A b \in addons : ~(rank[b] < rank[a])
    BY <1>2, <2>1
  <2>3. QED
    BY <1>1, <1>2, <2>2 DEF AddonFirst
<1>4. \E a \in addons : AddonLast(a)
  <2> DEFINE r == [a \in addons |-> n - rank[a]]
  <2>1. PICK a \in addons : \A b \in addons : r[a] <= r[b]
    <3>1. \A b \in addons : r[b] \in Nat
      BY <1>2
    <3>2. QED
      BY <3>1, LeastBy
  <2>2. \A b \in addons : ~(rank[a] < rank[b])
    BY <1>2, <2>1
  <2>3. QED
    BY <1>1, <1>2, <2>2 DEF AddonLast
<1>5. QED
  BY <1>3, <1>4

LEMMA CommandedStep == TypeOK /\ Commanded /\ [Next]_vars => Commanded'
<1> SUFFICES ASSUME TypeOK, Commanded, [Next]_vars PROVE Commanded'
  OBVIOUS
<1> USE DEF Commanded, inventory, cluster, command, work
<1>1. CASE Begins
  BY <1>1, BeginsCommand
<1>2. CASE EditProfile
  BY <1>2 DEF EditProfile
<1>3. CASE Ends
  <2>1. CASE Finish \/ Refuse
    BY <2>1 DEF Finish, Refuse, Quit
  <2>2. CASE Kill
    BY <2>2, RegistryAssumption DEF Kill, Quit, TypeOK
  <2>3. QED
    BY <1>3, <2>1, <2>2 DEF Ends
<1>4. CASE OnAddons /\ ~FailAddon
  BY <1>4 DEF OnAddons, InstallAddon, BindAddon, MarkForAddon, DeployAddon, FinishAddon,
     RemoveAddon, DeleteAddon, FinishAddonRemoval
<1>5. CASE FailAddon \/ FailComponents
  BY <1>5, RegistryAssumption DEF FailAddon, FailComponents, Quit, TypeOK
<1>6. CASE OnComponents /\ ~FailComponents
  BY <1>6 DEF OnComponents, InstallComponents, MarkCluster, BeginPhases, EnterPhase, ApplyPhase,
     CompletePhase, FinishComponents, RemoveComponents, RemovePhase, FinishRemoval
<1>7. CASE UNCHANGED vars
  BY <1>7 DEF vars
<1>8. QED
  BY <1>1, <1>2, <1>3, <1>4, <1>5, <1>6, <1>7, Steps

LEMMA CommandedHolds == Spec => []Commanded
<1>1. Init => Commanded
  BY DEF Init, Commanded
<1>2. QED
  BY <1>1, CommandedStep, ComponentTypes, PTL DEF Spec

\* No order of phases or addons is circular: whenever a command runs, its next
\* step can be taken, or the check that guards it refuses and the command ends.
THEOREM NoCommandIsStuck ==
    ASSUME Acyclic(Component, Needs), Acyclic(Addon, Uses)
    PROVE  Spec => [](pc # "idle" => Ready)
<1>1. TypeOK /\ Commanded => (pc # "idle" => Ready)
  <2> SUFFICES ASSUME TypeOK, Commanded, pc # "idle" PROVE Ready
    OBVIOUS
  <2>1. todo = {} \/ ((\E p \in todo : First(p)) /\ \E p \in todo : Last(p))
    BY FirstExists, LastExists DEF TypeOK
  <2>2. addons = {} \/ ((\E a \in addons : AddonFirst(a)) /\ \E a \in addons : AddonLast(a))
    BY AddonExists DEF TypeOK
  <2>3. CASE pc = "next"
    BY <2>2, <2>3 DEF Ready, TypeOK, Commanded, Removing
  <2>4. CASE pc # "next"
    BY <2>1, <2>4 DEF Ready, TypeOK, Step
  <2>5. QED
    BY <2>3, <2>4
<1>2. QED
  BY <1>1, CommandedHolds, ComponentTypes, PTL

\* The next command's bind is refused only after a stop: without one, what was
\* installed and removed can always be installed again.
THEOREM RebindAccepted == Spec => [](faults = 0 => ReinstallAccepted)
<1>1. Commanded => (faults = 0 => ReinstallAccepted)
  BY DEF Commanded, ReinstallAccepted, BindAccepted
<1>2. QED
  BY <1>1, CommandedHolds, PTL

-----------------------------------------------------------------------------
(***************************************************************************)
(* Components implements PhaseOrder.  Of all steps only ApplyPhase and     *)
(* RemovePhase touch a phase.                                              *)
(***************************************************************************)

LEMMA PutAllowed ==
    ASSUME Inductive, ApplyPhase
    PROVE  Promise!Put(at, domain)
<1> USE DEF Inductive
<1>1. at \in Phase /\ at[1] \in acting /\ pc \in Installing
  BY ApplyPhaseDoes DEF Installing
<1>2. built[at] \in {NoDomain, domain}
  BY <1>1 DEF Planned, TopologyRecorded
<1>3. ASSUME NEW q \in Phase, <<q, at>> \in PhasePairs PROVE built[q] = domain
  <2>1. Before(q, at)
    BY <1>3 DEF PhasePairs
  <2>2. QED
    BY <2>1, ApplyBacked, ApplyTopology
<1>4. built' = [built EXCEPT ![at] = domain]
  BY DEF ApplyPhase
<1>5. QED
  BY <1>2, <1>3, <1>4 DEF Promise!Put

LEMMA RemoveAllowed ==
    ASSUME Inductive, NEW p \in todo, RemovePhase(p)
    PROVE  Promise!Remove(p)
<1> USE DEF Inductive
<1>1. p \in Phase /\ p[1] \in acting /\ p[1] \in Component /\ pc = "remove" /\ Last(p)
  BY RemovePhaseDoes
<1>2. ASSUME NEW q \in Phase, <<p, q>> \in PhasePairs PROVE built[q] = NoDomain
  <2>1. Before(p, q) /\ q[1] \in Component
    BY <1>2, Phases DEF PhasePairs
  <2>2. CASE q[1] \in acting
    BY <1>1, <2>1, <2>2 DEF Last, Removal
  <2>3. CASE q[1] \notin acting
    <3>1. p[1] \in Closure({q[1]})
      BY <1>1, <2>1, <2>3 DEF Before
    <3>2. status[q[1]] \in Inactive
      BY <1>1, <2>1, <2>3, <3>1 DEF Removal
    <3>3. QED
      BY <3>2 DEF BuiltKnown, Started, Inactive, Gone
  <2>4. QED
    BY <2>2, <2>3
<1>3. built' = [built EXCEPT ![p] = NoDomain]
  BY DEF RemovePhase
<1>4. QED
  BY <1>2, <1>3 DEF Promise!Remove

\* Every step of an install or a removal is one of PhaseOrder, or touches no
\* phase.
LEMMA PhaseStep == Inductive /\ [Next]_vars => [Promise!Next]_built
<1> SUFFICES ASSUME Inductive, Next PROVE [Promise!Next]_built
  BY DEF vars, cluster
<1>0. TypeOK
  BY DEF Inductive
<1>1. CASE Begins \/ EditProfile \/ Ends \/ OnAddons
  BY <1>0, <1>1, ElsewhereLeaves
<1>2. CASE MarkCluster \/ BeginPhases \/ InstallComponents
  BY <1>2 DEF MarkCluster, BeginPhases, InstallComponents, cluster
<1>3. ASSUME NEW p \in todo, EnterPhase(p) PROVE UNCHANGED built
  BY <1>0, <1>3, EnterPhaseDoes DEF cluster
<1>4. CASE ApplyPhase
  <2>1. at \in Phase /\ domain \in Domain
    BY <1>0, <1>4, ApplyPhaseDoes DEF TypeOK
  <2>2. QED
    BY <1>4, <2>1, PutAllowed DEF Promise!Next
<1>5. CASE CompletePhase \/ FinishComponents \/ FailComponents
  BY <1>5 DEF CompletePhase, FinishComponents, FailComponents, cluster
<1>6. CASE RemoveComponents \/ FinishRemoval
  BY <1>6 DEF RemoveComponents, FinishRemoval, cluster
<1>7. ASSUME NEW p \in todo, RemovePhase(p) PROVE Promise!Next
  <2>1. p \in Phase
    BY <1>0, <1>7, RemovePhaseDoes
  <2>2. QED
    BY <1>7, <2>1, RemoveAllowed DEF Promise!Next
<1>8. QED
  BY <1>1, <1>2, <1>3, <1>4, <1>5, <1>6, <1>7, Steps DEF OnComponents

\* Installs and removals keep the promises of PhaseOrder: phases are put on top
\* of those before them and of their topology, and taken away from the top.
THEOREM PhasesRefine == Spec => ImplementsPhaseOrder
<1>1. Init => Promise!Init
  BY DEF Init, Promise!Init
<1>2. Inductive /\ [Next]_vars => [Promise!Next]_built
  BY PhaseStep
<1>3. QED
  BY <1>1, <1>2, Invariance, PTL DEF Spec, ImplementsPhaseOrder, Promise!Spec

=============================================================================
