----------------------------- MODULE Components -----------------------------
(***************************************************************************)
(* Components and addons: what the commands of main.py do to their         *)
(* statuses in inventory.yaml and, phase by phase, to the cluster          *)
(* (lifecycle.py: plan, removal_targets, bind, install, uninstall,         *)
(* uninstall_addon; components/__init__.py: resolve, removal).             *)
(*                                                                         *)
(* A command is an agenda of components and addons.  An action ends at the *)
(* next write of inventory.yaml or the next change of the cluster, so that *)
(* a command that fails or is killed stops between two actions.  The order *)
(* of resolve is any order that puts dependencies first.                   *)
(***************************************************************************)
EXTENDS Naturals, FiniteSets

CONSTANTS
    Component,      \* REGISTRY
    Needs,          \* Component -> the components it depends on
    Length,         \* Component -> the number of its phases
    Addon,          \* the addons
    Requires,       \* Addon -> the components it depends on
    Uses,           \* Addon -> the addons it depends on
    Domain,         \* topologies a profile may ask for
    NoDomain,       \* no topology
    NoPhase,        \* no phase
    NoAddon,        \* no addon
    MaxFaults       \* bound on failures and kills

Phase == UNION {{c} \X (1..Length[c]) : c \in Component}

ASSUME RegistryAssumption ==
    /\ Needs \in [Component -> SUBSET Component]
    /\ Length \in [Component -> Nat \ {0}]
    /\ Requires \in [Addon -> SUBSET Component]
    /\ Uses \in [Addon -> SUBSET Addon]
    /\ NoDomain \notin Domain
    /\ NoPhase \notin Component \X Nat
    /\ NoAddon \notin Addon
    /\ MaxFaults \in Nat

VARIABLES
    status,         \* Component -> its status in inventory.yaml
    topology,       \* Component -> the topology recorded for it
    addonStatus,    \* Addon -> its status
    overall,        \* the status of the installation
    bound,          \* the inventory names its cluster
    marker,         \* the ConfigMap that marks the cluster exists
    built,          \* Phase -> the topology its objects in the cluster are of
    deployed,       \* addons with objects in the cluster
    domain,         \* the topology in profile.yaml
    verb,           \* what the running command does
    purge,          \* --purge
    pc,             \* what it does next
    components,     \* the components on its agenda
    addons,         \* the addons on its agenda
    acting,         \* the components it is working on
    todo,           \* their phases it has not finished
    at,             \* the phase it is in
    which,          \* the addon it is working on
    faults          \* how many faults there have been

inventory == <<status, topology, addonStatus, overall, bound>>
cluster == <<marker, built, deployed>>
work == <<acting, todo, at, which>>
command == <<verb, purge, components, addons, work>>
vars == <<inventory, cluster, domain, command, pc, faults>>

Gone == {"uninstalled", "purged"}

Started == {"installing", "installed", "failed"}

Status == Started \cup Gone \cup {"absent", "new", "removing"}

AddonStatus == Started \cup Gone \cup {"absent", "uninstalling"}

Overall == {"new", "installing", "installed", "uninstalling"} \cup Gone

AddonStep == {"addonBind", "addonMark", "addonApply", "addonWait", "addonRemove", "addonSave"}

Step == {"idle", "next", "mark", "begin", "phases", "apply", "wait", "remove"} \cup AddonStep

TypeOK ==
    /\ status \in [Component -> Status]
    /\ topology \in [Component -> Domain \cup {NoDomain}]
    /\ addonStatus \in [Addon -> AddonStatus]
    /\ overall \in Overall
    /\ bound \in BOOLEAN /\ marker \in BOOLEAN
    /\ built \in [Phase -> Domain \cup {NoDomain}]
    /\ deployed \subseteq Addon
    /\ domain \in Domain
    /\ verb \in {"none", "install", "uninstall", "uninstallAll"}
    /\ purge \in BOOLEAN
    /\ pc \in Step
    /\ components \subseteq Component /\ addons \subseteq Addon
    /\ acting \subseteq Component
    /\ todo \subseteq {p \in Phase : p[1] \in acting}
    /\ at \in todo \cup {NoPhase}
    /\ at # NoPhase <=> pc \in {"apply", "wait"}
    /\ which \in addons \cup {NoAddon}
    /\ which # NoAddon <=> pc \in AddonStep
    /\ faults \in 0..MaxFaults

Init ==
    /\ status = [c \in Component |-> "absent"]
    /\ topology = [c \in Component |-> NoDomain]
    /\ addonStatus = [a \in Addon |-> "absent"]
    /\ overall = "new"
    /\ bound = FALSE /\ marker = FALSE
    /\ built = [p \in Phase |-> NoDomain]
    /\ deployed = {}
    /\ domain \in Domain
    /\ verb = "none"
    /\ purge = FALSE
    /\ pc = "idle"
    /\ components = {} /\ addons = {}
    /\ acting = {} /\ todo = {} /\ at = NoPhase /\ which = NoAddon
    /\ faults = 0

-----------------------------------------------------------------------------
(***************************************************************************)
(* Decisions                                                               *)
(***************************************************************************)

\* resolve: the targets and everything they depend on.
Closure(targets) ==
    {c \in Component : \A S \in SUBSET Component :
        targets \subseteq S /\ (\A d \in S : Needs[d] \subseteq S) => c \in S}

\* addon_order: likewise for addons.
AddonClosure(names) ==
    {a \in Addon : \A S \in SUBSET Addon :
        names \subseteq S /\ (\A b \in S : Uses[b] \subseteq S) => a \in S}

\* The order in which resolve puts the phases: p before q.
Before(p, q) ==
    \/ p[1] = q[1] /\ p[2] < q[2]
    \/ p[1] # q[1] /\ p[1] \in Closure({q[1]})

\* plan: what is asked for and the dependencies that are not installed.
Acting(targets) == {c \in Closure(targets) : c \in targets \/ status[c] # "installed"}

\* bind: an installation that was marked keeps its marker.
BindAccepted == bound /\ ~marker => overall = "new"

\* Mutant: only what will be installed is compared.
TopologyAccepted_ActingOnly(targets) ==
    \A c \in Acting(targets) :
        topology[c] \notin {NoDomain, domain} => status[c] \in Gone

\* bind: installed components are not moved to another topology.
TopologyAccepted(targets) ==
    \A c \in Closure(targets) :
        topology[c] \notin {NoDomain, domain} => status[c] \in Gone

\* Mutant: only installed components count as dependents.
RemovalAccepted_InstalledOnly(targets) ==
    /\ \A c \in Component \ targets :
        status[c] = "installed" => Closure({c}) \cap targets = {}
    /\ \A c \in targets : status[c] # "absent"

\* removal_targets and removal: nothing active depends on the targets.
RemovalAccepted(targets) ==
    /\ \A c \in Component \ targets :
        status[c] \notin Gone \cup {"absent"} => Closure({c}) \cap targets = {}
    /\ \A c \in targets : status[c] # "absent"

\* Mutant: only installed addons count as dependents.
AddonRemovalAccepted_InstalledOnly(a) ==
    /\ \A b \in Addon : a \in Uses[b] => addonStatus[b] # "installed"
    /\ addonStatus[a] # "absent"
    /\ addonStatus[a] \in Gone => purge

\* uninstall_addon: nothing active uses it, and it is recorded.
AddonRemovalAccepted(a) ==
    /\ \A b \in Addon : a \in Uses[b] => addonStatus[b] \in Gone \cup {"absent"}
    /\ addonStatus[a] # "absent"
    /\ addonStatus[a] \in Gone => purge

\* The next phase to install, or to remove.
First(p) == p \in todo /\ \A q \in todo : ~Before(q, p)
Last(p)  == p \in todo /\ \A q \in todo : ~Before(p, q)

Removing == verb \in {"uninstall", "uninstallAll"}

\* Mutant: addons do not count.
Remaining_Components(components1, addons1) ==
    IF \E c \in Component : components1[c] \notin Gone \cup {"absent"}
    THEN "installed"
    ELSE IF purge THEN "purged" ELSE "uninstalled"

\* The installation's status after a removal.
Remaining(components1, addons1) ==
    IF \/ \E c \in Component : components1[c] \notin Gone \cup {"absent"}
       \/ \E a \in Addon : addons1[a] \notin Gone \cup {"absent"}
    THEN "installed"
    ELSE IF purge THEN "purged" ELSE "uninstalled"

\* The command ends.
Quit ==
    /\ verb' = "none"
    /\ purge' = FALSE
    /\ pc' = "idle"
    /\ components' = {} /\ addons' = {}
    /\ acting' = {} /\ todo' = {} /\ at' = NoPhase /\ which' = NoAddon

-----------------------------------------------------------------------------
(***************************************************************************)
(* Commands                                                                *)
(***************************************************************************)

Start(action, C, A, p) ==
    /\ pc = "idle"
    /\ pc' = "next"
    /\ verb' = action
    /\ purge' = p
    /\ components' = C
    /\ addons' = A
    /\ UNCHANGED <<inventory, cluster, domain, work, faults>>

\* enkictl component install
StartInstall(C) == C # {} /\ Start("install", C, {}, FALSE)

\* enkictl addon install: an addon it uses is left alone once installed.
ToInstall(A) == A \cup {a \in AddonClosure(A) : addonStatus[a] # "installed"}

StartInstallAddons(A) == A # {} /\ Start("install", {}, ToInstall(A), FALSE)

\* enkictl install
StartInstallProfile(C, A) ==
    /\ C # {} \/ A # {}
    /\ \A a \in AddonClosure(A) :
        Requires[a] \subseteq Closure(C) \cup {c \in Component : status[c] = "installed"}
    /\ Start("install", C, ToInstall(A), FALSE)

\* enkictl component uninstall [--purge]
StartUninstall(C, p) == C # {} /\ Start("uninstall", C, {}, p)

\* enkictl addon uninstall [--purge]
StartUninstallAddon(a, p) == Start("uninstall", {}, {a}, p)

\* Mutant: only what is installed.
Recorded_Installed(statuses, p) == {x \in DOMAIN statuses : statuses[x] = "installed"}

\* enkictl uninstall [--purge]: everything recorded and not yet removed.
Recorded(statuses, p) ==
    {x \in DOMAIN statuses :
        statuses[x] \notin (IF p THEN {"absent", "purged"} ELSE {"absent"} \cup Gone)}

StartUninstallProfile(p) ==
    /\ Recorded(status, p) # {} \/ Recorded(addonStatus, p) # {}
    /\ Start("uninstallAll", Recorded(status, p), Recorded(addonStatus, p), p)

\* The operator revises profile.yaml.
EditProfile ==
    /\ pc = "idle"
    /\ domain' \in Domain \ {domain}
    /\ UNCHANGED <<inventory, cluster, command, pc, faults>>

-----------------------------------------------------------------------------
(***************************************************************************)
(* Installing components                                                   *)
(***************************************************************************)

InstallAccepted == BindAccepted /\ TopologyAccepted(components)

\* install up to the marker: bind records cluster, topology and components.
InstallComponents ==
    /\ pc = "next" /\ verb = "install" /\ components # {}
    /\ InstallAccepted
    /\ acting' = Acting(components)
    /\ todo' = {p \in Phase : p[1] \in acting'}
    /\ components' = {}
    /\ bound' = TRUE
    /\ topology' = [c \in Component |-> IF c \in acting' THEN domain ELSE topology[c]]
    /\ status' = [c \in Component |->
                    IF c \in acting' /\ status[c] = "absent" THEN "new" ELSE status[c]]
    /\ pc' = "mark"
    /\ UNCHANGED <<addonStatus, overall, cluster, domain, verb, purge, addons, at, which, faults>>

MarkCluster ==
    /\ pc = "mark"
    /\ marker' = TRUE
    /\ pc' = "begin"
    /\ UNCHANGED <<inventory, built, deployed, domain, command, faults>>

BeginPhases ==
    /\ pc = "begin"
    /\ overall' = "installing"
    /\ pc' = "phases"
    /\ UNCHANGED <<status, topology, addonStatus, bound, cluster, domain, command, faults>>

\* Mutant: the status is saved when the phase is done.
EnterPhase_Unsaved(p) ==
    /\ pc = "phases"
    /\ First(p)
    /\ at' = p
    /\ pc' = "apply"
    /\ UNCHANGED <<inventory, cluster, domain, verb, purge, components, addons,
                   acting, todo, which, faults>>

\* Mutant: phases in any order.
EnterPhase_AnyOrder(p) ==
    /\ pc = "phases"
    /\ p \in todo
    /\ at' = p
    /\ status' = [status EXCEPT ![p[1]] = "installing"]
    /\ pc' = "apply"
    /\ UNCHANGED <<topology, addonStatus, overall, bound, cluster, domain, verb, purge,
                   components, addons, acting, todo, which, faults>>

EnterPhase(p) ==
    /\ pc = "phases"
    /\ First(p)
    /\ at' = p
    /\ status' = [status EXCEPT ![p[1]] = "installing"]
    /\ pc' = "apply"
    /\ UNCHANGED <<topology, addonStatus, overall, bound, cluster, domain, verb, purge,
                   components, addons, acting, todo, which, faults>>

\* The objects and Helm releases of the phase.
ApplyPhase ==
    /\ pc = "apply"
    /\ built' = [built EXCEPT ![at] = domain]
    /\ pc' = "wait"
    /\ UNCHANGED <<inventory, marker, deployed, domain, command, faults>>

\* Mutant: the phase is taken again and again.
CompletePhase_Repeats ==
    /\ pc = "wait"
    /\ at' = NoPhase
    /\ pc' = "phases"
    /\ UNCHANGED <<inventory, cluster, domain, verb, purge, components, addons,
                   acting, todo, which, faults>>

\* Mutant: the phase is not left.
CompletePhase_Stays ==
    /\ pc = "wait"
    /\ todo' = todo \ {at}
    /\ pc' = "phases"
    /\ UNCHANGED <<inventory, cluster, domain, verb, purge, components, addons,
                   acting, at, which, faults>>

\* wait_phase succeeded; after the last one the component is installed.
CompletePhase ==
    /\ pc = "wait"
    /\ todo' = todo \ {at}
    /\ at' = NoPhase
    /\ status' = IF at[2] = Length[at[1]]
                 THEN [status EXCEPT ![at[1]] = "installed"]
                 ELSE status
    /\ pc' = "phases"
    /\ UNCHANGED <<topology, addonStatus, overall, bound, cluster, domain, verb, purge,
                   components, addons, acting, which, faults>>

FinishComponents ==
    /\ pc = "phases" /\ todo = {}
    /\ status' = [c \in Component |-> IF c \in acting THEN "installed" ELSE status[c]]
    /\ overall' = "installed"
    /\ acting' = {}
    /\ pc' = "next"
    /\ UNCHANGED <<topology, addonStatus, bound, cluster, domain, verb, purge,
                   components, addons, todo, at, which, faults>>

\* apply_components: a StackError marks what was being installed.
FailComponents ==
    /\ pc \in {"mark", "begin", "phases", "apply", "wait"}
    /\ faults < MaxFaults
    /\ faults' = faults + 1
    /\ status' = [c \in Component |->
                    IF c \in acting /\ status[c] = "installing" THEN "failed" ELSE status[c]]
    /\ Quit
    /\ UNCHANGED <<topology, addonStatus, overall, bound, cluster, domain>>

-----------------------------------------------------------------------------
(***************************************************************************)
(* Installing an addon                                                     *)
(***************************************************************************)

\* addon_order puts an addon after those it uses.
AddonFirst(a) == a \in addons /\ Uses[a] \cap addons = {}

AddonAccepted(a) ==
    /\ BindAccepted
    /\ \A c \in Requires[a] : status[c] = "installed"

\* check, and the status saved before anything else.
InstallAddon(a) ==
    /\ pc = "next" /\ verb = "install" /\ components = {}
    /\ AddonFirst(a)
    /\ AddonAccepted(a)
    /\ addonStatus' = [addonStatus EXCEPT ![a] = "installing"]
    /\ which' = a
    /\ pc' = "addonBind"
    /\ UNCHANGED <<status, topology, overall, bound, cluster, domain, verb, purge,
                   components, addons, acting, todo, at, faults>>

BindAddon ==
    /\ pc = "addonBind"
    /\ bound' = TRUE
    /\ pc' = "addonMark"
    /\ UNCHANGED <<status, topology, addonStatus, overall, cluster, domain, command, faults>>

MarkForAddon ==
    /\ pc = "addonMark"
    /\ marker' = TRUE
    /\ pc' = "addonApply"
    /\ UNCHANGED <<inventory, built, deployed, domain, command, faults>>

DeployAddon ==
    /\ pc = "addonApply"
    /\ deployed' = deployed \cup {which}
    /\ pc' = "addonWait"
    /\ UNCHANGED <<inventory, marker, built, domain, command, faults>>

FinishAddon ==
    /\ pc = "addonWait"
    /\ addonStatus' = [addonStatus EXCEPT ![which] = "installed"]
    /\ overall' = "installed"
    /\ addons' = addons \ {which}
    /\ which' = NoAddon
    /\ pc' = "next"
    /\ UNCHANGED <<status, topology, bound, cluster, domain, verb, purge, components,
                   acting, todo, at, faults>>

\* Mutant: the failed addon is forgotten.
FailAddon_Forgets ==
    /\ pc \in AddonStep
    /\ faults < MaxFaults
    /\ faults' = faults + 1
    /\ addonStatus' = [addonStatus EXCEPT ![which] = "absent"]
    /\ Quit
    /\ UNCHANGED <<status, topology, overall, bound, cluster, domain>>

\* A StackError while an addon is installed or removed.
FailAddon ==
    /\ pc \in AddonStep
    /\ faults < MaxFaults
    /\ faults' = faults + 1
    /\ addonStatus' = [addonStatus EXCEPT ![which] = "failed"]
    /\ Quit
    /\ UNCHANGED <<status, topology, overall, bound, cluster, domain>>

-----------------------------------------------------------------------------
(***************************************************************************)
(* Removing components                                                     *)
(***************************************************************************)

\* Mutant: components first.
RemoveComponents_Early ==
    /\ pc = "next" /\ Removing /\ components # {}
    /\ BindAccepted
    /\ RemovalAccepted(components)
    /\ acting' = components
    /\ todo' = {p \in Phase : p[1] \in components}
    /\ components' = {}
    /\ overall' = "uninstalling"
    /\ status' = [c \in Component |-> IF c \in acting' THEN "removing" ELSE status[c]]
    /\ pc' = "remove"
    /\ UNCHANGED <<topology, addonStatus, bound, cluster, domain, verb, purge, addons,
                   at, which, faults>>

\* Nothing is deleted before every status says "removing".
RemoveComponents ==
    /\ pc = "next" /\ Removing /\ addons = {} /\ components # {}
    /\ BindAccepted
    /\ RemovalAccepted(components)
    /\ acting' = components
    /\ todo' = {p \in Phase : p[1] \in components}
    /\ components' = {}
    /\ overall' = "uninstalling"
    /\ status' = [c \in Component |-> IF c \in acting' THEN "removing" ELSE status[c]]
    /\ pc' = "remove"
    /\ UNCHANGED <<topology, addonStatus, bound, cluster, domain, verb, purge, addons,
                   at, which, faults>>

\* Mutant: removal in the order of installation.
RemovePhase_Forward(p) ==
    /\ pc = "remove"
    /\ First(p)
    /\ built' = [built EXCEPT ![p] = NoDomain]
    /\ todo' = todo \ {p}
    /\ UNCHANGED <<inventory, marker, deployed, domain, verb, purge, pc, components, addons,
                   acting, at, which, faults>>

\* Controllers outlive what they control.
RemovePhase(p) ==
    /\ pc = "remove"
    /\ Last(p)
    /\ built' = [built EXCEPT ![p] = NoDomain]
    /\ todo' = todo \ {p}
    /\ UNCHANGED <<inventory, marker, deployed, domain, verb, purge, pc, components, addons,
                   acting, at, which, faults>>

FinishRemoval ==
    /\ pc = "remove" /\ todo = {}
    /\ status' = [c \in Component |->
                    IF c \in acting THEN IF purge THEN "purged" ELSE "uninstalled" ELSE status[c]]
    /\ overall' = Remaining(status', addonStatus)
    /\ acting' = {}
    /\ pc' = "next"
    /\ UNCHANGED <<topology, addonStatus, bound, cluster, domain, verb, purge,
                   components, addons, todo, at, which, faults>>

-----------------------------------------------------------------------------
(***************************************************************************)
(* Removing an addon                                                       *)
(***************************************************************************)

\* uninstall takes addons in the reverse of addon_order.
AddonLast(a) == a \in addons /\ \A b \in addons : a \notin Uses[b]

RemoveAddon(a) ==
    /\ pc = "next" /\ Removing
    /\ AddonLast(a)
    /\ BindAccepted
    /\ AddonRemovalAccepted(a)
    /\ addonStatus' = [addonStatus EXCEPT ![a] = "uninstalling"]
    /\ which' = a
    /\ pc' = "addonRemove"
    /\ UNCHANGED <<status, topology, overall, bound, cluster, domain, verb, purge,
                   components, addons, acting, todo, at, faults>>

DeleteAddon ==
    /\ pc = "addonRemove"
    /\ deployed' = deployed \ {which}
    /\ pc' = "addonSave"
    /\ UNCHANGED <<inventory, marker, built, domain, command, faults>>

FinishAddonRemoval ==
    /\ pc = "addonSave"
    /\ addonStatus' = [addonStatus EXCEPT ![which] = IF purge THEN "purged" ELSE "uninstalled"]
    /\ overall' = Remaining(status, addonStatus')
    /\ addons' = addons \ {which}
    /\ which' = NoAddon
    /\ pc' = "next"
    /\ UNCHANGED <<status, topology, bound, cluster, domain, verb, purge, components,
                   acting, todo, at, faults>>

-----------------------------------------------------------------------------
\* The agenda is done.
Finish ==
    /\ pc = "next" /\ components = {} /\ addons = {}
    /\ Quit
    /\ UNCHANGED <<inventory, cluster, domain, faults>>

\* A check refuses the next item of the agenda: nothing is changed.
Refuse ==
    /\ pc = "next"
    /\ \/ verb = "install" /\ components # {} /\ ~InstallAccepted
       \/ verb = "install" /\ components = {} /\ \E a \in Addon : AddonFirst(a) /\ ~AddonAccepted(a)
       \/ Removing /\ addons = {} /\ components # {}
            /\ ~(BindAccepted /\ RemovalAccepted(components))
       \/ Removing /\ \E a \in Addon : AddonLast(a)
            /\ ~(BindAccepted /\ AddonRemovalAccepted(a))
    /\ Quit
    /\ UNCHANGED <<inventory, cluster, domain, faults>>

\* The process is killed, or stops on an error that marks nothing.
Kill ==
    /\ pc # "idle"
    /\ faults < MaxFaults
    /\ faults' = faults + 1
    /\ Quit
    /\ UNCHANGED <<inventory, cluster, domain>>

Operator ==
    \/ \E C \in SUBSET Component : StartInstall(C)
    \/ \E A \in SUBSET Addon : StartInstallAddons(A)
    \/ \E C \in SUBSET Component, A \in SUBSET Addon : StartInstallProfile(C, A)
    \/ \E C \in SUBSET Component, p \in BOOLEAN : StartUninstall(C, p)
    \/ \E a \in Addon, p \in BOOLEAN : StartUninstallAddon(a, p)
    \/ \E p \in BOOLEAN : StartUninstallProfile(p)
    \/ EditProfile

Progress ==
    \/ InstallComponents
    \/ MarkCluster
    \/ BeginPhases
    \/ \E p \in todo : EnterPhase(p)
    \/ ApplyPhase
    \/ CompletePhase
    \/ FinishComponents
    \/ \E a \in addons : InstallAddon(a)
    \/ BindAddon
    \/ MarkForAddon
    \/ DeployAddon
    \/ FinishAddon
    \/ RemoveComponents
    \/ \E p \in todo : RemovePhase(p)
    \/ FinishRemoval
    \/ \E a \in addons : RemoveAddon(a)
    \/ DeleteAddon
    \/ FinishAddonRemoval
    \/ Finish
    \/ Refuse

Next == Operator \/ Progress \/ FailComponents \/ FailAddon \/ Kill

Spec == Init /\ [][Next]_vars

\* Every tool call of a command has a timeout, so that it ends or fails.
FairSpec == Spec /\ WF_vars(Progress)

-----------------------------------------------------------------------------
(***************************************************************************)
(* Properties                                                              *)
(***************************************************************************)

(***************************************************************************)
(* A phase has objects in the cluster only while every phase before it, of *)
(* its own component and of the components it depends on, has: "keeping    *)
(* controllers alive until their resources and webhooks have been removed".*)
(***************************************************************************)
Backed ==
    \A p, q \in Phase : built[p] # NoDomain /\ Before(q, p) => built[q] # NoDomain

(***************************************************************************)
(* Phases that depend on each other are never of different topologies,     *)
(* however profile.yaml is revised between failed commands.                *)
(***************************************************************************)
OneTopology ==
    \A p, q \in Phase :
        built[p] # NoDomain /\ built[q] # NoDomain /\ Before(q, p) => built[q] = built[p]

(***************************************************************************)
(* What is in the cluster is active in the inventory, so that the removal  *)
(* of what it depends on is refused and an uninstall of everything recorded*)
(* reaches it.                                                             *)
(***************************************************************************)
Accounted ==
    /\ \A p \in Phase : built[p] # NoDomain => status[p[1]] \in Started \cup {"removing"}
    /\ \A a \in deployed : addonStatus[a] \in Started \cup {"uninstalling"}

(***************************************************************************)
(* A component that is installed, or may be in part, has all it depends on *)
(* installed, or in part.                                                  *)
(***************************************************************************)
DependenciesHeld ==
    \A c \in Component : status[c] \in Started => \A d \in Needs[c] : status[d] \in Started

(***************************************************************************)
(* An addon with objects in the cluster, be it installed, failed or partly *)
(* removed, has the addons it uses there, and recorded as such.            *)
(***************************************************************************)
AddonsHeld ==
    \A a \in deployed : \A b \in Uses[a] : b \in deployed /\ addonStatus[b] \in Started

(***************************************************************************)
(* The profile uninstall removes every addon before the first component,   *)
(* and no check of its own items refuses it, "including failed or partially*)
(* installed items" (docs/cli.md); what can is the check of the marker.    *)
(***************************************************************************)
AddonsFirst ==
    [][verb = "uninstallAll" /\ RemoveComponents => deployed = {}]_vars

ProfileUninstallAccepted ==
    [][verb = "uninstallAll" /\ Refuse => ~BindAccepted]_vars

(***************************************************************************)
(* The installation becomes uninstalled or purged only when none of its    *)
(* phases and addons has objects in the cluster.                           *)
(***************************************************************************)
GoneIsEmpty ==
    [][overall' \in Gone /\ overall' # overall =>
         deployed = {} /\ \A p \in Phase : built[p] = NoDomain]_vars

(***************************************************************************)
(* Every command ends: no order of phases or addons is circular, and no    *)
(* step waits for another command.                                         *)
(***************************************************************************)
CommandEnds == pc # "idle" ~> pc = "idle"

(***************************************************************************)
(* docs/cli.md: "uninstall those components and their dependents first     *)
(* (retaining data), revise the profile, then reinstall".  With no command *)
(* running and the cluster left alone, bind accepts the next one.          *)
(***************************************************************************)
ReinstallAccepted == pc = "idle" => BindAccepted

\* The pairs of phases of which the first comes before.
PhasePairs == {pair \in Phase \X Phase : Before(pair[1], pair[2])}

Promise == INSTANCE PhaseOrder WITH Order <- PhasePairs

(***************************************************************************)
(* Whatever fails, is killed or is asked for next, installs and removals   *)
(* keep to the order of PhaseOrder.tla: an apply or a removal of a phase   *)
(* is one of its steps, and nothing else they do touches a phase.          *)
(***************************************************************************)
ImplementsPhaseOrder == Promise!Spec

=============================================================================
