# TLA+ models of enkictl

`enkictl` (`src/cli/enkictl`) installs the platform's components and addons on a
Kubernetes cluster with kubectl and helm, and removes them again. It is a
one-shot program: everything it knows between two commands is in
`inventory.yaml` next to the profile, everything it did is in the cluster, and
any command may fail, time out or be killed between two requests. What makes it
correct is the agreement between these two, over sequences of commands, failures
and changes that others make to the cluster. That is what these modules are about.

## The system

| Part | State | Operations | Hard |
|---|---|---|---|
| Resource ledger, `lifecycle.py` | `resources` of the inventory: one record per object, status and uid | `intend`, `applied`, `apply`, `register_generated_secret`, `check_owned`, `conflicts`, `delete`, the loops of `install` and `uninstall` | a stop between a request and the save; others that create and delete objects between a check and the request it was for; finalizers |
| Components and addons, `main.py`, `lifecycle.py`, `components/`, `addons/` | `components`, `addons`, `status`, `cluster_uid` of the inventory; `profile.yaml`; the marker ConfigMap | component, addon and profile `install` / `uninstall [--purge]` | statuses left by failed commands; what still counts as a dependent; topology revised between two commands; order of phases |
| Generated credentials | `credentials` of the inventory, `secrets.yaml`, Secrets in the cluster | `required_credentials`, `check_credentials`, `credentials`, `secret` | three places, saved one after the other; nothing may be rotated |
| Helm releases | `releases` of the inventory, records with `release` | `helm_install`, the helm parts of `uninstall` | release by name, objects by uid |
| Generated children | records of phase `generated` | `capture_generated` | fixpoint over owner references |
| Dependency resolution | none | `resolve`, `removal`, `addon_order` | none; pure |
| LibreChat uploads | a volume, a Deployment, an archive | `_check_upload_migration`, `_restore_uploads` | files that change meanwhile |
| Preflight, rendering, configuration, tool runner, Firecrawl shim | none kept | | data |

The parts call each other as follows. A command of `main.py` prepares a
`Deployment` and an `Installation`, which reads the inventory; `checked` runs the
preflight and `conflicts`; `install` calls `bind` (cluster, topology, marker),
and then, for every phase of every component it acts on, the credentials, the
Helm releases, `apply` for each object, `wait_phase` and `capture_generated`.
`uninstall` does the reverse and calls `delete`. All of them go through
`Runner.run` to the cluster; an error there is a `StackError`, which ends the
command. There are no threads: concurrency is that of the cluster and its other
clients, and of the commands one after the other on what the last one left.

What each part must guarantee: the ledger, that nothing enkictl made is lost
track of and nothing else is removed; components and addons, that dependencies
hold and the recorded statuses tell the truth about the cluster; credentials,
that none is rotated; releases, as the ledger; the resolution functions, that
they return dependencies first; the uploads, that no file is lost.

## Modules

| Module | What it is |
|---|---|
| `Cluster` | the Kubernetes API as the ledger uses it: identities, uids, one label, finalizers, other clients (external: its code is not in this repository) |
| `Ownership` | abstract: what the inventory promises about the objects of the cluster |
| `Inventory` | the resource ledger; implements `Ownership` |
| `InventoryProofs` | theorems about `Inventory`, checked with TLAPS |
| `PhaseOrder` | abstract: the order and the topology in which phases come and go in the cluster |
| `Components` | components, addons and the commands over them; implements `PhaseOrder` |
| `ComponentsProofs` | theorems about `Components` |
| `Credentials` | generated credentials in secrets.yaml, the inventory and the cluster |
| `CredentialsProofs` | theorems about `Credentials` |
| `Release` | one Helm release, the objects of its chart and what controllers make for them |
| `ReleaseProofs` | theorems about `Release` |
| `LibreChat` | what the LibreChat addon keeps over upgrades, removals and reinstallations: a database password, a token, users' files |
| `LibreChatProofs` | theorems about `LibreChat` |
| `MCInventory`, `MCComponents`, `MCCredentials`, `MCRelease`, `MCLibreChat` | instances for TLC |

### Inventory and the code

`file` is the list `resources` of `inventory.yaml`, as a function from
identities to `[status, uid]`; `absent` stands for no record, uid 0 for a record
without one. `object` is the cluster: for each identity the object it holds.
The code keeps the records in memory and writes the whole list before the next
request, so `file` is both; the only change that stays in memory for longer,
`unverified` (lifecycle.py:1074, saved at 1084), is in `spared`. `made` is a
history variable: the uids of the objects that came into being through a request
of enkictl.

One action is one cluster request with the statements up to the next one.
`VerifyInstall`, `RefuseInstall` are `conflicts`; `Apply`, `KubectlApply`,
`RecordApplied` the three parts of `apply`, `ShareCrd` its early return;
`RegisterSecret`, `LabelSecret`, `RecordApplied` those of
`register_generated_secret`; `VerifyRemoval`, `BeginDelete` the first half of
`uninstall`; `DeleteAbsent`, `DeleteCheck`, `DeleteCall`, `DeleteWait` those of
`delete`; `RetainCrd` the loop that keeps CRDs in use. `Fault` ends the command
anywhere. `World` is everybody else: objects appear, with any label (a restored
backup may carry ours), go away when their finalizer is done, and, if they are
in `Meddled`, are deleted at any time. Resources of one loop are taken in
any order, which includes the order of the code, except that the kinds to keep
come last.

The two exceptions of `check_owned` (lifecycle.py:219-232) apply to objects made
by Helm and by controllers; they are in `Release`.

### Components and the code

`status`, `topology`, `addonStatus`, `overall`, `bound` are `components[*].status`,
`components[*].topology`, `addons[*].status`, `status` and `cluster_uid` of the
inventory; `marker` the ConfigMap `enki-<id>`; `built` gives for every phase the
topology of the objects it has in the cluster, `deployed` the addons that have
any; `domain` is what `profile.yaml` asks for. A command puts components and
addons on its agenda and takes them one by one, each with the checks of its own
(`prepare` and `bind` run again for each). An action ends at the next save or
the next change of the cluster. The order that `resolve` returns is a linear
extension of `Before`; the model takes any. A `StackError` is `FailComponents`
or `FailAddon` (the handlers that write `failed`), everything else that ends a
command early (a kill, an error during a removal, a refusal by the state of the
cluster) is `Kill`.

Dependents that are not simply installed count too, and differently: `status`
says `installing` or `failed` of a component that is partly installed
(`DependenciesHeld`), but a removal of something removed before says `removing`
again, of what has nothing left. What is partly removed is therefore judged by
what it has in the cluster: phases in `Backed`, addons in `AddonsHeld`.

### Credentials and the code

`local` is `secrets.generated` in `secrets.yaml`, `memory` the copy the command
works on, `registered` the keys of `credentials` in the inventory, `recorded` the
Secrets whose record says `applied`, `clients` the `staticClients` of
`dex-config`. A value is the number of its generation: 0 is none, 1 the first
one there was. `Preflight` and `RefuseInstall` are the credential part of
`conflicts`; `Issue`, `SaveSecrets`, `Register` the first part of `credentials`,
cut at its two saves; `CheckSecret`, `PutSecret`, `RecordSecret` are `secret`,
once for each Secret of the component; `RefuseIssue` and `RefuseSecret` its
errors. Installing and removing appear only as far as credentials depend on
them: what a command acts on, when a component counts as installed, when Dex
gets its clients, what a purge deletes (the request and the save are one action
here; `Inventory` has them apart). The initial states include profiles whose
auth an older release installed, in whose Secret and client list the later
clients may or may not be. Not enkictl: `LoseSecrets`, `RestoreSecrets` (the last
value of each key that enkictl wrote), `EditSecrets`, all between two commands.
`zot-push` and `zot-pull`, which are derived from registered keys inside one
Secret whose other keys are compared, and secrets the operator supplies, are
left out.

### Release and the code

`object` gives for each object of the chart (`Item`) and each child the uid,
the label and the owner's uid it has in the cluster; `file` its record in
`inventory.yaml`, `release` the status of the release's record; `helm` says
whose the Helm release of that name is. One component has one release here. The
exceptions of `check_owned` are `Exempt`: an object in the release's namespace
that carries Helm's labels, `app.kubernetes.io/instance` among them (`Instanced`),
may have another uid than recorded (lifecycle.py:222-228), and so may a child
labelled by the template of a workload's claims (229-232); a cluster-scoped
object (`Global`) may not, since its record has no namespace to compare with,
and neither may an object whose chart sets no `instance` label (225).

`VerifyInstall` is the release part of `conflicts`; `RegisterRelease`, `Intend`,
`HelmUpgrade`, `ReadManifest`, `CaptureItem`, `FinishRelease` are `helm_install`
cut at its requests and saves; `Capture`, `LabelChild`, `RecordChild` are
`capture_generated`: what it finds through owners at any depth (`OwnedUids`), the
label it sets by name, the record it makes of the uid read before. In
`uninstall`: `VerifyRemoval`, `Detach` (owner references of Secrets and volumes
are taken away), `DeleteChild`, `HelmUninstall`, `ReleaseDeleted`, `PurgeData`;
`delete` is one action here and several in `Inventory`. Helm makes and removes
objects one at a time by name (`HelmApply`, `HelmDelete`), refuses names that are
taken by something it has not made, and knows nothing of the ledger. `helm
uninstall` goes by the release's name: the command verifies whose release it is
(`VerifyRemoval`) and does not look again, so `HelmUninstall` takes whichever
release has the name by then, and of one that others made, any objects
(`Uninstalled`). Controllers
make children whenever their parent is there (`Spawn`), garbage collection takes
what has lost its owner (`Collect`), others delete and make objects of the chart
(`Disturb`) or use the release's name (`ReleaseTheirs`), before and during a
removal.

`witness` and `looked` are history variables: the uids of what was ours when
`capture_generated` looked, and of what was not when the removal was verified.
`ForeignKept` says that the latter stay, except while `helm uninstall` is at work
on a release that others have put in the place of the name since the command
verified it. The exception is the code's: nothing looks again before lifecycle.py:1126.

### LibreChat and the code

`local`, `secret`, `database` are the database's password in `secrets.yaml`, in
the Secret, and the one PostgreSQL initialised its volume with. The Crawl4AI
token is in two entries of `secrets.yaml`, crawl4ai's (`crawlLocal`) and
LibreChat's (`localToken`), and in the Secrets of both (`crawl`, `copy`);
`service` is crawl4ai's Service. `Token` is the order in which `_credentials`
takes one: LibreChat's entry, crawl4ai's Secret, LibreChat's own Secret.
`TokenAccepted` asks for the Service (librechat.py:615-622) and for some token
(476-479); a token that is not crawl4ai's is saved to `secrets.yaml`
(`SaveSecrets`, 835-845), and so comes first from then on. `deployment` says where the pod
template of the live Deployment keeps uploads, `serving` which server pods run,
`container` and `volume` the files in the old pod and in the claim.
`CredentialsAccepted`, `Token`, `Kept` are `_credentials`; `UploadsAccepted` is
`_check_upload_migration`; `Check` and `RefuseCheck` end `check`. The actions from
`SaveSecrets` to `FinishInstall` are `install`, cut at every request that matters
to them; `FailInstall` is its handler. The installation asks the database with
the password it has (`OpenDatabase`), unpacks the archive in a pod of its own
(`StartRestore`, `Extract` for each file, `EndRestore`), turns a rolling update
into a recreation and then upgrades. `Installed` allows for the save inside
`capture_generated`, `FinishInstall` is the one after it. Of `uninstall_addon`
there is what concerns these things: the release, the claims under `--purge`,
which were applied after the Secrets and are therefore deleted before them, and
then the Secrets.

Meanwhile Kubernetes replaces pods according to the strategy, users upload to
whichever pod serves, the operator makes backups, loses, edits or puts back what
is in `secrets.yaml` or a Secret, and crawl4ai is installed, removed and purged,
with stops between its saves (`InstallCrawl`, `RemoveCrawl`). Three things are
assumed of them. The database's password is not lost from the Secret and from
`secrets.yaml` together, nor crawl4ai's token while LibreChat is there: what
only one place had cannot come back. The pods of a Deployment that an uninstall
deleted are gone before a new Deployment of strategy `Recreate` starts its own;
Kubernetes does not promise that, and the part of `OneServer` about upgrades does
not depend on it. Pods of the current Deployment do not stop by themselves, so
that `InstalledServes` is about the rollout.

Three history variables. `uploaded`: the files users have; only `--purge` of the
claim takes files from it. `forgone`: those of the old pod that nothing promises
to keep, which are uploads after the backup, or after a command began without
one (given up by the code and by `docs/cli.md:340-343`), and what only the old
pod had when an uninstall removed it: `uninstall_addon` counts nothing, and
`docs/cli.md:345` promises Secrets and PVCs, which the container is not.
`UploadsKept` is thus a property of upgrades and reinstallations. `shared`: the
copy was read from crawl4ai's Secret; `TokenFits` is about such copies.

## Runs

| Run | Instance | Shows |
|---|---|---|
| `ledger` | a workload and a cert-manager Secret, 3 uids, 1 fault, others delete too | `TypeOK`, `Recorded`, `RemovalComplete`, `RetainedSurvive`, `ImplementsOwnership` |
| `kept` | a CRD, which others delete too, and a volume, 3 uids, 1 fault | `RerunAccepted`, `RemovalComplete`, `RetainedSurvive`, `ImplementsOwnership` |
| `rerun_twice` | a workload, 2 faults | violates `RerunAccepted`: see below |
| `chain` | gateway (2 phases) <- auth <- monitoring, 2 topologies, 2 faults | `TypeOK`, `Backed`, `OneTopology`, `Accounted`, `DependenciesHeld`, `ImplementsPhaseOrder` |
| `addons` | gateway; searxng, and librechat which needs both; 2 faults, fair | `Accounted`, `AddonsHeld`, `AddonsFirst`, `ProfileUninstallAccepted`, `GoneIsEmpty`, `CommandEnds` |
| `reinstall` | the same, 1 fault | violates `ReinstallAccepted`: see below |
| `credentials` | auth <- monitoring; a client both have, a client older inventories lack, a password; 1 fault | `TypeOK`, `Agree`, `RegisteredSaved`, `NeverRotated` |
| `rotated` | the same with the Activepieces client | violates `NeverRotated`: see below |
| `release` | a workload others delete and replace, its pod, the pod's token (a Secret), a generated ConfigMap; 6 uids, 1 fault | `TypeOK`, `WriteAhead`, `ChildrenAccepted`, `DataSurvives`, `RemovalComplete`, `ForeignKept` |
| `release_global` | a chart with a cluster-scoped object, no fault | violates `ReinstallAccepted`: see below |
| `release_stopped` | a workload and a generated object, 1 fault | violates `CaptureAccepted`: see below |
| `librechat` | two files, 5 passwords and tokens, 3 faults or losses; nothing installed, or an older version | `TypeOK`, `UploadsKept`, `DatabaseOpens`, `OneServer`, `TokenFits`, `InstalledServes` |

Bounds. Records of different identities never meet in the ledger except in the
order of the loops, so two resources, of every pair of kinds that the loops
treat differently, show every interaction; three uids let an object be made,
replaced and made again. `MaxUid` stops new objects and new installs, `MaxFaults`
failures; commands are not bounded. `MaxGeneration` is 3: a credential may be
generated, edited, purged and generated again; at the bound no further install
starts. Two Secrets that share one credential are the least at which values can
disagree. Once the uids are used up and everything is
gone an idle CLI has nothing to do, so the runs of the ledger, of the release
and of LibreChat do not check deadlock; the other runs, where something can
always happen next, do. Three components show a dependency through another one;
two faults, a failure of the attempt to repair a failure. The release's children
reach two levels below the chart (workload, pod, token), so that an owner of an
owner is the only link; six uids let each object be made and one chain be made
anew after its capture. Two files let one be in the archive and the other late;
three faults let an installation stop, its repair stop, and a credential be lost
on top.

Fairness. `FairSpec` asks for weak fairness of a command's own steps and of
nothing else: `Runner.run` gives every tool call a timeout (tools.py:30-57) and
the calls of kubectl and helm carry `--timeout`, so a step happens or the command
fails. No operator is obliged to start a command. The run `addons` checks
`CommandEnds` under it.

## Findings

`RerunAccepted` with two faults. `intend` forgets a record's uid only when it is
marked deleted. A stop after a DELETE and before that mark is saved leaves the
old uid; a rerun of the install that stops between `kubectl apply` and `applied`
leaves a new object beside it. Every command then answers "Resource was
replaced". With one fault (`kept`) the rerun is always accepted.

`ReinstallAccepted`. `bind` saves `cluster_uid` before it applies the marker. A
first install that stops there may be rerun, but an uninstall, which is accepted
as well, sets the status to `uninstalled`, after which `bind` insists on a marker
that never existed.

`NeverRotated` with the Activepieces client. `check_credentials` compares every
generated key of `dex-secrets` except `ACTIVEPIECES_CLIENT_SECRET`
(lifecycle.py:532-538). A changed value in `secrets.yaml` is applied over the one
in use; the run `credentials` shows that for compared keys it is refused.

`ReinstallAccepted` of `Release`. A chart with a ClusterRole, installed,
uninstalled and installed again, is refused as replaced: the ledger's record of
an object that Helm removed stays `applied` with its old uid, and the exception
for such objects compares the release's namespace with the record's, which is
empty for a cluster-scoped object (lifecycle.py:227). No fault is needed. The
run `release` has a chart without one.

`CaptureAccepted`. `capture_generated` labels before it records
(lifecycle.py:927-938). What has a label and no record counts as the work of an
unknown component (875-880), in every later command: a stop in between needs
somebody to remove the label by hand. The label goes by name and the record has
the uid that was read before, so a child made anew in between ends the same way
without a stop; in the instance of the run the uids do not suffice for that.

Seen on the way and not a promise of anything: `credentials` recovers a missing
Activepieces key from Dex "including tracked credentials" (lifecycle.py:618), but
`conflicts` (lifecycle.py:305) refuses a registered key that is missing before
`credentials` is called, so only keys that are not registered yet are ever
recovered; and its refusal of keys that it cannot recover (642-652) is never
reached, since `conflicts` has refused before (theorem `NeverWithheld`). A
release record marked deleted lets the next install upgrade a release of that
name that somebody else has made since (lifecycle.py:285), and an uninstall
removes one that somebody else has put there since it verified (1126).

## Proofs

`InventoryProofs` proves, for any set of resources, any kinds and any bounds
(assumptions `KindAssumption`, `BoundAssumption` of `Inventory`, which say that
the kinds are subsets of the resources and the bounds numbers):

- `TypeCorrect`: `Spec => []TypeOK`;
- `WriteAhead`: `Spec => []Recorded`;
- `RemovalLeavesNothing`: `Spec => RemovalComplete`;
- `DeletesOnlyItsOwn`: `Spec => RetainedSurvive`;
- `LedgerRefines`: `Spec => ImplementsOwnership`;
- `RerunAfterOneFault`: `Spec => [](faults <= 1 => RerunAccepted)`.

All rest on the invariant `Inductive`. `Recorded` is not inductive: that a
`kubectl apply` keeps it depends on the intent still being in the file
(`Intending`), that a saved `deleted` keeps it on the object being gone, that no
cert-manager Secret is ever in `made` on `CertSecretsMadeElsewhere`.
`RemovalComplete` needs `Cleared`, what the deletion loops have behind them, and
the refinement `CheckedStays`: what `delete` read is still true of the object
its request finds, because a uid is not used twice (`UidsBounded`) and the
request carries it. Each conjunct has a lemma per half of the program
(`InstallKeeps...`, `UninstallKeeps...`), and the theorems are the PTL steps.

`RerunAfterOneFault` is the documented promise as far as the code keeps it: the
run `rerun_twice` refutes it for two faults, the theorem has it for one, wherever
it happens, and for any `MaxFaults`. `Rerunning` says why. Before the first fault
every uid in the file is that of the object there, unless its deletion is being
waited for (`NoneStale`), so what `kubectl apply` creates has a record without
uid. After one fault a stale uid may meet a new object, but only between
`kubectl apply` and the saving of the new uid (`UidsMatch`), and it takes a
second fault to end the command there.

`ReleaseProofs` proves, for any chart, any children under any owners, any data
and any bounds (`ReleaseAssumption`: which sets are subsets of which; that claims
made from a template, and data, are of kinds that `capture_generated` records):

- `ReleaseTyped`: `Spec => []TypeOK`;
- `RenderedIsIntended`: `Spec => []WriteAhead`;
- `CapturedIsAccepted`: `Spec => []ChildrenAccepted`;
- `DataIsKept`: `Spec => DataSurvives`;
- `RemovalIsComplete`: `Spec => RemovalComplete`;
- `ForeignIsKept`: `Spec => ForeignKept`.

The argument runs from the capture to the end of the removal. `Uids` says that a
uid which anything remembers (a record, a reading of `capture_generated`, the
history variables) is that of no other object, `Labels` that a live object the
ledger knows by uid carries the label. With these `Captures` holds: what was
ours when `capture_generated` looked is either still to come in its loop, with
the uid it read, or labelled and known by its uid. When the loop ends that is
`ChildrenAccepted`, and it is why the loops that follow miss nothing:
`Detaching` (no data of ours has an owner once things are removed, so collecting
what lost its owner does not reach it) and `Clearing` (what each loop still has
to take). `Helms` closes the case that Helm no longer has the release: then
nothing of the chart but its data is there. `Owning` is defined as the least set
closed under ownership and not by recursion, so that the only facts needed of it
are that it is below every closed set and monotone (`OwningLeast`,
`OwningMonotone`). Each step has a lemma that states its effect without EXCEPT
(`HelmApplyMakes`, `LabelChildLabels` and so on), and each conjunct of the
invariant one that goes over the steps (`UidsKept`, `CapturesKept` and so on).

`LibreChatProofs` proves, for any files and bounds (`LibreChatAssumption`: there
are at least two values to choose a password from), every property of the run
`librechat`: `TypeCorrect`, `NoUploadLost`, `DatabaseCanBeOpened`,
`NeverTwoServers`, `TokenIsCurrent`, `InstalledIsUp`. None of the properties is
inductive by itself. `Passwords` adds that the password of a running install is
that of the database, and that a purge takes the claim before the Secret;
`Tokens` that a token read from crawl4ai's Secret stays the one there, or in
`secrets.yaml` while that Secret is lost, from the check on; `Servers` that whoever mounts the volume
has the strategy `Recreate`; `Serves` that the status changes before the
Deployment does; `Files` where each file is between the old pod, the archive and
the volume.

`ComponentsProofs` proves, for any registry of components, phases and addons, any
topologies and any number of commands and failures (`RegistryAssumption`: the
tables are functions, every component has a phase, and the markers for "none" are
not values), every property of the runs `chain` and `addons` but the liveness:
`ComponentTypes`, `PhasesBacked`, `TopologiesAgree`, `ClusterAccounted`,
`DependenciesAreHeld`, `AddonsAreHeld`, `AddonsGoFirst`,
`ProfileUninstallIsAccepted`, `GoneMeansEmpty`, and `PhasesRefine` (`Spec =>
ImplementsPhaseOrder`). None of these needs the
dependencies to be free of cycles: the properties speak of the transitive closure
(`Closure`, the least closed set, of which reflexivity, closedness and
transitivity suffice). The invariant has to say what the two loops have behind
them: `Installation` (the phases done are built for the topology asked for, a
component's in their order, and a component is installed once its last one is
done), `Planned` (what is not worked on but needed is installed, for the same
topology), `Removal` (the phases done are gone, and nothing active needs those
to come). `Whole` and `TopologyRecorded` carry that from one command to the
next: an installed component has all its phases, and the recorded topology is
that of what is built. `AddonOrder` and `Agenda` are what remains true of an
agenda while its items are taken; with them the profile uninstall's own checks
cannot refuse it. `PhasesRefine` says of the steps what `PhasesBacked` and
`TopologiesAgree` say of the states: an apply goes on top of phases that are all
in place for its own topology (by `Planned`, `Installation` and
`TopologyRecorded`), so no phase is moved to another topology where it stands,
and what a removal takes away has nothing above it (by `Removal` and `Accounted`).

Two theorems more are about how commands end. `NoCommandIsStuck`, for registries
without a cycle (`Acyclic`: a rank as `resolve` and `addon_order` compute it,
which raise on a cycle): whenever a command runs there is a phase that no other
has to precede, or that precedes no other, or an addon whose turn it is, or the
agenda is done. It is the safety half of `CommandEnds`; a cycle among two addons
breaks it. Least elements are had from the well-foundedness of the naturals
(`WFMin`), without induction. `RebindAccepted`: what the run `reinstall` refutes
after one stop holds without any.

`CredentialsProofs` proves, for any components, Secrets and keys, and any number
of commands, failures, edits and losses of `secrets.yaml`:

- `CredentialTypes`, `CredentialsAgree`, `RegisteredWasSaved`: `TypeOK`, `Agree`,
  `RegisteredSaved`;
- `ComparedNeverRotated`: `NeverRotated` for the keys that `check_credentials`
  compares, which is all but the Activepieces client's, and for all keys that none
  in use is generated anew;
- `NeverWithheld`: `credentials` never reaches its last refusal.

`CredentialAssumption` says of the tables what the code's have: `dex-secrets` is
auth's one Secret and the keys in it are auth's own (auth.py:50-77), every other
key is in a Secret of the component that owns it (kubeflow_hub.py:117-118,
monitoring.py:84-85). The argument follows a credential through the command.
`InUse`: a value in a Secret is registered, or one of the clients that older
releases left in Dex; so what `conflicts` accepted as missing (`Accepted`) is in
no Secret, or is recovered from Dex and not generated. `OneValue`: unless somebody
edited it, what is in the Secrets is what was written to `secrets.yaml` last,
which the command's copy has too, also between its two saves. `Compared`: what
was compared is what `kubectl apply` is about to replace. `Bounded` is about the
model's bound: generations suffice for what a run that started may generate.

Model-checked only: `CommandEnds`, since fairness and ENABLED are out of the
prover's reach, and the five properties that runs refute. What is left of three of
these is proved: `RerunAccepted` up to one fault, `NeverRotated` of the keys that
are compared, the `ReinstallAccepted` of `Components` without faults.
`ReinstallAccepted` of `Release` would hold by the definition of `Exempt` for
charts that have no cluster-scoped objects and whose objects all carry
`app.kubernetes.io/instance`; `CaptureAccepted` has no such hypothesis (see its
finding).

## Not modelled

`init` and `configure` (interactive input), rendering and marking of manifests
(text), configuration validation, the checks that read versions and capacity
(no state), the Firecrawl shim (stateless), manifests, charts. Concurrent enkictl
processes: the code has no lock and promises nothing. Of modelled parts: to which
of several components `capture_generated` attributes an object, LibreChat's
Firecrawl, CodeAPI and Dex client keys (compared and copied as the token is), what each component's ready hook asks the cluster.

## Plan

1. `Resolution`: `resolve`, `removal` and `addon_order` as recursive functions,
   against `Closure` and `Before` over bounded registries, and proved, by a
   smallest counterexample, to return dependencies first.
2. `Quantity`: the parsing and comparing of capacities in the preflight.
3. `Components`: an abstract specification of the addons like `PhaseOrder` for the
   phases, in place of `AddonsHeld` and `AddonsFirst`, and the refinement.
