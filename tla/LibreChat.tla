----------------------------- MODULE LibreChat -----------------------------
(***************************************************************************)
(* What the LibreChat addon keeps over an upgrade, a removal and a         *)
(* reinstallation (cli/enkictl/addons/librechat.py): the password that its *)
(* database was created with, its copy of the Crawl4AI token, and the      *)
(* files that users have uploaded, which move from the container to a      *)
(* volume while the old server may still be taking uploads.                *)
(*                                                                         *)
(* The ledger (Inventory), the status of addons (Components) and the Helm  *)
(* release (Release) are modules of their own: here a resource is there or *)
(* it is not.                                                              *)
(***************************************************************************)
EXTENDS Naturals, FiniteSets

CONSTANTS
    File,       \* what users may upload
    MaxValue,   \* bound on the passwords and tokens there ever are
    MaxFaults   \* bound on failures, kills and losses

ASSUME LibreChatAssumption ==
    /\ MaxValue \in Nat \ {0, 1}
    /\ MaxFaults \in Nat

VARIABLES
    local,      \* secrets.yaml: RAG_POSTGRES_PASSWORD, 0 when it has none
    secret,     \* its Secret in the cluster
    database,   \* the password that the database volume was created with
    localToken, \* secrets.yaml: CRAWL4AI_API_TOKEN of LibreChat, or 0
    copy,       \* the token in LibreChat's Secret
    crawlLocal, \* secrets.yaml: the token of crawl4ai
    crawl,      \* the token in crawl4ai's Secret
    service,    \* crawl4ai's Service is there
    minted,     \* how many values have been drawn
    deployment, \* where the live Deployment keeps uploads
    strategy,   \* and its update strategy
    serving,    \* the server pods that run, by where they keep uploads
    container,  \* the files in the old pod
    volume,     \* the files in claim librechat-uploads
    restoring,  \* pod librechat-upload-restore is there
    archive,    \* the operator's backup
    status,     \* inventory.yaml: status of the addon
    pc,
    given,      \* --uploads-archive
    purge,      \* --purge
    password,   \* what check() has returned
    token,
    external,   \* the token is crawl4ai's: not saved
    todo,       \* what the present loop has not done
    uploaded,   \* observability: files that users have, and have not removed
    forgone,    \* observability: those of the old pod that nothing promises to keep
    shared,     \* observability: the copy was read from crawl4ai's Secret
    faults

passwords == <<local, secret, database>>
tokens == <<localToken, copy, crawlLocal, crawl, service>>
credentials == <<passwords, tokens, minted>>
uploads == <<deployment, strategy, serving, container, volume, restoring, archive>>
command == <<pc, given, purge, password, token, external, todo>>
history == <<uploaded, forgone, shared>>
vars == <<credentials, uploads, status, command, history, faults>>

Place == {"container", "volume"}
Value == 0..MaxValue
Gone == {"absent", "uninstalled", "purged"}

Installing ==
    {"secrets", "content", "database", "restore", "extract", "strategy", "helm", "rollout",
     "capture"}

TypeOK ==
    /\ local \in Value /\ secret \in Value /\ database \in Value
    /\ localToken \in Value /\ copy \in Value
    /\ crawlLocal \in Value /\ crawl \in Value /\ service \in BOOLEAN
    /\ minted \in Value
    /\ deployment \in Place \cup {"none"}
    /\ strategy \in {"RollingUpdate", "Recreate"}
    /\ serving \subseteq Place
    /\ container \subseteq File /\ volume \subseteq File
    /\ "container" \notin serving => container = {}
    /\ restoring \in BOOLEAN
    /\ archive \in [made : BOOLEAN, files : SUBSET File]
    /\ status \in Gone \cup {"installing", "installed", "failed", "uninstalling"}
    /\ pc \in {"idle", "check", "save", "secrets", "content", "database", "restore",
               "extract", "strategy", "helm", "rollout", "capture",
               "release", "claims", "keys"}
    /\ given \in BOOLEAN /\ purge \in BOOLEAN
    /\ password \in Value /\ token \in Value /\ external \in BOOLEAN
    /\ pc \in Installing => password # 0 /\ token # 0
    /\ todo \in SUBSET (File \cup {"database", "uploads"})
    /\ uploaded \subseteq File /\ forgone \subseteq File /\ shared \in BOOLEAN
    /\ faults \in 0..MaxFaults

Rest ==
    /\ pc = "idle" /\ given = FALSE /\ purge = FALSE
    /\ password = 0 /\ token = 0 /\ external = FALSE /\ todo = {}

\* Nothing is installed, or a version is that had no volume for uploads.
Init ==
    /\ \/ /\ deployment = "none" /\ serving = {} /\ status = "absent"
          /\ local = 0 /\ secret = 0 /\ database = 0 /\ copy = 0 /\ minted = 1
          /\ shared = FALSE
       \/ /\ deployment = "container" /\ serving = {"container"} /\ status = "installed"
          /\ local = 2 /\ secret = 2 /\ database = 2 /\ copy = 1 /\ minted = 2
          /\ shared = TRUE
    /\ localToken = 0 /\ crawlLocal = 1 /\ crawl = 1 /\ service = TRUE
    /\ strategy = "RollingUpdate"
    /\ container = {} /\ volume = {} /\ restoring = FALSE
    /\ archive = [made |-> FALSE, files |-> {}]
    /\ Rest
    /\ uploaded = {} /\ forgone = {} /\ faults = 0

Goto(step) == pc' = step /\ UNCHANGED <<given, purge, password, token, external, todo>>

\* The process ends.
Quit ==
    /\ pc' = "idle" /\ given' = FALSE /\ purge' = FALSE
    /\ password' = 0 /\ token' = 0 /\ external' = FALSE /\ todo' = {}

-----------------------------------------------------------------------------
(***************************************************************************)
(* check                                                                   *)
(***************************************************************************)

StartInstall(g) ==
    /\ pc = "idle"
    /\ g => archive.made
    /\ minted < MaxValue                            \* bound
    /\ pc' = "check"
    /\ given' = g
    /\ UNCHANGED <<credentials, uploads, status, history, faults,
                   purge, password, token, external, todo>>

\* _credentials: refused when secrets.yaml and a Secret differ, or when there
\* is a volume and no Secret.
CredentialsAccepted ==
    /\ local = 0 \/ secret = 0 \/ local = secret
    /\ localToken = 0 \/ copy = 0 \/ localToken = copy
    /\ database # 0 => secret # 0

\* Mutant: the copy there is stays.
Token_Old == IF localToken # 0 THEN localToken ELSE IF copy # 0 THEN copy ELSE crawl

\* What secrets.yaml has, then crawl4ai's Secret, then the copy of an earlier
\* installation.
Token == IF localToken # 0 THEN localToken ELSE IF crawl # 0 THEN crawl ELSE copy

\* Some token there must be; of crawl4ai, only the Service.
TokenAccepted == service /\ Token # 0

\* Mutant: with an archive or without, the old pod is not looked into.
UploadsAccepted_Uncounted == deployment = "volume" => ~given

\* _check_upload_migration
UploadsAccepted ==
    /\ deployment = "volume" => ~given
    /\ deployment = "container" /\ ~given => container = {} /\ "container" \in serving

\* A value there is stays; a missing one is drawn.
Kept == IF secret # 0 THEN secret ELSE local

\* Mutant: only what was found is returned.
Check_Undrawn ==
    /\ pc = "check"
    /\ CredentialsAccepted /\ TokenAccepted /\ UploadsAccepted
    /\ minted' = IF Kept = 0 THEN minted + 1 ELSE minted
    /\ password' = Kept
    /\ token' = Token
    /\ external' = (localToken = 0 /\ crawl # 0)
    /\ pc' = "save"
    /\ UNCHANGED <<passwords, tokens, uploads, status, history, faults, given, purge, todo>>

Check ==
    /\ pc = "check"
    /\ CredentialsAccepted /\ TokenAccepted /\ UploadsAccepted
    /\ minted' = IF Kept = 0 THEN minted + 1 ELSE minted
    /\ password' = IF Kept = 0 THEN minted' ELSE Kept
    /\ token' = Token
    /\ external' = (localToken = 0 /\ crawl # 0)
    /\ pc' = "save"
    /\ UNCHANGED <<passwords, tokens, uploads, status, history, faults, given, purge, todo>>

RefuseCheck ==
    /\ pc = "check"
    /\ ~(CredentialsAccepted /\ TokenAccepted /\ UploadsAccepted)
    /\ Quit
    /\ UNCHANGED <<credentials, uploads, status, history, faults>>

-----------------------------------------------------------------------------
(***************************************************************************)
(* install                                                                 *)
(***************************************************************************)

\* secrets.yaml first, then the inventory.  A copy that stood in for crawl4ai's
\* Secret is saved as if the operator had supplied it.
SaveSecrets ==
    /\ pc = "save"
    /\ local' = password
    /\ localToken' = IF external THEN localToken ELSE token
    /\ status' = "installing"
    /\ Goto("secrets")
    /\ UNCHANGED <<secret, database, copy, crawlLocal, crawl, service, minted,
                   uploads, history, faults>>

ApplySecrets ==
    /\ pc = "secrets"
    /\ secret' = password
    /\ copy' = token
    /\ shared' = external
    /\ Goto("content")
    /\ UNCHANGED <<local, database, localToken, crawlLocal, crawl, service, minted,
                   uploads, status, uploaded, forgone, faults>>

\* The claims and the workloads; a new volume takes the Secret's password.
ApplyContent ==
    /\ pc = "content"
    /\ database' = IF database = 0 THEN secret ELSE database
    /\ Goto("database")
    /\ UNCHANGED <<local, secret, tokens, minted, uploads, status, history, faults>>

\* psql -c "SELECT 1"
OpenDatabase ==
    /\ pc = "database"
    /\ database = password
    /\ Goto("restore")
    /\ UNCHANGED <<credentials, uploads, status, history, faults>>

\* The pod that mounts the volume.
StartRestore ==
    /\ pc = "restore"
    /\ IF given
       THEN /\ restoring' = TRUE
            /\ todo' = archive.files
            /\ pc' = "extract"
       ELSE /\ pc' = "strategy"
            /\ UNCHANGED <<restoring, todo>>
    /\ UNCHANGED <<credentials, deployment, strategy, serving, container, volume, archive,
                   status, history, faults, given, purge, password, token, external>>

\* tar -xf -
Extract(f) ==
    /\ pc = "extract"
    /\ f \in todo
    /\ volume' = volume \cup {f}
    /\ todo' = todo \ {f}
    /\ UNCHANGED <<credentials, deployment, strategy, serving, container, restoring, archive,
                   status, history, faults, pc, given, purge, password, token, external>>

EndRestore ==
    /\ pc = "extract" /\ todo = {}
    /\ restoring' = FALSE
    /\ Goto("strategy")
    /\ UNCHANGED <<credentials, deployment, strategy, serving, container, volume, archive,
                   status, history, faults>>

\* Mutant: the strategy is left to Helm.
EnsureRecreateStrategy_Skipped ==
    /\ pc = "strategy"
    /\ Goto("helm")
    /\ UNCHANGED <<credentials, uploads, status, history, faults>>

\* _ensure_recreate_strategy
EnsureRecreateStrategy ==
    /\ pc = "strategy"
    /\ strategy' = IF deployment = "none" THEN strategy ELSE "Recreate"
    /\ Goto("helm")
    /\ UNCHANGED <<credentials, deployment, serving, container, volume, restoring, archive,
                   status, history, faults>>

\* helm_install: the new pod template.  Helm leaves the strategy of a
\* Deployment there is alone; a new one has the chart's.
HelmUpgrade ==
    /\ pc = "helm"
    /\ deployment' = "volume"
    /\ strategy' = IF deployment = "none" THEN "Recreate" ELSE strategy
    /\ Goto("rollout")
    /\ UNCHANGED <<credentials, serving, container, volume, restoring, archive,
                   status, history, faults>>

\* Mutant: the upgrade is not waited for.
Installed_Early ==
    /\ pc = "rollout"
    /\ status' \in {status, "installed"}
    /\ Goto("capture")
    /\ UNCHANGED <<credentials, uploads, history, faults>>

\* --wait, the route; "installed" is set before capture_generated, which may
\* or may not save the inventory.
Installed ==
    /\ pc = "rollout"
    /\ serving = {"volume"}
    /\ status' \in {status, "installed"}
    /\ Goto("capture")
    /\ UNCHANGED <<credentials, uploads, history, faults>>

FinishInstall ==
    /\ pc = "capture"
    /\ status' = "installed"
    /\ Quit
    /\ UNCHANGED <<credentials, uploads, history, faults>>

\* A StackError: the pod is deleted (which may fail too), "failed" is saved.
FailInstall ==
    /\ pc \in Installing
    /\ \/ faults < MaxFaults /\ faults' = faults + 1
       \/ pc = "database" /\ database # password /\ UNCHANGED faults
    /\ restoring' \in IF pc = "extract" THEN {FALSE, restoring} ELSE {restoring}
    /\ status' = "failed"
    /\ Quit
    /\ UNCHANGED <<credentials, deployment, strategy, serving, container, volume, archive,
                   history>>

-----------------------------------------------------------------------------
(***************************************************************************)
(* uninstall_addon, as far as it goes for what the addon keeps             *)
(***************************************************************************)

StartRemoval(p) ==
    /\ pc = "idle"
    /\ status # "absent"
    /\ status \in Gone => p
    /\ status' = "uninstalling"
    /\ purge' = p
    /\ pc' = "release"
    /\ UNCHANGED <<credentials, uploads, history, faults,
                   given, password, token, external, todo>>

\* Workloads and the restore pod, then the release.  Nothing is counted: what
\* only the old pod has goes with it.
RemoveRelease ==
    /\ pc = "release"
    /\ deployment' = "none"
    /\ restoring' = FALSE
    /\ forgone' = forgone \cup (container \ volume)
    /\ todo' = IF purge THEN {"database", "uploads"} ELSE {}
    /\ pc' = "claims"
    /\ UNCHANGED <<credentials, strategy, serving, container, volume, archive, status,
                   uploaded, shared, faults, given, purge, password, token, external>>

\* Mutant: the Secrets go before the claims.
DeleteClaim_SecretFirst(c) ==
    /\ pc = "claims"
    /\ c \in todo
    /\ secret' = 0 /\ copy' = 0 /\ shared' = FALSE
    /\ database' = IF c = "database" /\ secret = 0 THEN 0 ELSE database
    /\ todo' = IF secret = 0 THEN todo \ {c} ELSE todo
    /\ UNCHANGED <<local, localToken, crawlLocal, crawl, service, minted, uploads, status,
                   uploaded, forgone, faults, pc, given, purge, password, token, external>>

\* --purge goes through the records in reverse: what was applied last first.
DeleteClaim(c) ==
    /\ pc = "claims"
    /\ c \in todo
    /\ IF c = "database"
       THEN database' = 0 /\ UNCHANGED <<volume, uploaded, forgone>>
       ELSE /\ serving = {}
            /\ volume' = {}
            /\ uploaded' = uploaded \ volume /\ forgone' = forgone \ volume
            /\ UNCHANGED database
    /\ todo' = todo \ {c}
    /\ UNCHANGED <<local, secret, tokens, minted, deployment, strategy, serving, container,
                   restoring, archive, status, shared, faults,
                   pc, given, purge, password, token, external>>

DeleteSecrets ==
    /\ pc = "claims" /\ todo = {}
    /\ IF purge
       THEN secret' = 0 /\ copy' = 0 /\ shared' = FALSE
       ELSE UNCHANGED <<secret, copy, shared>>
    /\ Goto("keys")
    /\ UNCHANGED <<local, database, localToken, crawlLocal, crawl, service, minted, uploads,
                   status, uploaded, forgone, faults>>

FinishRemoval ==
    /\ pc = "keys"
    /\ status' = IF purge THEN "purged" ELSE "uninstalled"
    /\ Quit
    /\ UNCHANGED <<credentials, uploads, history, faults>>

FailRemoval ==
    /\ pc \in {"release", "claims", "keys"}
    /\ faults < MaxFaults
    /\ faults' = faults + 1
    /\ status' = "failed"
    /\ Quit
    /\ UNCHANGED <<credentials, uploads, history>>

-----------------------------------------------------------------------------
(***************************************************************************)
(* Kubernetes, users, the operator                                         *)
(***************************************************************************)

Kill ==
    /\ pc # "idle"
    /\ faults < MaxFaults
    /\ faults' = faults + 1
    /\ Quit
    /\ UNCHANGED <<credentials, uploads, status, history>>

\* The Deployment's pods; those in the container are gone with the pod.
StartServer ==
    /\ deployment # "none" /\ deployment \notin serving
    /\ strategy = "Recreate" => serving = {}
    /\ serving' = serving \cup {deployment}
    /\ UNCHANGED <<credentials, deployment, strategy, container, volume, restoring, archive,
                   status, command, history, faults>>

StopServer(p) ==
    /\ p \in serving /\ p # deployment
    /\ strategy = "Recreate" \/ deployment \in serving \cup {"none"}
    /\ serving' = serving \ {p}
    /\ container' = IF p = "container" THEN {} ELSE container
    /\ UNCHANGED <<credentials, deployment, strategy, volume, restoring, archive,
                   status, command, history, faults>>

\* Of what the old pod takes after a backup, or once a command runs, the docs
\* promise nothing.
Upload(f, p) ==
    /\ p \in serving /\ deployment # "none"
    /\ f \notin container \cup volume
    /\ IF p = "container"
       THEN container' = container \cup {f} /\ UNCHANGED volume
       ELSE volume' = volume \cup {f} /\ UNCHANGED container
    /\ uploaded' = uploaded \cup {f}
    /\ forgone' = IF p = "container" /\ (pc # "idle" \/ archive.made \/ deployment = "volume")
                  THEN forgone \cup {f}
                  ELSE forgone \ {f}
    /\ UNCHANGED <<credentials, deployment, strategy, serving, restoring, archive,
                   status, command, shared, faults>>

\* The operator archives the running pod's files.
Backup ==
    /\ pc = "idle"
    /\ deployment = "container" /\ "container" \in serving
    /\ archive' = [made |-> TRUE, files |-> container]
    /\ forgone' = forgone \ container
    /\ UNCHANGED <<credentials, deployment, strategy, serving, container, volume, restoring,
                   status, command, uploaded, shared, faults>>

\* secrets.yaml is lost, or an old copy of it is put back; or the Secret is
\* deleted.  Not both.
LoseCredential ==
    /\ pc = "idle"
    /\ faults < MaxFaults
    /\ faults' = faults + 1
    /\ \/ secret = database /\ local' \in 0..minted /\ UNCHANGED secret
       \/ local = database /\ secret' = 0 /\ UNCHANGED local
    /\ UNCHANGED <<database, tokens, minted, uploads, status, command, history>>

\* "restore the original Secret"
RestoreSecret ==
    /\ pc = "idle"
    /\ secret = 0 /\ database # 0 /\ local = database
    /\ secret' = local
    /\ UNCHANGED <<local, database, tokens, minted, uploads, status, command, history, faults>>

\* LibreChat's entry is lost, or edited; crawl4ai's is; or its Secret is
\* deleted.  crawl4ai does not lose both while LibreChat is there.
LoseToken ==
    /\ pc = "idle"
    /\ faults < MaxFaults
    /\ faults' = faults + 1
    /\ \/ localToken' \in 0..minted /\ UNCHANGED <<crawlLocal, crawl>>
       \/ /\ crawl # 0 \/ status \in Gone
          /\ crawlLocal' \in 0..minted /\ UNCHANGED <<localToken, crawl>>
       \/ crawl = crawlLocal /\ crawl' = 0 /\ UNCHANGED <<localToken, crawlLocal>>
    /\ UNCHANGED <<passwords, copy, service, minted, uploads, status, command, history>>

-----------------------------------------------------------------------------
(***************************************************************************)
(* crawl4ai: a command of its own, which may stop between its saves        *)
(***************************************************************************)

CrawlAccepted == crawlLocal = 0 \/ crawl = 0 \/ crawlLocal = crawl

CrawlKept == IF crawlLocal # 0 THEN crawlLocal ELSE crawl

\* secrets.yaml, the Secret, the Service.
InstallCrawl ==
    /\ pc = "idle"
    /\ CrawlAccepted
    /\ CrawlKept = 0 => minted < MaxValue          \* bound
    /\ minted' = IF CrawlKept = 0 THEN minted + 1 ELSE minted
    /\ crawlLocal' = IF CrawlKept = 0 THEN minted' ELSE CrawlKept
    /\ \/ UNCHANGED <<crawl, service>>
       \/ crawl' = crawlLocal' /\ service' \in {service, TRUE}
    /\ UNCHANGED <<passwords, localToken, copy, uploads, status, command, history, faults>>

\* Refused while LibreChat is there.  The Service goes, with --purge the Secret
\* too; secrets.yaml stays.
RemoveCrawl ==
    /\ pc = "idle"
    /\ status \in Gone
    /\ service' = FALSE
    /\ crawl' \in {crawl, 0}
    /\ UNCHANGED <<passwords, localToken, copy, crawlLocal, minted, uploads, status, command,
                   history, faults>>

Install ==
    \/ \E g \in BOOLEAN : StartInstall(g)
    \/ Check \/ RefuseCheck
    \/ SaveSecrets \/ ApplySecrets \/ ApplyContent \/ OpenDatabase
    \/ StartRestore \/ EndRestore \/ (\E f \in File : Extract(f))
    \/ EnsureRecreateStrategy \/ HelmUpgrade
    \/ Installed \/ FinishInstall \/ FailInstall

Removal ==
    \/ \E p \in BOOLEAN : StartRemoval(p)
    \/ RemoveRelease
    \/ \E c \in {"database", "uploads"} : DeleteClaim(c)
    \/ DeleteSecrets \/ FinishRemoval \/ FailRemoval

Environment ==
    \/ Kill
    \/ StartServer
    \/ \E p \in Place : StopServer(p) \/ \E f \in File : Upload(f, p)
    \/ Backup
    \/ LoseCredential \/ RestoreSecret \/ LoseToken

Crawl == InstallCrawl \/ RemoveCrawl

Next == Install \/ Removal \/ Environment \/ Crawl

Spec == Init /\ [][Next]_vars

-----------------------------------------------------------------------------
(***************************************************************************)
(* Properties                                                              *)
(***************************************************************************)

\* No upload is lost over an upgrade, whatever is stopped half way and rerun,
\* with the archive or without (docs/cli.md:340-343).  Excepted is what the old
\* pod took after the backup or, without one, after the check; and what it had
\* that was nowhere else when an uninstall took the pod away.
UploadsKept == uploaded \subseteq container \cup volume \cup forgone

\* A database volume can be opened with what secrets.yaml or the Secret has,
\* also when a purge or a first installation stopped half way: an installation
\* never reaches the database with another password.
DatabaseOpens ==
    /\ database # 0 => database \in {local, secret}
    /\ pc = "database" => database = password

\* A server that keeps uploads in the volume never runs beside the one that
\* keeps them in its container: a user would find half of the files.
OneServer == Cardinality(serving) <= 1

\* An installed LibreChat that took its token from crawl4ai's Secret has the
\* token that is there, whatever was stopped, lost or purged and installed
\* again in between (docs/cli.md:318-319).  Of a token in secrets.yaml, which
\* comes first, it says nothing.
TokenFits == status = "installed" /\ shared /\ crawl # 0 => copy = crawl

\* An addon is recorded as installed only while its server, if it is one that
\* this version deployed, is up: also when the command is stopped.
InstalledServes ==
    status = "installed" /\ pc = "idle" /\ deployment = "volume" => serving = {"volume"}

=============================================================================
