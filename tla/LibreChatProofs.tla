-------------------------- MODULE LibreChatProofs --------------------------
(***************************************************************************)
(* Proofs about the LibreChat addon, for any files and any number of       *)
(* passwords, failures and commands.                                       *)
(***************************************************************************)
EXTENDS LibreChat, TLAPS, FiniteSetTheorems

Removing == {"release", "claims", "keys"}

\* The types that TypeOK leaves to the properties.
Typed ==
    /\ TypeOK
    /\ pc = "check" => minted < MaxValue
    /\ pc = "save" => password # 0 /\ token # 0

\* What an installation found is what the volume has, until it can be opened;
\* the Secret outlives the volume.
Passwords ==
    /\ DatabaseOpens
    /\ pc \in {"save", "secrets", "content"} /\ database # 0 => password = database
    /\ pc = "content" => secret = password
    /\ pc = "claims" /\ purge => database = 0 \/ "database" \in todo

\* A token of crawl4ai's is on its way, or has arrived; while LibreChat is there
\* crawl4ai has it in its Secret or, when that is lost, in secrets.yaml.
Tokens ==
    /\ status = "installed" /\ shared =>
        copy # 0 /\ (copy = crawl \/ (crawl = 0 /\ copy = crawlLocal))
    /\ pc \in {"save", "secrets"} /\ external => token = crawl /\ crawl # 0
    /\ pc \in Installing \ {"secrets"} /\ shared => copy = crawl /\ crawl # 0
    /\ pc \in Removing => status = "uninstalling"

\* A Deployment that mounts the volume never rolls.
Servers ==
    /\ serving \in {{}, {"container"}, {"volume"}}
    /\ deployment = "volume" => strategy = "Recreate"
    /\ deployment = "container" => serving \subseteq {"container"}
    /\ pc = "helm" /\ deployment # "none" => strategy = "Recreate"

\* "installed" is set when the server is up, which then stays.
Serves ==
    /\ pc \in Installing \ {"capture"} => status = "installing"
    /\ pc = "rollout" => deployment = "volume"
    /\ pc = "capture" => deployment = "volume" /\ serving = {"volume"}
    /\ status = "installed" /\ deployment = "volume" => serving = {"volume"}

\* Before the upgrade what the old pod has is in the archive, and that in the
\* volume, or given up; afterwards the old pod has nothing of its own.
Files ==
    /\ UploadsKept
    /\ deployment # "container" => container \cap uploaded \subseteq volume \cup forgone
    /\ deployment = "container" /\ archive.made => container \subseteq archive.files \cup forgone
    /\ pc \in {"save", "secrets", "content", "database", "restore", "extract", "strategy", "helm"}
        /\ deployment = "container" /\ ~given => container \subseteq forgone
    /\ given => archive.made
    /\ pc = "extract" => archive.files \subseteq volume \cup todo
    /\ pc \in {"strategy", "helm"} /\ given => archive.files \subseteq volume

Inductive == Typed /\ Passwords /\ Tokens /\ Servers /\ Serves /\ Files

-----------------------------------------------------------------------------

\* The end of a command, whatever it leaves behind.
LEMMA QuitKeepsTyped ==
    ASSUME Typed, Quit, UNCHANGED <<credentials, history>>,
           UNCHANGED <<deployment, strategy, serving, container, volume, archive>>,
           restoring' \in BOOLEAN,
           status' \in Gone \cup {"installing", "installed", "failed", "uninstalling"},
           faults' \in 0..MaxFaults
    PROVE  Typed'
<1> USE DEF Typed, TypeOK, Quit, credentials, passwords, tokens, history, Installing
<1>1. todo' \in SUBSET (File \cup {"database", "uploads"})
  OBVIOUS
<1>2. 0 \in Value
  BY LibreChatAssumption DEF Value
<1>3. QED
  BY <1>1, <1>2

\* 0 stands for no value.
LEMMA ZeroIsValue == 0 \in Value
BY LibreChatAssumption DEF Value

\* What a fault adds, and what is drawn before.
LEMMA Bounds ==
    ASSUME Typed
    PROVE  /\ faults < MaxFaults => faults + 1 \in 0..MaxFaults
           /\ 0..minted \subseteq Value
BY LibreChatAssumption DEF Typed, TypeOK, Value

\* Types.
LEMMA InstallKeepsTyped == Typed /\ Install => Typed'
<1> SUFFICES ASSUME Typed, Install PROVE Typed'
  OBVIOUS
<1> USE ZeroIsValue, Bounds DEF Typed, TypeOK, Place, Gone, Installing, passwords, tokens
<1>1. ASSUME NEW g \in BOOLEAN, StartInstall(g) PROVE Typed'
  BY <1>1 DEF StartInstall, credentials, uploads, history
<1>2. CASE Check
  <2>1. minted' \in Value /\ (Kept = 0 => minted' # 0)
    <3>1. minted < MaxValue
      BY <1>2 DEF Check
    <3>2. QED
      BY <1>2, <3>1, LibreChatAssumption DEF Check, Value
  <2>2. password' \in Value /\ password' # 0
    BY <1>2, <2>1 DEF Check, Kept
  <2>3. token' \in Value /\ token' # 0
    BY <1>2 DEF Check, TokenAccepted, Token
  <2>4. external' \in BOOLEAN
    BY <1>2 DEF Check
  <2>5. QED
    BY <1>2, <2>1, <2>2, <2>3, <2>4 DEF Check, uploads, history
<1>3. CASE RefuseCheck
  BY <1>3, QuitKeepsTyped DEF RefuseCheck, credentials, uploads, history
<1>4. CASE SaveSecrets
  BY <1>4 DEF SaveSecrets, Goto, uploads, history
<1>5. CASE ApplySecrets
  BY <1>5 DEF ApplySecrets, Goto, uploads, history
<1>6. CASE ApplyContent
  BY <1>6 DEF ApplyContent, Goto, uploads, history
<1>7. CASE OpenDatabase
  BY <1>7 DEF OpenDatabase, Goto, credentials, uploads, history
<1>8. CASE StartRestore
  <2>1. todo' \in SUBSET (File \cup {"database", "uploads"})
    BY <1>8 DEF StartRestore
  <2>2. CASE given
    BY <1>8, <2>1, <2>2 DEF StartRestore, credentials, history
  <2>3. CASE ~given
    BY <1>8, <2>1, <2>3 DEF StartRestore, credentials, history
  <2>4. QED
    BY <2>2, <2>3
<1>9. CASE EndRestore
  <2>1. UNCHANGED <<credentials, history, status, faults, todo>>
    BY <1>9 DEF EndRestore, Goto
  <2>2. restoring' \in BOOLEAN
    BY <1>9 DEF EndRestore
  <2>3. QED
    BY <1>9, <2>1, <2>2 DEF EndRestore, Goto, credentials, history
<1>10. ASSUME NEW f \in File, Extract(f) PROVE Typed'
  BY <1>10 DEF Extract, credentials, history
<1>11. CASE EnsureRecreateStrategy
  BY <1>11 DEF EnsureRecreateStrategy, Goto, credentials, history
<1>12. CASE HelmUpgrade
  BY <1>12 DEF HelmUpgrade, Goto, credentials, history
<1>13. CASE Installed
  BY <1>13 DEF Installed, Goto, credentials, uploads, history
<1>14. CASE FinishInstall
  BY <1>14, QuitKeepsTyped DEF FinishInstall, credentials, uploads, history
<1>15. CASE FailInstall
  <2>1. faults' \in 0..MaxFaults
    BY <1>15 DEF FailInstall
  <2>2. restoring' \in BOOLEAN
    BY <1>15 DEF FailInstall
  <2>3. QED
    BY <1>15, <2>1, <2>2, QuitKeepsTyped DEF FailInstall, credentials, history
<1>16. QED
  BY <1>1, <1>2, <1>3, <1>4, <1>5, <1>6, <1>7, <1>8, <1>9, <1>10, <1>11,
     <1>12, <1>13, <1>14, <1>15 DEF Install

LEMMA RemovalKeepsTyped == Typed /\ Removal => Typed'
<1> SUFFICES ASSUME Typed, Removal PROVE Typed'
  OBVIOUS
<1> USE ZeroIsValue, Bounds DEF Typed, TypeOK, Place, Gone, Installing, passwords, tokens
<1>1. ASSUME NEW p \in BOOLEAN, StartRemoval(p) PROVE Typed'
  BY <1>1 DEF StartRemoval, credentials, uploads, history
<1>2. CASE RemoveRelease
  <2>1. todo' \in SUBSET (File \cup {"database", "uploads"})
    BY <1>2 DEF RemoveRelease
  <2>2. forgone' \subseteq File
    BY <1>2 DEF RemoveRelease
  <2>3. restoring' \in BOOLEAN /\ deployment' = "none"
    BY <1>2 DEF RemoveRelease
  <2>4. QED
    BY <1>2, <2>1, <2>2, <2>3 DEF RemoveRelease, credentials
<1>3. ASSUME NEW c \in {"database", "uploads"}, DeleteClaim(c) PROVE Typed'
  <2>1. todo' \in SUBSET (File \cup {"database", "uploads"})
    BY <1>3 DEF DeleteClaim
  <2>2. volume' \subseteq File /\ uploaded' \subseteq File /\ forgone' \subseteq File
    BY <1>3 DEF DeleteClaim
  <2>3. QED
    BY <1>3, <2>1, <2>2 DEF DeleteClaim
<1>4. CASE DeleteSecrets
  <2>1. 0 \in Value /\ secret' \in Value /\ copy' \in Value /\ shared' \in BOOLEAN
    BY <1>4 DEF DeleteSecrets
  <2>2. QED
    BY <1>4, <2>1 DEF DeleteSecrets, Goto, uploads
<1>5. CASE FinishRemoval
  BY <1>5, QuitKeepsTyped DEF FinishRemoval, credentials, uploads, history
<1>6. CASE FailRemoval
  BY <1>6, QuitKeepsTyped DEF FailRemoval, credentials, uploads, history
<1>7. QED
  BY <1>1, <1>2, <1>3, <1>4, <1>5, <1>6 DEF Removal

LEMMA EnvironmentKeepsTyped == Typed /\ Environment => Typed'
<1> SUFFICES ASSUME Typed, Environment PROVE Typed'
  OBVIOUS
<1> USE ZeroIsValue, Bounds DEF Typed, TypeOK, Place, Gone, Installing, passwords, tokens
<1>1. CASE Kill
  BY <1>1, QuitKeepsTyped DEF Kill, credentials, uploads, history
<1>2. CASE StartServer
  BY <1>2 DEF StartServer, credentials, command, history
<1>3. ASSUME NEW p \in Place, StopServer(p) PROVE Typed'
  BY <1>3 DEF StopServer, credentials, command, history
<1>4. ASSUME NEW p \in Place, NEW f \in File, Upload(f, p) PROVE Typed'
  BY <1>4 DEF Upload, credentials, command
<1>5. CASE Backup
  BY <1>5 DEF Backup, credentials, command
<1>6. CASE LoseCredential
  BY <1>6 DEF LoseCredential, uploads, command, history
<1>7. CASE RestoreSecret
  BY <1>7 DEF RestoreSecret, uploads, command, history
<1>8. CASE LoseToken
  BY <1>8 DEF LoseToken, uploads, command, history, Gone
<1>9. QED
  BY <1>1, <1>2, <1>3, <1>4, <1>5, <1>6, <1>7, <1>8 DEF Environment

LEMMA CrawlKeepsTyped == Typed /\ Crawl => Typed'
<1> SUFFICES ASSUME Typed, Crawl PROVE Typed'
  OBVIOUS
<1>1. /\ minted' \in Value /\ crawlLocal' \in Value /\ crawl' \in Value
      /\ service' \in BOOLEAN
  <2>1. /\ minted \in Value /\ crawlLocal \in Value /\ crawl \in Value
        /\ service \in BOOLEAN
    BY DEF Typed, TypeOK
  <2>2. CASE InstallCrawl
    <3>1. minted < MaxValue => minted + 1 \in Value
      BY <2>1, LibreChatAssumption DEF Value
    <3>2. minted' \in Value
      BY <2>1, <2>2, <3>1 DEF InstallCrawl
    <3>3. CrawlKept \in Value
      BY <2>1 DEF CrawlKept
    <3>4. QED
      BY <2>1, <2>2, <3>2, <3>3 DEF InstallCrawl
  <2>3. CASE RemoveCrawl
    BY <2>1, <2>3, ZeroIsValue DEF RemoveCrawl
  <2>4. QED
    BY <2>2, <2>3 DEF Crawl
<1>2. UNCHANGED <<passwords, localToken, copy, uploads, status, command, history, faults>>
  BY DEF Crawl, InstallCrawl, RemoveCrawl
<1>3. pc' = "check" => minted' < MaxValue
  BY DEF Crawl, InstallCrawl, RemoveCrawl, command
<1>4. QED
  BY <1>1, <1>2, <1>3 DEF Typed, TypeOK, passwords, uploads, command, history

\* The password: _credentials keeps what the volume or the Secret has, and
\* uninstall_addon deletes the claim before the Secret.
LEMMA InstallKeepsPasswords == Passwords /\ Install => Passwords'
<1> SUFFICES ASSUME Passwords, Install PROVE Passwords'
  OBVIOUS
<1> USE DEF Passwords, DatabaseOpens, passwords, tokens
<1>1. ASSUME NEW g \in BOOLEAN, StartInstall(g) PROVE Passwords'
  BY <1>1 DEF StartInstall, credentials, uploads, history
<1>2. CASE Check
  BY <1>2 DEF Check, uploads, history, CredentialsAccepted, Kept
<1>3. CASE RefuseCheck
  BY <1>3 DEF RefuseCheck, Quit, credentials, uploads, history
<1>4. CASE SaveSecrets
  BY <1>4 DEF SaveSecrets, Goto, uploads, history
<1>5. CASE ApplySecrets
  BY <1>5 DEF ApplySecrets, Goto, uploads, history
<1>6. CASE ApplyContent
  BY <1>6 DEF ApplyContent, Goto, uploads, history
<1>7. CASE OpenDatabase
  BY <1>7 DEF OpenDatabase, Goto, credentials, uploads, history
<1>8. CASE StartRestore
  BY <1>8 DEF StartRestore, credentials, history
<1>9. CASE EndRestore
  BY <1>9 DEF EndRestore, Goto, credentials, history
<1>10. ASSUME NEW f \in File, Extract(f) PROVE Passwords'
  BY <1>10 DEF Extract, credentials, history
<1>11. CASE EnsureRecreateStrategy
  BY <1>11 DEF EnsureRecreateStrategy, Goto, credentials, history
<1>12. CASE HelmUpgrade
  BY <1>12 DEF HelmUpgrade, Goto, credentials, history
<1>13. CASE Installed
  BY <1>13 DEF Installed, Goto, credentials, uploads, history
<1>14. CASE FinishInstall
  BY <1>14 DEF FinishInstall, Quit, credentials, uploads, history
<1>15. CASE FailInstall
  BY <1>15 DEF FailInstall, Quit, credentials, history, Installing
<1>16. QED
  BY <1>1, <1>2, <1>3, <1>4, <1>5, <1>6, <1>7, <1>8, <1>9, <1>10, <1>11,
     <1>12, <1>13, <1>14, <1>15 DEF Install

LEMMA RemovalKeepsPasswords == Passwords /\ Removal => Passwords'
<1> SUFFICES ASSUME Passwords, Removal PROVE Passwords'
  OBVIOUS
<1> USE DEF Passwords, DatabaseOpens, passwords, tokens
<1>1. ASSUME NEW p \in BOOLEAN, StartRemoval(p) PROVE Passwords'
  BY <1>1 DEF StartRemoval, credentials, uploads, history
<1>2. CASE RemoveRelease
  BY <1>2 DEF RemoveRelease, credentials, uploads
<1>3. ASSUME NEW c \in {"database", "uploads"}, DeleteClaim(c) PROVE Passwords'
  BY <1>3 DEF DeleteClaim
<1>4. CASE DeleteSecrets
  BY <1>4 DEF DeleteSecrets, Goto, uploads, history
<1>5. CASE FinishRemoval
  BY <1>5 DEF FinishRemoval, Quit, credentials, uploads, history
<1>6. CASE FailRemoval
  BY <1>6 DEF FailRemoval, Quit, credentials, uploads, history
<1>7. QED
  BY <1>1, <1>2, <1>3, <1>4, <1>5, <1>6 DEF Removal

LEMMA EnvironmentKeepsPasswords == Passwords /\ Environment => Passwords'
<1> SUFFICES ASSUME Passwords, Environment PROVE Passwords'
  OBVIOUS
<1> USE DEF Passwords, DatabaseOpens, passwords, tokens
<1>1. CASE Kill
  BY <1>1 DEF Kill, Quit, credentials, uploads, history
<1>2. CASE StartServer
  BY <1>2 DEF StartServer, credentials, command, history
<1>3. ASSUME NEW p \in Place, StopServer(p) PROVE Passwords'
  BY <1>3 DEF StopServer, credentials, command, history
<1>4. ASSUME NEW p \in Place, NEW f \in File, Upload(f, p) PROVE Passwords'
  BY <1>4 DEF Upload, credentials, command
<1>5. CASE Backup
  BY <1>5 DEF Backup, credentials, command
<1>6. CASE LoseCredential
  BY <1>6 DEF LoseCredential, uploads, command, history
<1>7. CASE RestoreSecret
  BY <1>7 DEF RestoreSecret, uploads, command, history
<1>8. CASE LoseToken
  BY <1>8 DEF LoseToken, uploads, command, history, Gone
<1>9. QED
  BY <1>1, <1>2, <1>3, <1>4, <1>5, <1>6, <1>7, <1>8 DEF Environment

LEMMA CrawlKeepsPasswords == Passwords /\ Crawl => Passwords'
<1> SUFFICES ASSUME Passwords, Crawl PROVE Passwords'
  OBVIOUS
<1> USE DEF Passwords, DatabaseOpens, passwords, tokens
<1>1. CASE InstallCrawl
  BY <1>1 DEF InstallCrawl, uploads, command, history
<1>2. CASE RemoveCrawl
  BY <1>2 DEF RemoveCrawl, uploads, command, history
<1>3. QED
  BY <1>1, <1>2 DEF Crawl

\* The token: check reads it from its source before each install, and crawl4ai
\* keeps it while LibreChat is there.
LEMMA InstallKeepsTokens == Tokens /\ Install => Tokens'
<1> SUFFICES ASSUME Tokens, Install PROVE Tokens'
  OBVIOUS
<1> USE DEF Tokens, Installing, Removing, passwords, tokens
<1>1. ASSUME NEW g \in BOOLEAN, StartInstall(g) PROVE Tokens'
  BY <1>1 DEF StartInstall, credentials, uploads, history
<1>2. CASE Check
  BY <1>2 DEF Check, uploads, history, TokenAccepted, Token
<1>3. CASE RefuseCheck
  BY <1>3 DEF RefuseCheck, Quit, credentials, uploads, history
<1>4. CASE SaveSecrets
  BY <1>4 DEF SaveSecrets, Goto, uploads, history
<1>5. CASE ApplySecrets
  BY <1>5 DEF ApplySecrets, Goto, uploads, history
<1>6. CASE ApplyContent
  BY <1>6 DEF ApplyContent, Goto, uploads, history
<1>7. CASE OpenDatabase
  BY <1>7 DEF OpenDatabase, Goto, credentials, uploads, history
<1>8. CASE StartRestore
  BY <1>8 DEF StartRestore, credentials, history
<1>9. CASE EndRestore
  BY <1>9 DEF EndRestore, Goto, credentials, history
<1>10. ASSUME NEW f \in File, Extract(f) PROVE Tokens'
  BY <1>10 DEF Extract, credentials, history
<1>11. CASE EnsureRecreateStrategy
  BY <1>11 DEF EnsureRecreateStrategy, Goto, credentials, history
<1>12. CASE HelmUpgrade
  BY <1>12 DEF HelmUpgrade, Goto, credentials, history
<1>13. CASE Installed
  BY <1>13 DEF Installed, Goto, credentials, uploads, history
<1>14. CASE FinishInstall
  BY <1>14 DEF FinishInstall, Quit, credentials, uploads, history
<1>15. CASE FailInstall
  BY <1>15 DEF FailInstall, Quit, credentials, history
<1>16. QED
  BY <1>1, <1>2, <1>3, <1>4, <1>5, <1>6, <1>7, <1>8, <1>9, <1>10, <1>11,
     <1>12, <1>13, <1>14, <1>15 DEF Install

LEMMA RemovalKeepsTokens == Tokens /\ Removal => Tokens'
<1> SUFFICES ASSUME Tokens, Removal PROVE Tokens'
  OBVIOUS
<1> USE DEF Tokens, Installing, Removing, passwords, tokens
<1>1. ASSUME NEW p \in BOOLEAN, StartRemoval(p) PROVE Tokens'
  BY <1>1 DEF StartRemoval, credentials, uploads, history, Gone
<1>2. CASE RemoveRelease
  BY <1>2 DEF RemoveRelease, credentials, uploads
<1>3. ASSUME NEW c \in {"database", "uploads"}, DeleteClaim(c) PROVE Tokens'
  BY <1>3 DEF DeleteClaim
<1>4. CASE DeleteSecrets
  BY <1>4 DEF DeleteSecrets, Goto, uploads, history
<1>5. CASE FinishRemoval
  BY <1>5 DEF FinishRemoval, Quit, credentials, uploads, history
<1>6. CASE FailRemoval
  BY <1>6 DEF FailRemoval, Quit, credentials, uploads, history
<1>7. QED
  BY <1>1, <1>2, <1>3, <1>4, <1>5, <1>6 DEF Removal

LEMMA EnvironmentKeepsTokens == Tokens /\ Environment => Tokens'
<1> SUFFICES ASSUME Tokens, Environment PROVE Tokens'
  OBVIOUS
<1> USE DEF Tokens, Installing, Removing, passwords, tokens
<1>1. CASE Kill
  BY <1>1 DEF Kill, Quit, credentials, uploads, history
<1>2. CASE StartServer
  BY <1>2 DEF StartServer, credentials, command, history
<1>3. ASSUME NEW p \in Place, StopServer(p) PROVE Tokens'
  BY <1>3 DEF StopServer, credentials, command, history
<1>4. ASSUME NEW p \in Place, NEW f \in File, Upload(f, p) PROVE Tokens'
  BY <1>4 DEF Upload, credentials, command
<1>5. CASE Backup
  BY <1>5 DEF Backup, credentials, command
<1>6. CASE LoseCredential
  BY <1>6 DEF LoseCredential, uploads, command, history
<1>7. CASE RestoreSecret
  BY <1>7 DEF RestoreSecret, uploads, command, history
<1>8. CASE LoseToken
  BY <1>8 DEF LoseToken, uploads, command, history, Gone
<1>9. QED
  BY <1>1, <1>2, <1>3, <1>4, <1>5, <1>6, <1>7, <1>8 DEF Environment

LEMMA CrawlKeepsTokens == Tokens /\ Crawl => Tokens'
<1> SUFFICES ASSUME Tokens, Crawl PROVE Tokens'
  OBVIOUS
<1> USE DEF Tokens, Installing, Removing, Gone, CrawlAccepted, CrawlKept, passwords, tokens
<1>1. CASE InstallCrawl
  BY <1>1 DEF InstallCrawl, uploads, command, history
<1>2. CASE RemoveCrawl
  BY <1>2 DEF RemoveCrawl, uploads, command, history
<1>3. QED
  BY <1>1, <1>2 DEF Crawl

\* The servers: who mounts the volume has the strategy Recreate.
LEMMA InstallKeepsServers == Typed /\ Servers /\ Install => Servers'
<1> SUFFICES ASSUME Typed, Servers, Install PROVE Servers'
  OBVIOUS
<1> USE DEF Servers, passwords, tokens
<1>1. ASSUME NEW g \in BOOLEAN, StartInstall(g) PROVE Servers'
  BY <1>1 DEF StartInstall, credentials, uploads, history
<1>2. CASE Check
  BY <1>2 DEF Check, uploads, history
<1>3. CASE RefuseCheck
  BY <1>3 DEF RefuseCheck, Quit, credentials, uploads, history
<1>4. CASE SaveSecrets
  BY <1>4 DEF SaveSecrets, Goto, uploads, history
<1>5. CASE ApplySecrets
  BY <1>5 DEF ApplySecrets, Goto, uploads, history
<1>6. CASE ApplyContent
  BY <1>6 DEF ApplyContent, Goto, uploads, history
<1>7. CASE OpenDatabase
  BY <1>7 DEF OpenDatabase, Goto, credentials, uploads, history
<1>8. CASE StartRestore
  BY <1>8 DEF StartRestore, credentials, history
<1>9. CASE EndRestore
  BY <1>9 DEF EndRestore, Goto, credentials, history
<1>10. ASSUME NEW f \in File, Extract(f) PROVE Servers'
  BY <1>10 DEF Extract, credentials, history
<1>11. CASE EnsureRecreateStrategy
  BY <1>11 DEF EnsureRecreateStrategy, Goto, credentials, history
<1>12. CASE HelmUpgrade
  BY <1>12 DEF HelmUpgrade, Goto, credentials, history
<1>13. CASE Installed
  BY <1>13 DEF Installed, Goto, credentials, uploads, history
<1>14. CASE FinishInstall
  BY <1>14 DEF FinishInstall, Quit, credentials, uploads, history
<1>15. CASE FailInstall
  BY <1>15 DEF FailInstall, Quit, credentials, history
<1>16. QED
  BY <1>1, <1>2, <1>3, <1>4, <1>5, <1>6, <1>7, <1>8, <1>9, <1>10, <1>11,
     <1>12, <1>13, <1>14, <1>15 DEF Install

LEMMA RemovalKeepsServers == Typed /\ Servers /\ Removal => Servers'
<1> SUFFICES ASSUME Typed, Servers, Removal PROVE Servers'
  OBVIOUS
<1> USE DEF Servers, passwords, tokens
<1>1. ASSUME NEW p \in BOOLEAN, StartRemoval(p) PROVE Servers'
  BY <1>1 DEF StartRemoval, credentials, uploads, history
<1>2. CASE RemoveRelease
  BY <1>2 DEF RemoveRelease, credentials, uploads
<1>3. ASSUME NEW c \in {"database", "uploads"}, DeleteClaim(c) PROVE Servers'
  BY <1>3 DEF DeleteClaim
<1>4. CASE DeleteSecrets
  BY <1>4 DEF DeleteSecrets, Goto, uploads, history
<1>5. CASE FinishRemoval
  BY <1>5 DEF FinishRemoval, Quit, credentials, uploads, history
<1>6. CASE FailRemoval
  BY <1>6 DEF FailRemoval, Quit, credentials, uploads, history
<1>7. QED
  BY <1>1, <1>2, <1>3, <1>4, <1>5, <1>6 DEF Removal

LEMMA EnvironmentKeepsServers == Typed /\ Servers /\ Environment => Servers'
<1> SUFFICES ASSUME Typed, Servers, Environment PROVE Servers'
  OBVIOUS
<1> USE DEF Servers, passwords, tokens
<1>1. CASE Kill
  BY <1>1 DEF Kill, Quit, credentials, uploads, history
<1>2. CASE StartServer
  BY <1>2 DEF StartServer, credentials, command, history, Typed, TypeOK, Place
<1>3. ASSUME NEW p \in Place, StopServer(p) PROVE Servers'
  BY <1>3 DEF StopServer, credentials, command, history, Place
<1>4. ASSUME NEW p \in Place, NEW f \in File, Upload(f, p) PROVE Servers'
  BY <1>4 DEF Upload, credentials, command, Place
<1>5. CASE Backup
  BY <1>5 DEF Backup, credentials, command
<1>6. CASE LoseCredential
  BY <1>6 DEF LoseCredential, uploads, command, history
<1>7. CASE RestoreSecret
  BY <1>7 DEF RestoreSecret, uploads, command, history
<1>8. CASE LoseToken
  BY <1>8 DEF LoseToken, uploads, command, history, Gone
<1>9. QED
  BY <1>1, <1>2, <1>3, <1>4, <1>5, <1>6, <1>7, <1>8 DEF Environment

LEMMA CrawlKeepsServers == Servers /\ Crawl => Servers'
<1> SUFFICES ASSUME Servers, Crawl PROVE Servers'
  OBVIOUS
<1> USE DEF Servers, passwords, tokens
<1>1. CASE InstallCrawl
  BY <1>1 DEF InstallCrawl, uploads, command, history
<1>2. CASE RemoveCrawl
  BY <1>2 DEF RemoveCrawl, uploads, command, history
<1>3. QED
  BY <1>1, <1>2 DEF Crawl

\* The status: it is saved after the rollout, and what removes the Deployment
\* has changed it before.
LEMMA InstallKeepsServes == Serves /\ Install => Serves'
<1> SUFFICES ASSUME Serves, Install PROVE Serves'
  OBVIOUS
<1> USE DEF Serves, Installing, passwords, tokens
<1>1. ASSUME NEW g \in BOOLEAN, StartInstall(g) PROVE Serves'
  BY <1>1 DEF StartInstall, credentials, uploads, history
<1>2. CASE Check
  BY <1>2 DEF Check, uploads, history
<1>3. CASE RefuseCheck
  BY <1>3 DEF RefuseCheck, Quit, credentials, uploads, history
<1>4. CASE SaveSecrets
  BY <1>4 DEF SaveSecrets, Goto, uploads, history
<1>5. CASE ApplySecrets
  BY <1>5 DEF ApplySecrets, Goto, uploads, history
<1>6. CASE ApplyContent
  BY <1>6 DEF ApplyContent, Goto, uploads, history
<1>7. CASE OpenDatabase
  BY <1>7 DEF OpenDatabase, Goto, credentials, uploads, history
<1>8. CASE StartRestore
  BY <1>8 DEF StartRestore, credentials, history
<1>9. CASE EndRestore
  BY <1>9 DEF EndRestore, Goto, credentials, history
<1>10. ASSUME NEW f \in File, Extract(f) PROVE Serves'
  BY <1>10 DEF Extract, credentials, history
<1>11. CASE EnsureRecreateStrategy
  BY <1>11 DEF EnsureRecreateStrategy, Goto, credentials, history
<1>12. CASE HelmUpgrade
  BY <1>12 DEF HelmUpgrade, Goto, credentials, history
<1>13. CASE Installed
  BY <1>13 DEF Installed, Goto, credentials, uploads, history
<1>14. CASE FinishInstall
  BY <1>14 DEF FinishInstall, Quit, credentials, uploads, history
<1>15. CASE FailInstall
  BY <1>15 DEF FailInstall, Quit, credentials, history
<1>16. QED
  BY <1>1, <1>2, <1>3, <1>4, <1>5, <1>6, <1>7, <1>8, <1>9, <1>10, <1>11,
     <1>12, <1>13, <1>14, <1>15 DEF Install

LEMMA RemovalKeepsServes == Serves /\ Removal => Serves'
<1> SUFFICES ASSUME Serves, Removal PROVE Serves'
  OBVIOUS
<1> USE DEF Serves, Installing, passwords, tokens
<1>1. ASSUME NEW p \in BOOLEAN, StartRemoval(p) PROVE Serves'
  BY <1>1 DEF StartRemoval, credentials, uploads, history
<1>2. CASE RemoveRelease
  BY <1>2 DEF RemoveRelease, credentials, uploads
<1>3. ASSUME NEW c \in {"database", "uploads"}, DeleteClaim(c) PROVE Serves'
  BY <1>3 DEF DeleteClaim
<1>4. CASE DeleteSecrets
  BY <1>4 DEF DeleteSecrets, Goto, uploads, history
<1>5. CASE FinishRemoval
  BY <1>5 DEF FinishRemoval, Quit, credentials, uploads, history
<1>6. CASE FailRemoval
  BY <1>6 DEF FailRemoval, Quit, credentials, uploads, history
<1>7. QED
  BY <1>1, <1>2, <1>3, <1>4, <1>5, <1>6 DEF Removal

LEMMA EnvironmentKeepsServes == Serves /\ Environment => Serves'
<1> SUFFICES ASSUME Serves, Environment PROVE Serves'
  OBVIOUS
<1> USE DEF Serves, Installing, passwords, tokens
<1>1. CASE Kill
  BY <1>1 DEF Kill, Quit, credentials, uploads, history
<1>2. CASE StartServer
  BY <1>2 DEF StartServer, credentials, command, history
<1>3. ASSUME NEW p \in Place, StopServer(p) PROVE Serves'
  BY <1>3 DEF StopServer, credentials, command, history, Place
<1>4. ASSUME NEW p \in Place, NEW f \in File, Upload(f, p) PROVE Serves'
  BY <1>4 DEF Upload, credentials, command
<1>5. CASE Backup
  BY <1>5 DEF Backup, credentials, command
<1>6. CASE LoseCredential
  BY <1>6 DEF LoseCredential, uploads, command, history
<1>7. CASE RestoreSecret
  BY <1>7 DEF RestoreSecret, uploads, command, history
<1>8. CASE LoseToken
  BY <1>8 DEF LoseToken, uploads, command, history, Gone
<1>9. QED
  BY <1>1, <1>2, <1>3, <1>4, <1>5, <1>6, <1>7, <1>8 DEF Environment

LEMMA CrawlKeepsServes == Serves /\ Crawl => Serves'
<1> SUFFICES ASSUME Serves, Crawl PROVE Serves'
  OBVIOUS
<1> USE DEF Serves, Installing, passwords, tokens
<1>1. CASE InstallCrawl
  BY <1>1 DEF InstallCrawl, uploads, command, history
<1>2. CASE RemoveCrawl
  BY <1>2 DEF RemoveCrawl, uploads, command, history
<1>3. QED
  BY <1>1, <1>2 DEF Crawl

\* The files: from the old pod to the archive to the volume, in this order.
LEMMA InstallKeepsFiles == Typed /\ Files /\ Install => Files'
<1> SUFFICES ASSUME Typed, Files, Install PROVE Files'
  OBVIOUS
<1> USE DEF Files, UploadsKept, passwords, tokens
<1>1. ASSUME NEW g \in BOOLEAN, StartInstall(g) PROVE Files'
  BY <1>1 DEF StartInstall, credentials, uploads, history
<1>2. CASE Check
  BY <1>2 DEF Check, uploads, history, UploadsAccepted
<1>3. CASE RefuseCheck
  BY <1>3 DEF RefuseCheck, Quit, credentials, uploads, history
<1>4. CASE SaveSecrets
  BY <1>4 DEF SaveSecrets, Goto, uploads, history
<1>5. CASE ApplySecrets
  BY <1>5 DEF ApplySecrets, Goto, uploads, history
<1>6. CASE ApplyContent
  BY <1>6 DEF ApplyContent, Goto, uploads, history
<1>7. CASE OpenDatabase
  BY <1>7 DEF OpenDatabase, Goto, credentials, uploads, history
<1>8. CASE StartRestore
  BY <1>8 DEF StartRestore, credentials, history
<1>9. CASE EndRestore
  BY <1>9 DEF EndRestore, Goto, credentials, history
<1>10. ASSUME NEW f \in File, Extract(f) PROVE Files'
  BY <1>10 DEF Extract, credentials, history
<1>11. CASE EnsureRecreateStrategy
  BY <1>11 DEF EnsureRecreateStrategy, Goto, credentials, history
<1>12. CASE HelmUpgrade
  BY <1>12 DEF HelmUpgrade, Goto, credentials, history
<1>13. CASE Installed
  BY <1>13 DEF Installed, Goto, credentials, uploads, history
<1>14. CASE FinishInstall
  BY <1>14 DEF FinishInstall, Quit, credentials, uploads, history
<1>15. CASE FailInstall
  BY <1>15 DEF FailInstall, Quit, credentials, history, Installing
<1>16. QED
  BY <1>1, <1>2, <1>3, <1>4, <1>5, <1>6, <1>7, <1>8, <1>9, <1>10, <1>11,
     <1>12, <1>13, <1>14, <1>15 DEF Install

LEMMA RemovalKeepsFiles == Typed /\ Files /\ Removal => Files'
<1> SUFFICES ASSUME Typed, Files, Removal PROVE Files'
  OBVIOUS
<1> USE DEF Files, UploadsKept, passwords, tokens
<1>1. ASSUME NEW p \in BOOLEAN, StartRemoval(p) PROVE Files'
  BY <1>1 DEF StartRemoval, credentials, uploads, history
<1>2. CASE RemoveRelease
  BY <1>2 DEF RemoveRelease, credentials, uploads
<1>3. ASSUME NEW c \in {"database", "uploads"}, DeleteClaim(c) PROVE Files'
  BY <1>3 DEF DeleteClaim, Typed, TypeOK
<1>4. CASE DeleteSecrets
  BY <1>4 DEF DeleteSecrets, Goto, uploads, history
<1>5. CASE FinishRemoval
  BY <1>5 DEF FinishRemoval, Quit, credentials, uploads, history
<1>6. CASE FailRemoval
  BY <1>6 DEF FailRemoval, Quit, credentials, uploads, history
<1>7. QED
  BY <1>1, <1>2, <1>3, <1>4, <1>5, <1>6 DEF Removal

LEMMA EnvironmentKeepsFiles == Typed /\ Files /\ Environment => Files'
<1> SUFFICES ASSUME Typed, Files, Environment PROVE Files'
  OBVIOUS
<1> USE DEF Files, UploadsKept, passwords, tokens
<1>1. CASE Kill
  BY <1>1 DEF Kill, Quit, credentials, uploads, history
<1>2. CASE StartServer
  BY <1>2 DEF StartServer, credentials, command, history
<1>3. ASSUME NEW p \in Place, StopServer(p) PROVE Files'
  BY <1>3 DEF StopServer, credentials, command, history, Place
<1>4. ASSUME NEW p \in Place, NEW f \in File, Upload(f, p) PROVE Files'
  <2>1. archive.made \in BOOLEAN /\ deployment \in {"none", "container", "volume"}
    BY DEF Typed, TypeOK, Place
  <2>2. QED
    BY <1>4, <2>1 DEF Upload, credentials, command, Place
<1>5. CASE Backup
  BY <1>5 DEF Backup, credentials, command
<1>6. CASE LoseCredential
  BY <1>6 DEF LoseCredential, uploads, command, history
<1>7. CASE RestoreSecret
  BY <1>7 DEF RestoreSecret, uploads, command, history
<1>8. CASE LoseToken
  BY <1>8 DEF LoseToken, uploads, command, history, Gone
<1>9. QED
  BY <1>1, <1>2, <1>3, <1>4, <1>5, <1>6, <1>7, <1>8 DEF Environment

LEMMA CrawlKeepsFiles == Files /\ Crawl => Files'
<1> SUFFICES ASSUME Files, Crawl PROVE Files'
  OBVIOUS
<1> USE DEF Files, UploadsKept, passwords, tokens
<1>1. CASE InstallCrawl
  BY <1>1 DEF InstallCrawl, uploads, command, history
<1>2. CASE RemoveCrawl
  BY <1>2 DEF RemoveCrawl, uploads, command, history
<1>3. QED
  BY <1>1, <1>2 DEF Crawl
-----------------------------------------------------------------------------

\* The invariant holds at first, and every step keeps it.
LEMMA InductiveInit == Init => Inductive
<1> SUFFICES ASSUME Init PROVE Inductive
  OBVIOUS
<1> USE DEF Init, Rest
<1>1. Typed
  <2>1. {0, 1, 2} \subseteq Value
    BY LibreChatAssumption DEF Value
  <2>2. faults \in 0..MaxFaults
    BY LibreChatAssumption
  <2>3. todo \in SUBSET (File \cup {"database", "uploads"})
    OBVIOUS
  <2>4. QED
    BY <2>1, <2>2, <2>3 DEF Typed, TypeOK, Place, Gone, Installing
<1>2. Passwords
  BY DEF Passwords, DatabaseOpens
<1>3. Tokens
  BY DEF Tokens, Installing, Removing
<1>4. Servers
  BY DEF Servers
<1>5. Serves
  BY DEF Serves, Installing
<1>6. Files
  BY DEF Files, UploadsKept
<1>7. QED
  BY <1>1, <1>2, <1>3, <1>4, <1>5, <1>6 DEF Inductive

LEMMA StutterKeeps == Inductive /\ UNCHANGED vars => Inductive'
<1> SUFFICES ASSUME Inductive, UNCHANGED vars PROVE Inductive'
  OBVIOUS
<1> USE DEF Inductive, vars, credentials, passwords, tokens, uploads, command, history
<1>1. Typed'
  BY DEF Typed, TypeOK
<1>2. Passwords' /\ Tokens'
  BY DEF Passwords, DatabaseOpens, Tokens
<1>3. Servers' /\ Serves'
  BY DEF Servers, Serves
<1>4. Files'
  BY DEF Files, UploadsKept
<1>5. QED
  BY <1>1, <1>2, <1>3, <1>4

LEMMA InductiveStep == Inductive /\ [Next]_vars => Inductive'
<1> SUFFICES ASSUME Inductive, [Next]_vars PROVE Inductive'
  OBVIOUS
<1> USE DEF Inductive
<1>1. CASE Install
  BY <1>1, InstallKeepsTyped, InstallKeepsPasswords, InstallKeepsTokens, InstallKeepsServers,
     InstallKeepsServes, InstallKeepsFiles
<1>2. CASE Removal
  BY <1>2, RemovalKeepsTyped, RemovalKeepsPasswords, RemovalKeepsTokens, RemovalKeepsServers,
     RemovalKeepsServes, RemovalKeepsFiles
<1>3. CASE Environment
  BY <1>3, EnvironmentKeepsTyped, EnvironmentKeepsPasswords, EnvironmentKeepsTokens,
     EnvironmentKeepsServers, EnvironmentKeepsServes, EnvironmentKeepsFiles
<1>4. CASE Crawl
  BY <1>4, CrawlKeepsTyped, CrawlKeepsPasswords, CrawlKeepsTokens, CrawlKeepsServers,
     CrawlKeepsServes, CrawlKeepsFiles
<1>5. CASE UNCHANGED vars
  BY <1>5, StutterKeeps
<1>6. QED
  BY <1>1, <1>2, <1>3, <1>4, <1>5 DEF Next

LEMMA InductiveHolds == Spec => []Inductive
BY InductiveInit, InductiveStep, PTL DEF Spec

\* Every variable of the addon keeps its type, for any files and bounds.
THEOREM TypeCorrect == Spec => []TypeOK
<1>1. Inductive => TypeOK
  BY DEF Inductive, Typed
<1>2. QED
  BY <1>1, InductiveHolds, PTL

\* No upload is lost over upgrades and reinstallations but those that UploadsKept
\* excepts (_check_upload_migration, _restore_uploads), wherever commands are
\* stopped and however often they are rerun.
THEOREM NoUploadLost == Spec => []UploadsKept
<1>1. Inductive => UploadsKept
  BY DEF Inductive, Files
<1>2. QED
  BY <1>1, InductiveHolds, PTL

\* The password that _credentials settles on always opens the database there
\* is, although it is kept in a file, a Secret and the volume.
THEOREM DatabaseCanBeOpened == Spec => []DatabaseOpens
<1>1. Inductive => DatabaseOpens
  BY DEF Inductive, Passwords
<1>2. QED
  BY <1>1, InductiveHolds, PTL

\* The server that keeps uploads in its container and the one that keeps them
\* in the volume never run at once: install patches the strategy first.
THEOREM NeverTwoServers == Spec => []OneServer
<1>1. Inductive => OneServer
  <2> SUFFICES ASSUME serving \in {{}, {"container"}, {"volume"}} PROVE OneServer
    BY DEF Inductive, Servers
  <2>1. Cardinality({}) = 0
    BY FS_EmptySet
  <2>2. Cardinality({"container"}) = 1 /\ Cardinality({"volume"}) = 1
    BY FS_Singleton
  <2>3. QED
    BY <2>1, <2>2 DEF OneServer
<1>2. QED
  BY <1>1, InductiveHolds, PTL

\* An installed LibreChat that took its token from crawl4ai's Secret has the
\* token that is there now, though both addons keep it in two places, and lose
\* it in either (_credentials of both, install, uninstall_addon).
THEOREM TokenIsCurrent == Spec => []TokenFits
<1>1. Inductive => TokenFits
  BY DEF Inductive, Tokens, TokenFits
<1>2. QED
  BY <1>1, InductiveHolds, PTL

\* The inventory calls the addon installed only while its server, if there is
\* one of this version, is up (install saves the status after the rollout).
THEOREM InstalledIsUp == Spec => []InstalledServes
<1>1. Inductive => InstalledServes
  BY DEF Inductive, Serves, InstalledServes
<1>2. QED
  BY <1>1, InductiveHolds, PTL

=============================================================================
