------------------------------ MODULE Runtime ------------------------------
(***************************************************************************)
(* The full platform in one container (scripts/render-start.ts): a program *)
(* that makes the keys of all services once, brings the databases to the   *)
(* schema of its image, starts the services and stops them together.  The  *)
(* platform starts it again whenever it has ended.  Between two starts the *)
(* operator may deploy another image, bind a role to another database,     *)
(* and lose the disk or a database.                                        *)
(***************************************************************************)
EXTENDS Sequences, Naturals

CONSTANTS
  DatabaseRoles,  \* the roles that have a database, in the order of their migrations
  Files,          \* the files of secrets, in the order they are written
  Stages,         \* the sets of children, in the order they are started
  Clusters,       \* the database servers a role can be bound to
  Images,
  Migrations,     \* image -> the checksums of its migrations, by name
  Nil,
  MaxFaults       \* bound: what the operator does to the deployment

Elements(s) == {s[i] : i \in DOMAIN s}
Roles == Elements(DatabaseRoles)
Children == UNION Elements(Stages)
Checksums == UNION {Elements(Migrations[i]) : i \in Images}

ASSUME RuntimeAssumption ==
  /\ DatabaseRoles \in Seq(Elements(DatabaseRoles)) /\ DatabaseRoles # <<>>
  /\ Files \in Seq(Elements(Files)) /\ Files # <<>>
  /\ Stages \in Seq(Elements(Stages)) /\ Stages # <<>>
  /\ Roles \subseteq Elements(Files) /\ Roles \subseteq Children
  /\ Clusters # {} /\ Images # {}
  /\ \A i \in Images : Migrations[i] \in Seq(Elements(Migrations[i]))
  /\ Nil \notin [keys : Nat, database : Clusters \cup {Nil}]
  /\ MaxFaults \in Nat

VARIABLES
  image,   \* the image that is deployed
  target,  \* role -> the cluster in its database URL
  disk,    \* bootstrap.json, and the files of secrets
  db,      \* role -> cluster -> schema_migrations, and the keys its rows were written under
  made,    \* how many sets of keys have been written
  step,    \* where the program is; Down when it does not run
  at,      \* the file, role or stage it is at
  item,    \* the migration it is at; 0 before the table is there
  child,
  faults   \* what the operator has done

deployment == <<image, target, faults>>
vars == <<image, target, disk, db, made, step, at, item, child, faults>>

Markers == {"none", "partial", "whole"}
Secrets == [keys : Nat, database : Clusters \cup {Nil}]
Schema == [table : BOOLEAN, applied : Seq(Checksums), keys : SUBSET Nat]
EmptyDatabase == [table |-> FALSE, applied |-> <<>>, keys |-> {}]
EmptyDisk == [marker |-> "none", files |-> [f \in Elements(Files) |-> Nil]]
Absent == [c \in Children |-> "Absent"]
Alive == {c \in Children : child[c] \in {"Starting", "Up", "Told"}}

RuntimeInit ==
  /\ image \in Images
  /\ \E c \in Clusters : target = [r \in Roles |-> c]
  /\ disk = EmptyDisk
  /\ db = [r \in Roles |-> [c \in Clusters |-> EmptyDatabase]]
  /\ made = 0 /\ step = "Down" /\ at = 1 /\ item = 0 /\ child = Absent /\ faults = 0

Bound(r) == db[r][target[r]]

Go(s, i) == step' = s /\ at' = i /\ item' = 0

Boot == step = "Down" /\ Go("Init", 1) /\ UNCHANGED <<deployment, disk, db, made, child>>

(***************************************************************************)
(* initializeRenderRuntime                                                 *)
(***************************************************************************)
MaterialValid ==
  /\ disk.marker = "whole"
  /\ \A f \in Elements(Files) : disk.files[f] # Nil
  /\ \A r \in Roles : disk.files[r].database = target[r]
  /\ \A f, g \in Elements(Files) : disk.files[f].keys = disk.files[g].keys

DatabasesInitialized == \A r \in Roles : Bound(r).table

RuntimeEmpty == disk = EmptyDisk
FirstDatabaseEmpty == ~Bound(DatabaseRoles[1]).table
DatabasesEmpty == \A r \in Roles : ~Bound(r).table

MayReuse == disk.marker # "none" /\ MaterialValid /\ DatabasesInitialized
MayCreate == disk.marker = "none" /\ RuntimeEmpty /\ DatabasesEmpty

Reuse == step = "Init" /\ MayReuse /\ Go("Migrate", 1) /\ UNCHANGED <<deployment, disk, db, made, child>>

Create == step = "Init" /\ MayCreate /\ Go("Write", 1) /\ UNCHANGED <<deployment, disk, db, made, child>>

(* Nothing is repaired and nothing made again: the program fails.          *)
Refuse ==
  /\ step = "Init" /\ ~MayReuse /\ ~MayCreate
  /\ Go("Down", 1)
  /\ UNCHANGED <<deployment, disk, db, made, child>>

(* Keys that were made and reached no file are nobody's.                   *)
Material(f) == [keys |-> made', database |-> IF f \in Roles THEN target[f] ELSE Nil]

WriteFile ==
  /\ step = "Write"
  /\ disk.files[Files[at]] = Nil
  /\ made' = IF at = 1 THEN made + 1 ELSE made
  /\ disk' = [disk EXCEPT !.files[Files[at]] = Material(Files[at])]
  /\ IF at = Len(Files) THEN Go("Migrate", 1) ELSE Go("Write", at + 1)
  /\ UNCHANGED <<deployment, db, child>>

Role == DatabaseRoles[at]
Pool == disk.files[Role].database

CreateTable ==
  /\ step = "Migrate" /\ item = 0
  /\ db' = [db EXCEPT ![Role][Pool].table = TRUE]
  /\ item' = 1
  /\ UNCHANGED <<deployment, disk, made, step, at, child>>

(* One migration and its row are one transaction.                          *)
Apply ==
  /\ step = "Migrate" /\ item \in DOMAIN Migrations[image]
  /\ item > Len(db[Role][Pool].applied)
  /\ db' = [db EXCEPT ![Role][Pool].applied = Append(@, Migrations[image][item])]
  /\ item' = item + 1
  /\ UNCHANGED <<deployment, disk, made, step, at, child>>

Unchanged == db[Role][Pool].applied[item] = Migrations[image][item]

AlreadyApplied ==
  /\ step = "Migrate" /\ item \in DOMAIN Migrations[image]
  /\ item <= Len(db[Role][Pool].applied)
  /\ IF Unchanged THEN item' = item + 1 /\ UNCHANGED <<step, at>> ELSE Go("Down", 1)
  /\ UNCHANGED <<deployment, disk, db, made, child>>

Migrated ==
  /\ step = "Migrate" /\ item > Len(Migrations[image])
  /\ \/ at < Len(DatabaseRoles) /\ Go("Migrate", at + 1)
     \/ at = Len(DatabaseRoles) /\ Go(IF disk.marker = "none" THEN "Mark" ELSE "Check", 1)
  /\ UNCHANGED <<deployment, disk, db, made, child>>

WriteMarker ==
  /\ step = "Mark"
  /\ \/ disk.marker = "none" /\ disk' = [disk EXCEPT !.marker = "partial"] /\ UNCHANGED <<step, at, item>>
     \/ disk.marker = "partial" /\ disk' = [disk EXCEPT !.marker = "whole"] /\ Go("Check", 1)
  /\ UNCHANGED <<deployment, db, made, child>>

(***************************************************************************)
(* startRenderService                                                      *)
(***************************************************************************)
TestGateway ==
  /\ step = "Check"
  /\ \E s \in {"Start", "Down"} : Go(s, 1)
  /\ UNCHANGED <<deployment, disk, db, made, child>>

StartStage ==
  /\ step = "Start"
  /\ child' = [c \in Children |-> IF c \in Stages[at] THEN "Starting" ELSE child[c]]
  /\ Go("Wait", at)
  /\ UNCHANGED <<deployment, disk, db, made>>

(* A child answers /health.                                                *)
Listen(c) ==
  /\ child[c] = "Starting"
  /\ child' = [child EXCEPT ![c] = "Up"]
  /\ UNCHANGED <<deployment, disk, db, made, step, at, item>>

HealthyPastTheLast ==
  /\ step = "Wait" /\ \A c \in Stages[at] : child[c] = "Up"
  /\ IF at > Len(Stages) THEN Go("Running", 1) ELSE Go("Start", at + 1)
  /\ UNCHANGED <<deployment, disk, db, made, child>>

Healthy ==
  /\ step = "Wait" /\ \A c \in Stages[at] : child[c] = "Up"
  /\ IF at = Len(Stages) THEN Go("Running", 1) ELSE Go("Start", at + 1)
  /\ UNCHANGED <<deployment, disk, db, made, child>>

StopReady(ch) ==
  /\ Go("Stopping", 1)
  /\ child' = [c \in Children |-> IF ch[c] = "Up" THEN "Told" ELSE ch[c]]

(* stop sends SIGTERM to all that have not exited, and waits for them.     *)
Stop(ch) ==
  /\ Go("Stopping", 1)
  /\ child' = [c \in Children |-> IF ch[c] \in {"Starting", "Up"} THEN "Told" ELSE ch[c]]

(* Not all of a stage are ready within sixty attempts; or SIGINT or        *)
(* SIGTERM, which nothing handles before the gateway is healthy.           *)
Unready == step = "Wait" /\ Stop(child) /\ UNCHANGED <<deployment, disk, db, made>>
Signal == step = "Running" /\ Stop(child) /\ UNCHANGED <<deployment, disk, db, made>>

Exited(c) == [child EXCEPT ![c] = "Gone"]

UnexpectedExit(c) ==
  /\ c \in Alive /\ step \in {"Wait", "Running"}
  /\ Stop(Exited(c))
  /\ UNCHANGED <<deployment, disk, db, made>>

ExpectedExit(c) ==
  /\ child[c] = "Told"
  /\ child' = Exited(c)
  /\ UNCHANGED <<deployment, disk, db, made, step, at, item>>

Stopped ==
  /\ step = "Stopping" /\ Alive = {}
  /\ Go("Down", 1) /\ child' = Absent
  /\ UNCHANGED <<deployment, disk, db, made>>

(* The container is killed, with all that runs in it.                      *)
Kill == step # "Down" /\ Go("Down", 1) /\ child' = Absent /\ UNCHANGED <<deployment, disk, db, made>>

(* A service writes rows, which only its own keys open or sign.            *)
Serve(r) ==
  /\ child[r] = "Up"
  /\ db' = [db EXCEPT ![r][disk.files[r].database].keys = @ \cup {disk.files[r].keys}]
  /\ UNCHANGED <<deployment, disk, made, step, at, item, child>>

(***************************************************************************)
(* The operator, while nothing runs.                                       *)
(***************************************************************************)
Operate == step = "Down" /\ faults < MaxFaults /\ faults' = faults + 1 /\ UNCHANGED <<made, step, at, item, child>>

Deploy == Operate /\ image' \in Images \ {image} /\ UNCHANGED <<target, disk, db>>

Rebind == Operate /\ target' \in [Roles -> Clusters] \ {target} /\ UNCHANGED <<image, disk, db>>

LoseDisk == Operate /\ disk' = EmptyDisk /\ UNCHANGED <<image, target, db>>

LoseDatabases ==
  /\ Operate
  /\ \E lost \in SUBSET Roles \ {{}}, c \in Clusters :
       db' = [r \in Roles |-> IF r \in lost THEN [db[r] EXCEPT ![c] = EmptyDatabase] ELSE db[r]]
  /\ UNCHANGED <<image, target, disk>>

Initialise ==
  \/ Reuse \/ Create \/ Refuse \/ WriteFile \/ CreateTable \/ Apply \/ AlreadyApplied \/ Migrated \/ WriteMarker

Supervise == TestGateway \/ StartStage \/ Healthy \/ Unready \/ Stopped

RuntimeNext ==
  \/ Boot \/ Initialise \/ Supervise \/ Signal \/ Kill
  \/ \E c \in Children : Listen(c) \/ UnexpectedExit(c) \/ ExpectedExit(c)
  \/ \E r \in Roles : Serve(r)
  \/ Deploy \/ Rebind \/ LoseDisk \/ LoseDatabases

(* The program goes on, and a child that was told to exit does.            *)
Fairness ==
  /\ WF_vars(Initialise) /\ WF_vars(Supervise)
  /\ \A c \in Children : WF_vars(ExpectedExit(c))

RuntimeSpec == RuntimeInit /\ [][RuntimeNext]_vars /\ Fairness

-----------------------------------------------------------------------------

(* The variables keep their types; a marker stands on files that are all   *)
(* there, and nothing lives in a container that is down                    *)
(* (runtime-config.ts:83-121, render-start.ts:142-146).                    *)
TypeOK ==
  /\ image \in Images /\ target \in [Roles -> Clusters]
  /\ disk \in [marker : Markers, files : [Elements(Files) -> Secrets \cup {Nil}]]
  /\ disk.marker # "none" => \A f \in Elements(Files) : disk.files[f] # Nil
  /\ db \in [Roles -> [Clusters -> Schema]]
  /\ made \in Nat /\ item \in Nat /\ faults \in Nat
  /\ step \in {"Down", "Init", "Write", "Migrate", "Mark", "Check", "Start", "Wait", "Running", "Stopping"}
  /\ at \in Nat \ {0}
  /\ step = "Write" => at <= Len(Files)
  /\ step = "Migrate" => at <= Len(DatabaseRoles)
  /\ step \in {"Start", "Wait"} => at <= Len(Stages)
  /\ child \in [Children -> {"Absent", "Starting", "Up", "Told", "Gone"}]
  /\ step = "Down" => Alive = {}

FitsImage(schema) ==
  /\ schema.table
  /\ \A i \in DOMAIN Migrations[image] : i <= Len(schema.applied) /\ schema.applied[i] = Migrations[image][i]

(* While any child lives, every role is bound to the database its secrets  *)
(* name, that database fits the image, and all that is in it was written   *)
(* under the one set of keys on the disk: no interrupted start, lost disk, *)
(* lost or exchanged database and no other image puts new keys over old    *)
(* rows (docs/DEPLOYMENT.md: There is no key regeneration or alternate     *)
(* workflow over existing state).                                          *)
ServesItsOwnData ==
  Alive # {} =>
    \A r \in Roles :
      /\ disk.files[r] # Nil /\ disk.files[r].database = target[r]
      /\ FitsImage(Bound(r))
      /\ \A f \in Elements(Files) : Bound(r).keys \subseteq {disk.files[f].keys}

(* The platform does not stay half up: again and again either the gateway  *)
(* is open and every child is up, or the program has ended and no child is *)
(* left (render-start.ts:176-198).                                         *)
AllOrNothing ==
  []<>( \/ step = "Running" /\ \A c \in Children : child[c] = "Up"
        \/ step = "Down" /\ Alive = {} )
=============================================================================
