---------------------------- MODULE RuntimeProofs ----------------------------
(***************************************************************************)
(* TypeOK and ServesItsOwnData hold of RuntimeSpec for every number of     *)
(* roles, files, stages, clusters, images and faults.                      *)
(*                                                                         *)
(* The argument: a database without a table has no rows (Untouched), so    *)
(* the keys of a first start meet no rows; from the first migration on the *)
(* files are whole, of one set of keys and bound to the databases in use   *)
(* (Prepared); the migrations fit one role after another (Progress,        *)
(* Fitted); and a disk that bears the marker keeps all this about the      *)
(* databases its files name while nothing runs (MaterialSound).  So every  *)
(* step leaves the keys of the rows of each database alone, but for a      *)
(* database without rows (Sealed).                                         *)
(***************************************************************************)
EXTENDS Runtime, TLAPS

FileSet == Elements(Files)

OneKey == \A f, g \in FileSet : disk.files[f].keys = disk.files[g].keys

Written == \A f \in FileSet : disk.files[f] # Nil

(* The database a role's file names holds rows of the disk's keys only.    *)
MaterialSound ==
  disk.marker = "whole" =>
    OneKey /\ \A r \in Roles, f \in FileSet : db[r][disk.files[r].database].keys \subseteq {disk.files[f].keys}

Untouched == \A r \in Roles, c \in Clusters : ~db[r][c].table => db[r][c].keys = {}

Supervising == {"Check", "Start", "Wait", "Running", "Stopping"}

Writing ==
  step = "Write" =>
    /\ disk.marker = "none" /\ DatabasesEmpty
    /\ \A i \in 1 .. at - 1 :
         disk.files[Files[i]] = [keys |-> made, database |-> IF Files[i] \in Roles THEN target[Files[i]] ELSE Nil]

Prepared ==
  step \in {"Migrate", "Mark"} \cup Supervising =>
    /\ Written /\ OneKey
    /\ \A r \in Roles : disk.files[r].database = target[r]
    /\ \A r \in Roles, f \in FileSet : Bound(r).keys \subseteq {disk.files[f].keys}

Progress ==
  step = "Migrate" =>
    /\ disk.marker \in {"none", "whole"}
    /\ \A i \in 1 .. at - 1 : FitsImage(Bound(DatabaseRoles[i]))
    /\ item > 0 =>
         /\ Bound(Role).table
         /\ \A k \in DOMAIN Migrations[image] : k < item =>
              k <= Len(Bound(Role).applied) /\ Bound(Role).applied[k] = Migrations[image][k]

Fitted == step \in {"Mark"} \cup Supervising => \A r \in Roles : FitsImage(Bound(r))

Marked ==
  /\ step \in Supervising => disk.marker = "whole"
  /\ step = "Mark" => disk.marker \in {"none", "partial"}

Supervised == Alive # {} => step \in {"Start", "Wait", "Running", "Stopping"}

IInv ==
  TypeOK /\ MaterialSound /\ Untouched /\ Writing /\ Prepared /\ Progress /\ Fitted /\ Marked /\ Supervised

-----------------------------------------------------------------------------
LEMMA NonEmptyList ==
  ASSUME NEW S, NEW s \in Seq(S), s # <<>>
  PROVE  Len(s) \in Nat \ {0} /\ DOMAIN s = 1 .. Len(s)
  OBVIOUS

LEMMA Lists ==
  /\ Len(DatabaseRoles) \in Nat \ {0} /\ DOMAIN DatabaseRoles = 1 .. Len(DatabaseRoles)
  /\ Len(Files) \in Nat \ {0} /\ DOMAIN Files = 1 .. Len(Files)
  /\ Len(Stages) \in Nat \ {0} /\ DOMAIN Stages = 1 .. Len(Stages)
  /\ Roles = {DatabaseRoles[i] : i \in 1 .. Len(DatabaseRoles)}
  /\ FileSet = {Files[i] : i \in 1 .. Len(Files)}
  /\ Roles \subseteq FileSet /\ Roles \subseteq Children
<1>1. Len(DatabaseRoles) \in Nat \ {0} /\ DOMAIN DatabaseRoles = 1 .. Len(DatabaseRoles)
  BY RuntimeAssumption, NonEmptyList DEF RuntimeAssumption
<1>2. Len(Files) \in Nat \ {0} /\ DOMAIN Files = 1 .. Len(Files)
  BY RuntimeAssumption, NonEmptyList DEF RuntimeAssumption
<1>3. Len(Stages) \in Nat \ {0} /\ DOMAIN Stages = 1 .. Len(Stages)
  BY RuntimeAssumption, NonEmptyList DEF RuntimeAssumption
<1>4. QED
  BY <1>1, <1>2, <1>3, RuntimeAssumption DEF RuntimeAssumption, Elements, Roles, FileSet

LEMMA ImageMigrations ==
  ASSUME image \in Images
  PROVE  /\ Len(Migrations[image]) \in Nat /\ DOMAIN Migrations[image] = 1 .. Len(Migrations[image])
         /\ \A k \in DOMAIN Migrations[image] : Migrations[image][k] \in Checksums
<1>1. Migrations[image] \in Seq(Elements(Migrations[image]))
  BY RuntimeAssumption DEF RuntimeAssumption
<1>2. Elements(Migrations[image]) \subseteq Checksums
  BY DEF Checksums
<1>3. QED
  BY <1>1, <1>2 DEF Elements

(* A fresh machine, before the start program ran, is consistent.           *)
THEOREM RuntimeInitIInv == RuntimeInit => IInv
<1> SUFFICES ASSUME RuntimeInit PROVE IInv
  OBVIOUS
<1>1. target \in [Roles -> Clusters]
  BY DEF RuntimeInit
<1>2. child = Absent /\ Alive = {}
  BY DEF RuntimeInit, Absent, Alive
<1>3. disk.marker = "none" /\ disk \in [marker : Markers, files : [Elements(Files) -> Secrets \cup {Nil}]]
  BY DEF RuntimeInit, EmptyDisk, Markers
<1>4. EmptyDatabase \in Schema /\ EmptyDatabase.keys = {}
  BY DEF EmptyDatabase, Schema
<1>5. db \in [Roles -> [Clusters -> Schema]]
  BY <1>4 DEF RuntimeInit
<1>6. TypeOK
  BY <1>1, <1>2, <1>3, <1>5 DEF RuntimeInit, TypeOK, Absent
<1>7. Untouched
  BY <1>4 DEF RuntimeInit, Untouched
<1>8. QED
  BY <1>2, <1>3, <1>6, <1>7 DEF RuntimeInit, IInv, MaterialSound, Writing, Prepared, Progress, Fitted, Marked,
     Supervised, Supervising

-----------------------------------------------------------------------------
(* A step that leaves deployment, disk and databases alone keeps what is   *)
(* said of the data; the rest depends on where the program goes.           *)
LEMMA ControlKeeps ==
  ASSUME IInv, UNCHANGED <<deployment, disk, db, made>>
  PROVE  /\ MaterialSound' /\ Untouched'
         /\ (Written <=> Written') /\ (OneKey <=> OneKey')
         /\ (DatabasesEmpty <=> DatabasesEmpty')
         /\ \A r \in Roles : Bound(r)' = Bound(r) /\ (FitsImage(Bound(r)) <=> FitsImage(Bound(r))')
  BY DEF IInv, MaterialSound, Untouched, Written, OneKey, DatabasesEmpty, Bound, FitsImage, deployment

(* The program has stopped.                                                *)
LEMMA DownKeeps ==
  ASSUME IInv, UNCHANGED <<deployment, disk, db, made>>, Go("Down", 1),
         child' \in [Children -> {"Absent", "Starting", "Up", "Told", "Gone"}], Alive' = {}
  PROVE  IInv'
<1>1. TypeOK'
  BY DEF IInv, TypeOK, Go, deployment
<1>2. QED
  BY <1>1, ControlKeeps DEF IInv, Go, Writing, Prepared, Progress, Fitted, Marked, Supervised, Supervising

(* Outside the supervision no child lives.                                 *)
LEMMA NobodyLives ==
  ASSUME IInv, step \notin {"Start", "Wait", "Running", "Stopping"}, UNCHANGED child
  PROVE  Alive' = {}
  BY DEF IInv, Supervised, Alive

LEMMA BootKeeps == IInv /\ Boot => IInv'
<1> SUFFICES ASSUME IInv, Boot PROVE IInv'
  OBVIOUS
<1>1. Alive' = {}
  BY NobodyLives DEF Boot
<1>2. TypeOK'
  BY <1>1 DEF IInv, TypeOK, Boot, Go, deployment
<1>3. QED
  BY <1>1, <1>2, ControlKeeps DEF Boot, IInv, Go, Writing, Prepared, Progress, Fitted, Marked, Supervised,
     Supervising

LEMMA RefuseKeeps == IInv /\ Refuse => IInv'
<1> SUFFICES ASSUME IInv, Refuse PROVE IInv'
  OBVIOUS
<1>1. Alive' = {}
  BY NobodyLives DEF Refuse
<1>2. QED
  BY <1>1, DownKeeps DEF Refuse, IInv, TypeOK

LEMMA CreateKeeps == IInv /\ Create => IInv'
<1> SUFFICES ASSUME IInv, Create PROVE IInv'
  OBVIOUS
<1>1. Alive' = {}
  BY NobodyLives DEF Create
<1>2. TypeOK'
  BY <1>1, Lists DEF IInv, TypeOK, Create, Go, deployment
<1>3. Writing'
  BY ControlKeeps DEF Create, MayCreate, Writing, Go
<1>4. QED
  BY <1>1, <1>2, <1>3, ControlKeeps DEF Create, IInv, Go, Prepared, Progress, Fitted, Marked, Supervised,
     Supervising

LEMMA ReuseKeeps == IInv /\ Reuse => IInv'
<1> SUFFICES ASSUME IInv, Reuse PROVE IInv'
  OBVIOUS
<1>1. Alive' = {}
  BY NobodyLives DEF Reuse
<1>2. TypeOK'
  BY <1>1, Lists DEF IInv, TypeOK, Reuse, Go, deployment
<1>3. /\ Written /\ OneKey
      /\ \A r \in Roles : disk.files[r].database = target[r]
      /\ \A r \in Roles, f \in FileSet : Bound(r).keys \subseteq {disk.files[f].keys}
  BY DEF Reuse, MayReuse, MaterialValid, IInv, MaterialSound, Written, OneKey, FileSet, Bound
<1>4. Prepared'
  BY <1>3, ControlKeeps DEF Prepared, Reuse, deployment
<1>5. Progress'
  BY DEF Reuse, MayReuse, MaterialValid, Progress, Go
<1>6. QED
  BY <1>1, <1>2, <1>4, <1>5, ControlKeeps DEF Reuse, IInv, Go, Writing, Fitted, Marked, Supervised, Supervising

-----------------------------------------------------------------------------
(* A migration that starts on prepared material.                           *)
LEMMA WriteFileKeeps == IInv /\ WriteFile => IInv'
<1> SUFFICES ASSUME IInv, WriteFile PROVE IInv'
  OBVIOUS
<1> DEFINE f0 == Files[at]
<1>1. step = "Write" /\ at \in 1 .. Len(Files) /\ f0 \in FileSet
  BY Lists DEF WriteFile, IInv, TypeOK
<1>2. disk.marker = "none" /\ DatabasesEmpty
  BY <1>1 DEF IInv, Writing
<1>3. /\ disk \in [marker : Markers, files : [FileSet -> Secrets \cup {Nil}]]
      /\ disk' = [disk EXCEPT !.files[f0] = Material(f0)]
      /\ made \in Nat /\ made' = (IF at = 1 THEN made + 1 ELSE made)
      /\ target \in [Roles -> Clusters] /\ UNCHANGED <<target, image, faults, db, child>>
  BY DEF IInv, TypeOK, FileSet, WriteFile, deployment
<1>4. Material(f0) \in Secrets /\ Material(f0) # Nil
  <2>1. Material(f0) \in [keys : Nat, database : Clusters \cup {Nil}]
    BY <1>1, <1>3 DEF Material
  <2>2. QED
    BY <2>1, RuntimeAssumption DEF Secrets, RuntimeAssumption
<1>5. /\ disk' \in [marker : Markers, files : [FileSet -> Secrets \cup {Nil}]]
      /\ disk'.marker = "none"
      /\ \A f \in FileSet : disk'.files[f] = IF f = f0 THEN Material(f0) ELSE disk.files[f]
  BY <1>1, <1>2, <1>3, <1>4
<1>6. Alive' = {}
  BY <1>1, NobodyLives DEF WriteFile
<1>7. /\ step' = IF at = Len(Files) THEN "Migrate" ELSE "Write"
      /\ at' = IF at = Len(Files) THEN 1 ELSE at + 1
      /\ item' = 0
  BY <1>1, Lists DEF WriteFile, Go
<1>8. TypeOK'
  <2>1. at' \in Nat \ {0} /\ (step' = "Write" => at' <= Len(Files)) /\ (step' = "Migrate" => at' <= Len(DatabaseRoles))
    <3>1. CASE at = Len(Files)
      BY <1>7, <3>1, Lists
    <3>2. CASE at # Len(Files)
      <4>1. step' = "Write" /\ at' = at + 1
        BY <1>7, <3>2
      <4>2. Len(Files) \in Nat
        BY Lists
      <4>3. at + 1 \in 1 .. Len(Files)
        BY <1>1, <3>2, <4>2
      <4>4. QED
        BY <4>1, <4>3
    <3>3. QED
      BY <3>1, <3>2
  <2>2. step' \in {"Write", "Migrate"} /\ made' \in Nat /\ item' \in Nat
    BY <1>3, <1>7
  <2>3. disk' \in [marker : Markers, files : [Elements(Files) -> Secrets \cup {Nil}]] /\ disk'.marker = "none"
    BY <1>5 DEF FileSet
  <2>4. QED
    BY <1>3, <1>6, <2>1, <2>2, <2>3 DEF IInv, TypeOK
<1>9. \A i \in 1 .. at : disk'.files[Files[i]] = [keys |-> made', database |-> IF Files[i] \in Roles THEN target[Files[i]] ELSE Nil]
  <2> SUFFICES ASSUME NEW i \in 1 .. at
               PROVE  disk'.files[Files[i]] = [keys |-> made', database |-> IF Files[i] \in Roles THEN target[Files[i]] ELSE Nil]
    OBVIOUS
  <2>1. Files[i] \in FileSet
    BY <1>1, Lists
  <2>2. CASE Files[i] = f0
    BY <1>5, <2>1, <2>2 DEF Material
  <2>3. CASE Files[i] # f0
    <3>1. i \in 1 .. at - 1 /\ at # 1
      BY <1>1, <2>3, Lists
    <3>2. QED
      BY <1>1, <1>3, <1>5, <2>1, <2>3, <3>1 DEF IInv, Writing
  <2>4. QED
    BY <2>2, <2>3
<1>10. DatabasesEmpty'
  BY <1>2, <1>3 DEF DatabasesEmpty, Bound
<1>11. Writing'
  BY <1>1, <1>3, <1>5, <1>7, <1>9, <1>10 DEF Writing
<1>12. Prepared'
  <2> SUFFICES ASSUME at = Len(Files) PROVE Prepared'
    BY <1>7 DEF Prepared, Supervising
  <2>1. \A f \in FileSet : disk'.files[f] = [keys |-> made', database |-> IF f \in Roles THEN target[f] ELSE Nil]
    BY <1>9, Lists
  <2>2. Written'
    <3> SUFFICES ASSUME NEW f \in FileSet PROVE disk'.files[f] # Nil
      BY DEF Written
    <3>1. made' \in Nat
      BY <1>3
    <3>2. [keys |-> made', database |-> IF f \in Roles THEN target[f] ELSE Nil] \in [keys : Nat, database : Clusters \cup {Nil}]
      BY <1>3, <3>1
    <3>3. QED
      BY <2>1, <3>2, RuntimeAssumption DEF RuntimeAssumption
  <2>3. OneKey'
    <3>1. ASSUME NEW f \in FileSet PROVE disk'.files[f].keys = made'
      <4>1. disk'.files[f] = [keys |-> made', database |-> IF f \in Roles THEN target[f] ELSE Nil]
        BY <2>1
      <4>2. QED
        BY <4>1
    <3>2. QED
      BY <3>1 DEF OneKey
  <2>4. \A r \in Roles : disk'.files[r].database = target'[r]
    <3> SUFFICES ASSUME NEW r \in Roles PROVE disk'.files[r].database = target'[r]
      OBVIOUS
    <3>1. r \in FileSet /\ disk'.files[r] = [keys |-> made', database |-> IF r \in Roles THEN target[r] ELSE Nil]
      BY <2>1, Lists
    <3>2. QED
      BY <1>3, <3>1
  <2>5. \A r \in Roles : Bound(r)'.keys = {}
    <3> SUFFICES ASSUME NEW r \in Roles PROVE db[r][target[r]].keys = {}
      BY <1>3 DEF Bound
    <3>1. target[r] \in Clusters
      BY <1>3
    <3>2. QED
      BY <1>2, <3>1 DEF DatabasesEmpty, Bound, IInv, Untouched
  <2>6. QED
    BY <2>2, <2>3, <2>4, <2>5 DEF Prepared
<1>13. Progress'
  BY <1>5, <1>7 DEF Progress
<1>14. MaterialSound' /\ Untouched'
  BY <1>3, <1>5 DEF IInv, MaterialSound, Untouched
<1>15. QED
  BY <1>6, <1>7, <1>8, <1>11, <1>12, <1>13, <1>14 DEF IInv, Fitted, Marked, Supervised, Supervising

-----------------------------------------------------------------------------
(* What is known while the migration runs.                                 *)
LEMMA Migrating ==
  ASSUME IInv, step = "Migrate"
  PROVE  /\ at \in 1 .. Len(DatabaseRoles) /\ Role \in Roles
         /\ Pool = target[Role] /\ Pool \in Clusters /\ Bound(Role) = db[Role][Pool] /\ Bound(Role) \in Schema
         /\ Prepared /\ Written /\ OneKey /\ disk.marker \in {"none", "whole"}
         /\ Alive = {}
<1>1. at \in 1 .. Len(DatabaseRoles) /\ Role \in Roles
  BY Lists DEF IInv, TypeOK, Role
<1>2. Prepared /\ Written /\ OneKey /\ Pool = target[Role] /\ disk.marker \in {"none", "whole"}
  BY <1>1 DEF IInv, Prepared, Pool, Progress
<1>3. Pool \in Clusters /\ Bound(Role) = db[Role][Pool] /\ Bound(Role) \in Schema
  BY <1>1, <1>2 DEF IInv, TypeOK, Bound
<1>4. QED
  BY <1>1, <1>2, <1>3 DEF IInv, Supervised

(* The database in hand changes in its migrations only.                    *)
LEMMA MigrationKeeps ==
  ASSUME IInv, step = "Migrate", UNCHANGED <<deployment, disk, made, step, at, child>>,
         NEW d \in Schema, d.keys = Bound(Role).keys, Bound(Role).table \/ d.table, d.table,
         db' = [db EXCEPT ![Role][Pool] = d],
         item' \in Nat,
         FitsImage(Bound(Role)) => FitsImage(d),
         \A k \in DOMAIN Migrations[image] : k < item' => k <= Len(d.applied) /\ d.applied[k] = Migrations[image][k]
  PROVE  IInv'
<1>1. /\ at \in 1 .. Len(DatabaseRoles) /\ Role \in Roles
      /\ Pool = target[Role] /\ Pool \in Clusters /\ Bound(Role) = db[Role][Pool] /\ Bound(Role) \in Schema
      /\ Prepared /\ Written /\ OneKey /\ disk.marker \in {"none", "whole"} /\ Alive = {}
  BY Migrating
<1>2. db \in [Roles -> [Clusters -> Schema]]
  BY DEF IInv, TypeOK
<1>3. /\ db' \in [Roles -> [Clusters -> Schema]]
      /\ \A r \in Roles, c \in Clusters : db'[r][c] = IF r = Role /\ c = Pool THEN d ELSE db[r][c]
  BY <1>1, <1>2
<1>4. UNCHANGED <<image, target, faults, disk, made, step, at, child>>
  BY DEF deployment
<1>5. Alive' = {} /\ Role' = Role
  BY <1>1, <1>4 DEF Alive, Role
<1>6. TypeOK'
  BY <1>3, <1>4, <1>5 DEF IInv, TypeOK
<1>7. \A r \in Roles, c \in Clusters : db'[r][c].keys = db[r][c].keys
  BY <1>1, <1>3
<1>8. target \in [Roles -> Clusters]
  BY DEF IInv, TypeOK
<1>9. \A r \in Roles : Bound(r)' = IF r = Role THEN d ELSE Bound(r)
  BY <1>1, <1>3, <1>4, <1>8 DEF Bound
<1>10. MaterialSound'
  <2>1. \A r \in Roles : disk.files[r].database = target[r]
    BY <1>1 DEF Prepared
  <2>2. QED
    BY <1>4, <1>7, <1>8, <2>1 DEF IInv, MaterialSound, OneKey
<1>11. Untouched'
  BY <1>1, <1>3 DEF IInv, Untouched
<1>12. Prepared'
  BY <1>1, <1>4, <1>9 DEF Prepared, Written, OneKey
<1>13. \A r \in Roles : FitsImage(Bound(r)) => FitsImage(Bound(r))'
  BY <1>4, <1>9 DEF FitsImage
<1>14. Progress'
  <2>1. \A i \in 1 .. at - 1 : FitsImage(Bound(DatabaseRoles[i]))'
    <3> SUFFICES ASSUME NEW i \in 1 .. at - 1 PROVE FitsImage(Bound(DatabaseRoles[i]))'
      OBVIOUS
    <3>1. DatabaseRoles[i] \in Roles
      BY <1>1, Lists
    <3>2. FitsImage(Bound(DatabaseRoles[i]))
      BY DEF IInv, Progress
    <3>3. QED
      BY <1>13, <3>1, <3>2
  <2>2. (Bound(Role))' = d
    BY <1>1, <1>5, <1>9 DEF Bound
  <2>3. QED
    BY <1>1, <1>4, <2>1, <2>2 DEF Progress
<1>15. QED
  BY <1>4, <1>5, <1>6, <1>10, <1>11, <1>12, <1>14 DEF IInv, Writing, Fitted, Marked, Supervised, Supervising

LEMMA CreateTableKeeps == IInv /\ CreateTable => IInv'
<1> SUFFICES ASSUME IInv, CreateTable PROVE IInv'
  OBVIOUS
<1> DEFINE d == [Bound(Role) EXCEPT !.table = TRUE]
<1>1. Bound(Role) \in Schema /\ Bound(Role) = db[Role][Pool] /\ Role \in Roles /\ Pool \in Clusters
  BY Migrating DEF CreateTable
<1>2. d \in Schema /\ d.table /\ d.keys = Bound(Role).keys /\ d.applied = Bound(Role).applied
  BY <1>1 DEF Schema
<1>3. db' = [db EXCEPT ![Role][Pool] = d]
  BY <1>1 DEF CreateTable, IInv, TypeOK
<1>4. FitsImage(Bound(Role)) => FitsImage(d)
  BY <1>2 DEF FitsImage
<1>5. image \in Images
  BY DEF IInv, TypeOK
<1>6. \A k \in DOMAIN Migrations[image] : ~(k < item')
  BY <1>5, ImageMigrations DEF CreateTable
<1>7. QED
  BY <1>2, <1>3, <1>4, <1>6, MigrationKeeps DEF CreateTable

LEMMA ApplyKeeps == IInv /\ Apply => IInv'
<1> SUFFICES ASSUME IInv, Apply PROVE IInv'
  OBVIOUS
<1> DEFINE d == [Bound(Role) EXCEPT !.applied = Append(@, Migrations[image][item])]
<1>1. Bound(Role) \in Schema /\ Bound(Role) = db[Role][Pool] /\ Role \in Roles /\ Pool \in Clusters
  BY Migrating DEF Apply
<1>2. image \in Images /\ item \in Nat
  BY DEF IInv, TypeOK
<1>3. /\ DOMAIN Migrations[image] = 1 .. Len(Migrations[image]) /\ Len(Migrations[image]) \in Nat
      /\ item \in 1 .. Len(Migrations[image]) /\ Migrations[image][item] \in Checksums
  BY <1>2, ImageMigrations DEF Apply
<1>4. Bound(Role).applied \in Seq(Checksums) /\ item > Len(Bound(Role).applied)
  BY <1>1 DEF Schema, Apply
<1>5. /\ Bound(Role).table
      /\ \A k \in DOMAIN Migrations[image] : k < item =>
           k <= Len(Bound(Role).applied) /\ Bound(Role).applied[k] = Migrations[image][k]
  BY <1>2, <1>3 DEF Apply, IInv, Progress
<1>6. Len(Bound(Role).applied) = item - 1
  <2> DEFINE n == Len(Bound(Role).applied)
  <2>1. n \in Nat /\ item > n /\ item \in Nat
    BY <1>2, <1>4
  <2>2. item = 1 \/ item - 1 <= n
    <3> SUFFICES ASSUME item # 1 PROVE item - 1 <= n
      OBVIOUS
    <3>1. item - 1 \in DOMAIN Migrations[image] /\ item - 1 < item
      BY <1>3
    <3>2. QED
      BY <1>5, <3>1
  <2> HIDE DEF n
  <2>3. n = item - 1
    BY <2>1, <2>2
  <2>4. QED
    BY <2>3 DEF n
<1>7. d \in Schema /\ d.table /\ d.keys = Bound(Role).keys /\ d.applied = Append(Bound(Role).applied, Migrations[image][item])
  <2>1. Append(Bound(Role).applied, Migrations[image][item]) \in Seq(Checksums)
    BY <1>3, <1>4
  <2>2. Bound(Role) \in [table : BOOLEAN, applied : Seq(Checksums), keys : SUBSET Nat]
    BY <1>1 DEF Schema
  <2>3. QED
    BY <1>5, <2>1, <2>2 DEF Schema
<1>8. db' = [db EXCEPT ![Role][Pool] = d]
  BY <1>1 DEF Apply, IInv, TypeOK
<1>9. ~FitsImage(Bound(Role))
  BY <1>3, <1>4 DEF FitsImage
<1>10. \A k \in DOMAIN Migrations[image] : k < item' => k <= Len(d.applied) /\ d.applied[k] = Migrations[image][k]
  <2> SUFFICES ASSUME NEW k \in DOMAIN Migrations[image], k < item'
               PROVE  k <= Len(d.applied) /\ d.applied[k] = Migrations[image][k]
    OBVIOUS
  <2>1. item' = item + 1 /\ k \in Nat \ {0} /\ Len(d.applied) = item
    BY <1>3, <1>4, <1>6, <1>7 DEF Apply
  <2>2. CASE k = item
    BY <1>4, <1>6, <1>7, <2>1, <2>2
  <2>3. CASE k < item
    BY <1>4, <1>5, <1>6, <1>7, <2>1, <2>3
  <2>4. QED
    BY <1>3, <2>1, <2>2, <2>3
<1>11. QED
  <2>1. item' \in Nat /\ step = "Migrate" /\ UNCHANGED <<deployment, disk, made, step, at, child>>
    BY <1>2 DEF Apply
  <2> HIDE DEF d
  <2>2. QED
    BY <1>7, <1>8, <1>9, <1>10, <2>1, MigrationKeeps

LEMMA AlreadyAppliedKeeps == IInv /\ AlreadyApplied => IInv'
<1> SUFFICES ASSUME IInv, AlreadyApplied PROVE IInv'
  OBVIOUS
<1>1. Bound(Role) \in Schema /\ Bound(Role) = db[Role][Pool] /\ Role \in Roles /\ Pool \in Clusters /\ Alive = {}
  BY Migrating DEF AlreadyApplied
<1>2. image \in Images /\ item \in Nat /\ child \in [Children -> {"Absent", "Starting", "Up", "Told", "Gone"}]
  BY DEF IInv, TypeOK
<1>3. CASE ~Unchanged
  <2>1. Alive' = {}
    BY <1>1 DEF AlreadyApplied, Alive
  <2>2. QED
    BY <1>2, <1>3, <2>1, DownKeeps DEF AlreadyApplied
<1>4. CASE Unchanged
  <2> DEFINE d == db[Role][Pool]
  <2>1. /\ DOMAIN Migrations[image] = 1 .. Len(Migrations[image]) /\ Len(Migrations[image]) \in Nat
        /\ item \in 1 .. Len(Migrations[image]) /\ item <= Len(d.applied)
    BY <1>2, ImageMigrations DEF AlreadyApplied
  <2>2. d.table /\ \A k \in DOMAIN Migrations[image] : k < item =>
          k <= Len(d.applied) /\ d.applied[k] = Migrations[image][k]
    BY <1>1, <2>1 DEF AlreadyApplied, IInv, Progress
  <2>3. item' = item + 1 /\ d.applied[item] = Migrations[image][item] /\ UNCHANGED <<step, at>>
    BY <1>4 DEF AlreadyApplied, Unchanged
  <2>4. \A k \in DOMAIN Migrations[image] : k < item' => k <= Len(d.applied) /\ d.applied[k] = Migrations[image][k]
    <3> SUFFICES ASSUME NEW k \in DOMAIN Migrations[image], k < item'
                 PROVE  k <= Len(d.applied) /\ d.applied[k] = Migrations[image][k]
      OBVIOUS
    <3>1. k = item \/ k < item
      BY <2>1, <2>3
    <3>2. QED
      BY <2>1, <2>2, <2>3, <3>1
  <2>5. db' = [db EXCEPT ![Role][Pool] = d]
    BY <1>1 DEF AlreadyApplied, IInv, TypeOK
  <2>6. item' \in Nat /\ step = "Migrate" /\ UNCHANGED <<deployment, disk, made, step, at, child>>
    BY <1>2, <2>3 DEF AlreadyApplied
  <2>7. d \in Schema /\ d = Bound(Role)
    BY <1>1
  <2> HIDE DEF d
  <2>8. QED
    BY <2>2, <2>4, <2>5, <2>6, <2>7, MigrationKeeps
<1>5. QED
  BY <1>3, <1>4

LEMMA MigratedKeeps == IInv /\ Migrated => IInv'
<1> SUFFICES ASSUME IInv, Migrated PROVE IInv'
  OBVIOUS
<1>1. /\ at \in 1 .. Len(DatabaseRoles) /\ Prepared /\ disk.marker \in {"none", "whole"} /\ Alive = {}
      /\ Written /\ OneKey /\ step = "Migrate"
  BY Migrating DEF Migrated
<1>2. Alive' = {}
  BY <1>1 DEF Migrated, Alive
<1>3. image \in Images /\ item \in Nat /\ Len(Migrations[image]) \in Nat
      /\ DOMAIN Migrations[image] = 1 .. Len(Migrations[image])
  BY ImageMigrations DEF IInv, TypeOK
<1>4. item > 0 /\ \A k \in DOMAIN Migrations[image] : k < item
  BY <1>3 DEF Migrated
<1>5. FitsImage(Bound(Role))
  BY <1>1, <1>4 DEF IInv, Progress, FitsImage
<1>6. \A i \in 1 .. at : FitsImage(Bound(DatabaseRoles[i]))
  <2> SUFFICES ASSUME NEW i \in 1 .. at PROVE FitsImage(Bound(DatabaseRoles[i]))
    OBVIOUS
  <2>1. CASE i = at
    BY <1>5, <2>1 DEF Role
  <2>2. CASE i # at
    <3>1. i \in 1 .. at - 1
      BY <1>1, <2>2
    <3>2. QED
      BY <1>1, <3>1 DEF IInv, Progress
  <2>3. QED
    BY <2>1, <2>2
<1>7. Prepared'
  BY <1>1, ControlKeeps DEF Prepared, Migrated, deployment
<1>8. CASE at < Len(DatabaseRoles)
  <2>1. step' = "Migrate" /\ at' = at + 1 /\ item' = 0
    <3>1. at # Len(DatabaseRoles)
      BY <1>8, Lists
    <3>2. QED
      BY <3>1 DEF Migrated, Go
  <2>2. at' \in 1 .. Len(DatabaseRoles)
    BY <1>1, <1>8, <2>1, Lists
  <2>3. TypeOK'
    BY <1>2, <2>1, <2>2 DEF IInv, TypeOK, Migrated, deployment
  <2>4. \A i \in 1 .. at' - 1 : FitsImage(Bound(DatabaseRoles[i]))'
    <3> SUFFICES ASSUME NEW i \in 1 .. at' - 1 PROVE FitsImage(Bound(DatabaseRoles[i]))'
      OBVIOUS
    <3>1. i \in 1 .. at /\ DatabaseRoles[i] \in Roles
      BY <1>1, <2>1, Lists
    <3>2. QED
      BY <1>6, <3>1, ControlKeeps DEF Migrated
  <2>5. Progress'
    BY <1>1, <2>1, <2>4 DEF Progress, Migrated
  <2>6. QED
    BY <1>2, <1>7, <2>1, <2>3, <2>5, ControlKeeps DEF IInv, Migrated, Writing, Fitted, Marked, Supervised, Supervising
<1>9. CASE at = Len(DatabaseRoles)
  <2>1. step' = (IF disk.marker = "none" THEN "Mark" ELSE "Check") /\ at' = 1 /\ item' = 0
    BY <1>1, <1>9, Lists DEF Migrated, Go
  <2>2. TypeOK'
    BY <1>2, <2>1 DEF IInv, TypeOK, Migrated, deployment
  <2>3. \A r \in Roles : FitsImage(Bound(r))'
    BY <1>6, <1>9, Lists, ControlKeeps DEF Migrated
  <2>4. Marked'
    BY <1>1, <2>1 DEF Marked, Supervising, Migrated
  <2>5. QED
    BY <1>2, <1>7, <2>1, <2>2, <2>3, <2>4, ControlKeeps DEF IInv, Migrated, Writing, Progress, Fitted, Supervised
<1>10. QED
  BY <1>1, <1>8, <1>9, Lists DEF Migrated

LEMMA WriteMarkerKeeps == IInv /\ WriteMarker => IInv'
<1> SUFFICES ASSUME IInv, WriteMarker PROVE IInv'
  OBVIOUS
<1>1. /\ Written /\ OneKey /\ step = "Mark"
      /\ \A r \in Roles : disk.files[r].database = target[r]
      /\ \A r \in Roles, f \in FileSet : Bound(r).keys \subseteq {disk.files[f].keys}
      /\ \A r \in Roles : FitsImage(Bound(r))
  BY DEF WriteMarker, IInv, Prepared, Fitted
<1>2. Alive' = {}
  BY NobodyLives DEF WriteMarker
<1>3. disk \in [marker : Markers, files : [FileSet -> Secrets \cup {Nil}]]
  BY DEF IInv, TypeOK, FileSet
<1>4. /\ disk' \in [marker : Markers, files : [FileSet -> Secrets \cup {Nil}]]
      /\ disk'.files = disk.files
  BY <1>3 DEF WriteMarker, Markers
<1>5. UNCHANGED <<image, target, faults, db, made, child>>
  BY DEF WriteMarker, deployment
<1>6. \/ disk'.marker = "partial" /\ UNCHANGED <<step, at, item>>
      \/ disk'.marker = "whole" /\ step' = "Check" /\ at' = 1 /\ item' = 0
  BY <1>3 DEF WriteMarker, Go
<1>7. TypeOK'
  <2>1. disk' \in [marker : Markers, files : [Elements(Files) -> Secrets \cup {Nil}]]
    BY <1>4 DEF FileSet
  <2>2. \A f \in Elements(Files) : disk'.files[f] # Nil
    BY <1>1, <1>4 DEF Written, FileSet
  <2>3. QED
    BY <1>1, <1>2, <1>5, <1>6, <2>1, <2>2 DEF IInv, TypeOK
<1>8. Prepared' /\ MaterialSound'
  <2>1. Written' /\ OneKey'
    BY <1>1, <1>4 DEF Written, OneKey
  <2>2. \A r \in Roles : disk'.files[r].database = target'[r] /\ Bound(r)' = Bound(r)
    BY <1>1, <1>4, <1>5 DEF Bound
  <2>3. \A r \in Roles, f \in FileSet : Bound(r)'.keys \subseteq {disk'.files[f].keys}
    BY <1>1, <1>4, <2>2
  <2>4. MaterialSound'
    BY <2>1, <2>2, <2>3 DEF MaterialSound, Bound
  <2>5. QED
    BY <2>1, <2>2, <2>3, <2>4 DEF Prepared
<1>9. Fitted'
  BY <1>1, <1>5 DEF Fitted, FitsImage, Bound
<1>10. Untouched'
  BY <1>5 DEF IInv, Untouched
<1>11. QED
  BY <1>1, <1>2, <1>6, <1>7, <1>8, <1>9, <1>10 DEF IInv, Writing, Progress, Marked, Supervised, Supervising

-----------------------------------------------------------------------------
(* A step of the supervision: to another step of it, or to the end.        *)
LEMMA SupervisionKeeps ==
  ASSUME IInv, step \in Supervising, UNCHANGED <<deployment, disk, db, made>>,
         step' \in Supervising, at' \in Nat \ {0}, item' \in Nat,
         step' \in {"Start", "Wait"} => at' <= Len(Stages),
         step' = "Check" => UNCHANGED step,
         child' \in [Children -> {"Absent", "Starting", "Up", "Told", "Gone"}],
         step' = "Check" => Alive' = {}
  PROVE  IInv'
<1>1. Prepared'
  BY ControlKeeps DEF IInv, Prepared, deployment
<1>2. TypeOK'
  BY DEF IInv, TypeOK, Supervising, deployment
<1>3. Fitted'
  BY ControlKeeps DEF IInv, Fitted
<1>4. Marked' /\ Supervised'
  BY DEF IInv, Marked, Supervised, Supervising
<1>5. QED
  BY <1>1, <1>2, <1>3, <1>4, ControlKeeps DEF IInv, Writing, Progress, Supervising

LEMMA ChildrenTyped ==
  ASSUME IInv
  PROVE  child \in [Children -> {"Absent", "Starting", "Up", "Told", "Gone"}]
  BY DEF IInv, TypeOK

LEMMA SuperviseKeeps == IInv /\ Supervise => IInv'
<1> SUFFICES ASSUME IInv, Supervise PROVE IInv'
  OBVIOUS
<1> USE ChildrenTyped
<1>1. CASE TestGateway
  <2>1. CASE step' = "Start"
    BY <1>1, <2>1, SupervisionKeeps, Lists DEF TestGateway, Go, Supervising
  <2>2. CASE step' = "Down"
    <3>1. Alive' = {}
      BY <1>1, NobodyLives DEF TestGateway
    <3>2. Go("Down", 1)
      BY <1>1, <2>2 DEF TestGateway, Go
    <3>3. QED
      BY <1>1, <3>1, <3>2, DownKeeps DEF TestGateway
  <2>3. QED
    BY <1>1, <2>1, <2>2 DEF TestGateway, Go
<1>2. CASE StartStage
  <2>1. at \in Nat \ {0} /\ at <= Len(Stages)
    BY <1>2 DEF StartStage, IInv, TypeOK
  <2>2. child' \in [Children -> {"Absent", "Starting", "Up", "Told", "Gone"}]
    BY <1>2 DEF StartStage
  <2>3. QED
    BY <1>2, <2>1, <2>2, SupervisionKeeps DEF StartStage, Go, Supervising
<1>3. CASE Healthy
  <2>1. at \in Nat \ {0} /\ at <= Len(Stages) /\ Len(Stages) \in Nat
    BY <1>3, Lists DEF Healthy, IInv, TypeOK
  <2>2. \/ step' = "Running" /\ at' = 1 /\ item' = 0
        \/ step' = "Start" /\ at' = at + 1 /\ item' = 0 /\ at # Len(Stages)
    BY <1>3 DEF Healthy, Go
  <2>3. at' \in Nat \ {0} /\ (step' \in {"Start", "Wait"} => at' <= Len(Stages))
    BY <2>1, <2>2
  <2>4. QED
    BY <1>3, <2>2, <2>3, SupervisionKeeps DEF Healthy, Supervising
<1>4. CASE Unready
  <2>1. child' \in [Children -> {"Absent", "Starting", "Up", "Told", "Gone"}]
    BY <1>4 DEF Unready, Stop
  <2>2. QED
    BY <1>4, <2>1, SupervisionKeeps DEF Unready, Stop, Go, Supervising
<1>5. CASE Stopped
  <2>1. child' \in [Children -> {"Absent", "Starting", "Up", "Told", "Gone"}] /\ Alive' = {}
    BY <1>5 DEF Stopped, Absent, Alive
  <2>2. QED
    BY <1>5, <2>1, DownKeeps DEF Stopped
<1>6. QED
  BY <1>1, <1>2, <1>3, <1>4, <1>5 DEF Supervise

LEMMA ChildKeeps ==
  ASSUME IInv, NEW c \in Children, Listen(c) \/ UnexpectedExit(c) \/ ExpectedExit(c)
  PROVE  IInv'
<1> USE ChildrenTyped
<1>1. c \in Alive
  BY DEF Listen, UnexpectedExit, ExpectedExit, Alive
<1>2. step \in {"Start", "Wait", "Running", "Stopping"} /\ at \in Nat \ {0} /\ item \in Nat
      /\ (step \in {"Start", "Wait"} => at <= Len(Stages))
  BY <1>1 DEF IInv, Supervised, TypeOK
<1>3. CASE Listen(c) \/ ExpectedExit(c)
  <2>1. child' \in [Children -> {"Absent", "Starting", "Up", "Told", "Gone"}]
    BY <1>3 DEF Listen, ExpectedExit, Exited
  <2>2. QED
    BY <1>2, <1>3, <2>1, SupervisionKeeps DEF Listen, ExpectedExit, Supervising
<1>4. CASE UnexpectedExit(c)
  <2>1. Exited(c) \in [Children -> {"Absent", "Starting", "Up", "Told", "Gone"}]
    BY DEF Exited
  <2>2. child' \in [Children -> {"Absent", "Starting", "Up", "Told", "Gone"}]
    BY <1>4, <2>1 DEF UnexpectedExit, Stop
  <2>3. QED
    BY <1>2, <1>4, <2>2, SupervisionKeeps DEF UnexpectedExit, Stop, Go, Supervising
<1>5. QED
  BY <1>3, <1>4

LEMMA SignalKeeps == IInv /\ Signal => IInv'
<1> SUFFICES ASSUME IInv, Signal PROVE IInv'
  OBVIOUS
<1>1. child' \in [Children -> {"Absent", "Starting", "Up", "Told", "Gone"}]
  BY ChildrenTyped DEF Signal, Stop
<1>2. QED
  BY <1>1, SupervisionKeeps DEF Signal, Stop, Go, Supervising

LEMMA KillKeeps == IInv /\ Kill => IInv'
<1> SUFFICES ASSUME IInv, Kill PROVE IInv'
  OBVIOUS
<1>1. child' \in [Children -> {"Absent", "Starting", "Up", "Told", "Gone"}] /\ Alive' = {}
  BY DEF Kill, Absent, Alive
<1>2. QED
  BY <1>1, DownKeeps DEF Kill

LEMMA ServeKeeps == ASSUME IInv, NEW r \in Roles, Serve(r) PROVE IInv'
<1> DEFINE c0 == disk.files[r].database
           k0 == disk.files[r].keys
<1>1. r \in FileSet /\ r \in Children
  BY Lists
<1>2. step \in {"Start", "Wait", "Running", "Stopping"}
  BY <1>1 DEF Serve, Alive, IInv, Supervised
<1>3. /\ Written /\ OneKey
      /\ \A q \in Roles : disk.files[q].database = target[q]
      /\ \A q \in Roles, f \in FileSet : Bound(q).keys \subseteq {disk.files[f].keys}
      /\ \A q \in Roles : FitsImage(Bound(q))
  BY <1>2 DEF IInv, Prepared, Fitted, Supervising
<1>4. disk.files[r] \in Secrets
  BY <1>1, <1>3 DEF IInv, TypeOK, FileSet, Written
<1>5. target \in [Roles -> Clusters] /\ c0 = target[r] /\ c0 \in Clusters /\ k0 \in Nat
  BY <1>3, <1>4 DEF IInv, TypeOK, Secrets
<1>6. db \in [Roles -> [Clusters -> Schema]] /\ db[r][c0] \in Schema
  BY <1>5 DEF IInv, TypeOK
<1> DEFINE d == [db[r][c0] EXCEPT !.keys = @ \cup {k0}]
<1>7. /\ d \in Schema /\ d.table = db[r][c0].table /\ d.applied = db[r][c0].applied
      /\ d.keys = db[r][c0].keys \cup {k0}
  <2>1. db[r][c0] \in [table : BOOLEAN, applied : Seq(Checksums), keys : SUBSET Nat]
    BY <1>6 DEF Schema
  <2>2. QED
    BY <1>5, <2>1 DEF Schema
<1>8. db' = [db EXCEPT ![r][c0] = d]
  BY <1>5, <1>6 DEF Serve
<1> HIDE DEF d
<1>9. /\ db' \in [Roles -> [Clusters -> Schema]]
      /\ \A q \in Roles, c \in Clusters : db'[q][c] = IF q = r /\ c = c0 THEN d ELSE db[q][c]
  BY <1>5, <1>6, <1>7, <1>8
<1>10. UNCHANGED <<image, target, faults, disk, made, step, at, item, child>>
  BY DEF Serve, deployment
<1>11. TypeOK'
  BY <1>9, <1>10 DEF IInv, TypeOK, Alive
<1>12. \A q \in Roles : Bound(q)' = IF q = r THEN d ELSE Bound(q)
  BY <1>5, <1>9, <1>10 DEF Bound
<1>13. Bound(r) = db[r][c0]
  BY <1>5 DEF Bound
<1>14. \A q \in Roles, f \in FileSet : Bound(q)'.keys \subseteq {disk.files[f].keys}
  <2> SUFFICES ASSUME NEW q \in Roles, NEW f \in FileSet PROVE Bound(q)'.keys \subseteq {disk.files[f].keys}
    OBVIOUS
  <2>1. k0 = disk.files[f].keys
    BY <1>1, <1>3 DEF OneKey
  <2>2. QED
    BY <1>3, <1>7, <1>12, <1>13, <2>1
<1>15. \A q \in Roles : FitsImage(Bound(q))'
  BY <1>3, <1>7, <1>10, <1>12, <1>13 DEF FitsImage
<1>16. Prepared'
  BY <1>3, <1>10, <1>14 DEF Prepared, Written, OneKey
<1>17. MaterialSound'
  BY <1>3, <1>10, <1>14 DEF MaterialSound, OneKey, Bound
<1>18. Untouched'
  <2>1. d.table
    BY <1>3, <1>7, <1>13 DEF FitsImage
  <2>2. QED
    BY <1>9, <2>1 DEF IInv, Untouched
<1>19. Supervised' /\ Marked'
  BY <1>10 DEF IInv, Supervised, Marked, Alive
<1>20. QED
  BY <1>2, <1>10, <1>11, <1>15, <1>16, <1>17, <1>18, <1>19 DEF IInv, Writing, Progress, Fitted

(* The operator acts while nothing runs.                                   *)
LEMMA OperateKeeps ==
  ASSUME IInv, Operate, TypeOK', MaterialSound', Untouched'
  PROVE  IInv'
  BY DEF Operate, IInv, TypeOK, Writing, Prepared, Progress, Fitted, Marked, Supervised, Supervising

LEMMA DeployKeeps == IInv /\ (Deploy \/ Rebind) => IInv'
<1> SUFFICES ASSUME IInv, Deploy \/ Rebind PROVE IInv'
  OBVIOUS
<1>1. Operate /\ UNCHANGED <<disk, db, made, step, at, item, child>> /\ faults' = faults + 1
  BY DEF Deploy, Rebind, Operate
<1>2. image' \in Images /\ target' \in [Roles -> Clusters]
  BY DEF Deploy, Rebind, IInv, TypeOK
<1>3. TypeOK'
  BY <1>1, <1>2 DEF IInv, TypeOK, Alive
<1>4. MaterialSound' /\ Untouched'
  BY <1>1 DEF IInv, MaterialSound, Untouched, OneKey
<1>5. QED
  BY <1>1, <1>3, <1>4, OperateKeeps

LEMMA LoseDiskKeeps == IInv /\ LoseDisk => IInv'
<1> SUFFICES ASSUME IInv, LoseDisk PROVE IInv'
  OBVIOUS
<1>1. Operate /\ UNCHANGED <<image, target, db, made, step, at, item, child>> /\ faults' = faults + 1
  BY DEF LoseDisk, Operate
<1>2. disk' \in [marker : Markers, files : [Elements(Files) -> Secrets \cup {Nil}]] /\ disk'.marker = "none"
  BY DEF LoseDisk, EmptyDisk, Markers
<1>3. TypeOK'
  BY <1>1, <1>2 DEF IInv, TypeOK, Alive, Operate
<1>4. MaterialSound' /\ Untouched'
  BY <1>1, <1>2 DEF IInv, MaterialSound, Untouched
<1>5. QED
  BY <1>1, <1>3, <1>4, OperateKeeps

LEMMA LoseDatabasesKeeps == IInv /\ LoseDatabases => IInv'
<1> SUFFICES ASSUME IInv, LoseDatabases PROVE IInv'
  OBVIOUS
<1>1. Operate /\ UNCHANGED <<image, target, disk, made, step, at, item, child>> /\ faults' = faults + 1
  BY DEF LoseDatabases, Operate
<1>2. PICK lost \in SUBSET Roles, c \in Clusters :
        db' = [r \in Roles |-> IF r \in lost THEN [db[r] EXCEPT ![c] = EmptyDatabase] ELSE db[r]]
  BY DEF LoseDatabases
<1>3. EmptyDatabase \in Schema /\ EmptyDatabase.keys = {}
  BY DEF EmptyDatabase, Schema
<1>4. db \in [Roles -> [Clusters -> Schema]]
  BY DEF IInv, TypeOK
<1>5. /\ db' \in [Roles -> [Clusters -> Schema]]
      /\ \A r \in Roles : \A e \in Clusters : db'[r][e] = EmptyDatabase \/ db'[r][e] = db[r][e]
  BY <1>2, <1>3, <1>4
<1>6. TypeOK'
  BY <1>1, <1>5 DEF IInv, TypeOK, Alive, Operate
<1>7. MaterialSound'
  <2> SUFFICES ASSUME disk.marker = "whole", NEW r \in Roles, NEW f \in FileSet
               PROVE  db'[r][disk.files[r].database].keys \subseteq {disk.files[f].keys}
    BY <1>1 DEF IInv, MaterialSound, OneKey
  <2>1. db[r][disk.files[r].database].keys \subseteq {disk.files[f].keys}
    BY DEF IInv, MaterialSound
  <2>2. CASE disk.files[r].database \in Clusters
    BY <1>3, <1>5, <2>1, <2>2
  <2>3. CASE disk.files[r].database \notin Clusters
    BY <1>2, <1>4, <2>1, <2>3
  <2>4. QED
    BY <2>2, <2>3
<1>8. Untouched'
  BY <1>3, <1>5 DEF IInv, Untouched
<1>9. QED
  BY <1>1, <1>6, <1>7, <1>8, OperateKeeps

-----------------------------------------------------------------------------
(* Every step of the start program, its children and the operator keeps    *)
(* migrations, configuration and processes consistent.                     *)
THEOREM RuntimeNextIInv == IInv /\ [RuntimeNext]_vars => IInv'
<1> SUFFICES ASSUME IInv, [RuntimeNext]_vars PROVE IInv'
  OBVIOUS
<1>1. CASE Boot
  BY <1>1, BootKeeps
<1>2. CASE Initialise
  BY <1>2, ReuseKeeps, CreateKeeps, RefuseKeeps, WriteFileKeeps, CreateTableKeeps, ApplyKeeps, AlreadyAppliedKeeps,
     MigratedKeeps, WriteMarkerKeeps DEF Initialise
<1>3. CASE Supervise
  BY <1>3, SuperviseKeeps
<1>4. CASE Signal \/ Kill
  BY <1>4, SignalKeeps, KillKeeps
<1>5. CASE \E c \in Children : Listen(c) \/ UnexpectedExit(c) \/ ExpectedExit(c)
  BY <1>5, ChildKeeps
<1>6. CASE \E r \in Roles : Serve(r)
  BY <1>6, ServeKeeps
<1>7. CASE Deploy \/ Rebind
  BY <1>7, DeployKeeps
<1>8. CASE LoseDisk \/ LoseDatabases
  BY <1>8, LoseDiskKeeps, LoseDatabasesKeeps
<1>9. CASE UNCHANGED vars
  <2> USE <1>9
  <2>1. TypeOK'
    BY DEF vars, IInv, TypeOK, Alive
  <2>2. UNCHANGED <<deployment, disk, db, made>> /\ UNCHANGED <<step, at, item, target, child>>
    BY DEF vars, deployment
  <2>3. Writing'
    BY <2>2, ControlKeeps DEF IInv, Writing
  <2>4. Prepared'
    BY <2>2, ControlKeeps DEF IInv, Prepared
  <2>5. Progress'
    BY DEF vars, IInv, Progress, Role, Bound, FitsImage
  <2>6. Fitted' /\ Marked' /\ Supervised'
    BY <2>2, ControlKeeps DEF IInv, Fitted, Marked, Supervised, Alive
  <2>7. QED
    BY <2>1, <2>2, <2>3, <2>4, <2>5, <2>6, ControlKeeps DEF IInv
<1>10. QED
  BY <1>1, <1>2, <1>3, <1>4, <1>5, <1>6, <1>7, <1>8, <1>9 DEF RuntimeNext

LEMMA IInvServes == IInv => ServesItsOwnData
  BY Lists DEF IInv, Supervised, Prepared, Written, Fitted, Supervising, ServesItsOwnData, FileSet

(* The variables keep their types whatever is killed, lost or exchanged    *)
(* (runtime-config.ts:83-121).                                             *)
THEOREM RuntimeTypeCorrect == RuntimeSpec => []TypeOK
<1>1. IInv => TypeOK
  BY DEF IInv
<1>2. QED
  BY RuntimeInitIInv, RuntimeNextIInv, <1>1, PTL DEF RuntimeSpec

(* No service ever runs over rows of other keys than those on its disk,    *)
(* over a database its secrets do not name, or over a schema that is not   *)
(* its image's (render-start.ts:72-87).                                    *)
THEOREM RuntimeServesItsOwnData == RuntimeSpec => []ServesItsOwnData
  BY RuntimeInitIInv, RuntimeNextIInv, IInvServes, PTL DEF RuntimeSpec

-----------------------------------------------------------------------------
(* Keys are never changed under rows: what a step does to those of one     *)
(* database.                                                               *)
Sealed(r, c) ==
  \/ db'[r][c].keys = db[r][c].keys
  \/ db'[r][c] = EmptyDatabase
  \/ db[r][c].keys = {} /\ \A k, l \in db'[r][c].keys : k = l

LEMMA ServeSeals == ASSUME IInv, NEW q \in Roles, Serve(q) PROVE \A r \in Roles, c \in Clusters : Sealed(r, c)
<1> DEFINE c0 == disk.files[q].database
           k0 == disk.files[q].keys
<1>1. q \in FileSet /\ q \in Children
  BY Lists
<1>2. step \in {"Start", "Wait", "Running", "Stopping"}
  BY <1>1 DEF Serve, Alive, IInv, Supervised
<1>3. Bound(q).keys \subseteq {k0} /\ c0 = target[q]
  BY <1>1, <1>2 DEF IInv, Prepared, Supervising
<1>4. c0 \in Clusters /\ db[q][c0] \in [table : BOOLEAN, applied : Seq(Checksums), keys : SUBSET Nat]
  BY <1>3 DEF IInv, TypeOK, Schema
<1>5. \A r \in Roles, c \in Clusters :
        db'[r][c] = IF r = q /\ c = c0 THEN [db[q][c0] EXCEPT !.keys = @ \cup {k0}] ELSE db[r][c]
  BY <1>4 DEF Serve, IInv, TypeOK
<1>6. db'[q][c0].keys = db[q][c0].keys \cup {k0} /\ db[q][c0].keys \subseteq {k0}
  BY <1>3, <1>4, <1>5 DEF Bound
<1> HIDE DEF c0, k0
<1>7. Sealed(q, c0)
  BY <1>6 DEF Sealed
<1>8. QED
  BY <1>5, <1>7 DEF Sealed

LEMMA StepSeals ==
  ASSUME IInv, [RuntimeNext]_vars
  PROVE  \A r \in Roles, c \in Clusters : Sealed(r, c)
<1>1. CASE UNCHANGED db
  BY <1>1 DEF Sealed
<1>2. CASE \E q \in Roles : Serve(q)
  BY <1>2, ServeSeals
<1>3. CASE CreateTable \/ Apply
  <2>1. Role \in Roles /\ Pool \in Clusters
    BY <1>3, Migrating DEF CreateTable, Apply
  <2>2. PICK d : db' = [db EXCEPT ![Role][Pool] = d] /\ d.keys = db[Role][Pool].keys
    <3>1. db \in [Roles -> [Clusters -> [table : BOOLEAN, applied : Seq(Checksums), keys : SUBSET Nat]]]
      BY DEF IInv, TypeOK, Schema
    <3>2. CASE CreateTable
      <4> WITNESS [db[Role][Pool] EXCEPT !.table = TRUE]
      <4>1. QED
        BY <2>1, <3>1, <3>2 DEF CreateTable
    <3>3. CASE Apply
      <4> WITNESS [db[Role][Pool] EXCEPT !.applied = Append(@, Migrations[image][item])]
      <4>1. QED
        BY <2>1, <3>1, <3>3 DEF Apply
    <3>4. QED
      BY <1>3, <3>2, <3>3
  <2>3. \A r \in Roles, c \in Clusters : db'[r][c] = IF r = Role /\ c = Pool THEN d ELSE db[r][c]
    BY <2>1, <2>2 DEF IInv, TypeOK
  <2>4. QED
    BY <2>2, <2>3 DEF Sealed
<1>4. CASE LoseDatabases
  <2>1. PICK lost \in SUBSET Roles, c \in Clusters :
          db' = [r \in Roles |-> IF r \in lost THEN [db[r] EXCEPT ![c] = EmptyDatabase] ELSE db[r]]
    BY <1>4 DEF LoseDatabases
  <2>2. \A r \in Roles : \A e \in Clusters : db'[r][e] = EmptyDatabase \/ db'[r][e] = db[r][e]
    BY <2>1 DEF IInv, TypeOK
  <2>3. QED
    BY <2>2 DEF Sealed
<1>5. CASE Boot \/ Reuse \/ Create \/ Refuse \/ WriteFile \/ AlreadyApplied \/ Migrated \/ WriteMarker
  BY <1>1, <1>5 DEF Boot, Reuse, Create, Refuse, WriteFile, AlreadyApplied, Migrated, WriteMarker
<1>6. CASE Supervise \/ Signal \/ Kill
  BY <1>1, <1>6 DEF Supervise, TestGateway, StartStage, Healthy, Unready, Stopped, Signal, Kill
<1>7. CASE \E c \in Children : Listen(c) \/ UnexpectedExit(c) \/ ExpectedExit(c)
  BY <1>1, <1>7 DEF Listen, UnexpectedExit, ExpectedExit
<1>8. CASE Deploy \/ Rebind \/ LoseDisk \/ UNCHANGED vars
  BY <1>1, <1>8 DEF Deploy, Rebind, LoseDisk, vars
<1>9. QED
  BY <1>2, <1>3, <1>4, <1>5, <1>6, <1>7, <1>8 DEF RuntimeNext, Initialise

(* All rows of a database were written under one set of keys, whether it   *)
(* is in use, was replaced by another or waits to be bound again.          *)
OneSetOfKeys == \A r \in Roles, c \in Clusters : \A k, l \in db[r][c].keys : k = l

(* Lost disks, other images and exchanged databases never put rows of two  *)
(* sets of keys together (runtime-config.ts:83-121).                       *)
THEOREM DatabasesKeepOneSetOfKeys == RuntimeSpec => []OneSetOfKeys
<1>1. RuntimeInit => OneSetOfKeys
  BY DEF RuntimeInit, EmptyDatabase, OneSetOfKeys
<1>2. IInv /\ OneSetOfKeys /\ [RuntimeNext]_vars => OneSetOfKeys'
  <2> SUFFICES ASSUME IInv, OneSetOfKeys, [RuntimeNext]_vars, NEW r \in Roles, NEW c \in Clusters
               PROVE  \A k, l \in db'[r][c].keys : k = l
    BY DEF OneSetOfKeys
  <2>1. Sealed(r, c)
    BY StepSeals
  <2>2. QED
    BY <2>1 DEF Sealed, OneSetOfKeys, EmptyDatabase
<1>3. QED
  BY <1>1, <1>2, RuntimeInitIInv, RuntimeNextIInv, PTL DEF RuntimeSpec

(* Rows keep the keys they were written under for as long as there are     *)
(* rows: only a database that is lost, with all its rows, gets others      *)
(* (docs/DEPLOYMENT.md: There is no key regeneration or alternate workflow *)
(* over existing state).                                                   *)
KeysNeverRegenerated ==
  [][\A r \in Roles, c \in Clusters :
       db'[r][c].keys # db[r][c].keys => db'[r][c] = EmptyDatabase \/ db[r][c].keys = {}]_vars

(* No step of a start, a service or the operator changes the keys under    *)
(* rows that stay.                                                         *)
THEOREM RowsKeepTheirKeys == RuntimeSpec => KeysNeverRegenerated
<1>1. IInv /\ [RuntimeNext]_vars =>
        [\A r \in Roles, c \in Clusters :
           db'[r][c].keys # db[r][c].keys => db'[r][c] = EmptyDatabase \/ db[r][c].keys = {}]_vars
  BY StepSeals DEF Sealed
<1>2. QED
  BY <1>1, RuntimeInitIInv, RuntimeNextIInv, PTL DEF RuntimeSpec, KeysNeverRegenerated
=============================================================================
