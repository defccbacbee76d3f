------------------------ MODULE PackageLibrary_proofs ------------------------
(***************************************************************************)
(* Safety of PackageLibrary for every set of accounts, environments and    *)
(* contents, every retention and every number of versions.                 *)
(*                                                                         *)
(* LibraryInv is inductive: one lemma per step of the writer, of a request *)
(* and of an installation.  ReferencesInv is inductive next to it.         *)
(***************************************************************************)
EXTENDS PackageLibrary, FiniteSetTheorems, TLAPS

USE YamlAssumption, RetainAssumption, MaxVersionsAssumption DEF Id, NoId

\* The tables and the directory are empty at first.
LEMMA InitLibrary == Init => LibraryInv
<1> SUFFICES ASSUME Init PROVE LibraryInv
  OBVIOUS
<1> USE DEF Init
<1>1. TypeOK
  BY DEF TypeOK, Free, None
<1>2. RowsNumbered /\ RowsHaveFiles
  BY DEF RowsNumbered, RowsHaveFiles
<1>3. WriterKnows /\ CurrentReadable
  BY DEF WriterKnows, Deleting, Free, CurrentReadable
<1> QED
  BY <1>1, <1>2, <1>3 DEF LibraryInv

-----------------------------------------------------------------------------
(***************************************************************************)
(* Steps that leave rows, files and numbers alone.                         *)
(***************************************************************************)
Settles ==
  /\ UNCHANGED <<tables, nextId, files>>
  /\ lock' = lock \/ lock' = Free

\* A step that only lets the writer go, or only concerns an install, keeps
\* rows and files as they are.
LEMMA SettlesKeeps ==
  ASSUME LibraryInv, Settles, TypeOK'
  PROVE  LibraryInv'
<1> USE DEF LibraryInv, Settles, tables, files
<1>1. RowsNumbered' /\ RowsHaveFiles'
  BY DEF RowsNumbered, RowsHaveFiles
<1>2. WriterKnows'
  BY DEF WriterKnows, Deleting, Free
<1>3. CurrentReadable'
  BY DEF CurrentReadable, Rows, VersionsOf
<1> QED
  BY <1>1, <1>2, <1>3

\* A file placed under a new number disturbs no row.
LEMMA PlaceKeeps ==
  ASSUME LibraryInv, NEW o \in Owner, NEW c \in Content, Place(o, c)
  PROVE  LibraryInv'
<1> USE DEF LibraryInv, Place, tables, installs
<1>a. lock' = [pc |-> "save", op |-> "upload", owner |-> o, id |-> nextId,
               content |-> c, todo |-> {}]
  BY DEF Free
<1>1. TypeOK'
  <2>1. nextId \in Id /\ nextId' \in 1..(MaxVersions + 1)
    BY DEF TypeOK
  <2> QED
    BY <1>a, <2>1 DEF TypeOK
<1>2. RowsNumbered' /\ RowsHaveFiles'
  BY DEF RowsNumbered, RowsHaveFiles, TypeOK
<1>3. WriterKnows'
  BY <1>a DEF WriterKnows, RowsNumbered, Deleting, TypeOK
<1>4. CurrentReadable'
  BY DEF CurrentReadable, Rows, VersionsOf
<1> QED
  BY <1>1, <1>2, <1>3, <1>4

\* The row that is saved has its file, and becomes the current one with it.
LEMMA SaveKeeps ==
  ASSUME LibraryInv, SavePackageVersion
  PROVE  LibraryInv'
<1> DEFINE v == [id |-> lock.id, owner |-> lock.owner, content |-> lock.content]
<1> USE DEF LibraryInv, SavePackageVersion, files, installs
<1>1. /\ lock.owner \in Owner /\ lock.content \in Content /\ lock.id \in file
      /\ lock.id \in Id /\ lock.id < nextId /\ lock.id # NoId
      /\ \A w \in versions : w.id # lock.id
  BY DEF WriterKnows
<1>2. versions' = versions \union {v} /\ current' = [current EXCEPT ![lock.owner] = lock.id]
  OBVIOUS
<1>3. TypeOK'
  BY <1>1, <1>2 DEF TypeOK, To
<1>4. RowsNumbered' /\ RowsHaveFiles'
  BY <1>1, <1>2 DEF RowsNumbered, RowsHaveFiles
<1>5. WriterKnows'
  BY <1>1 DEF WriterKnows, Deleting, To, TypeOK
<1>6. CurrentReadable'
  <2> HIDE DEF SavePackageVersion
  <2>1. file' = file /\ current \in [Owner -> Id \union {NoId}]
    BY DEF SavePackageVersion, TypeOK
  <2>2. v \in versions' /\ v.id = lock.id /\ v.owner = lock.owner
    BY <1>2
  <2> SUFFICES ASSUME NEW o \in Owner, current'[o] # NoId
               PROVE  current'[o] \in file' /\ \E w \in versions' : w.owner = o /\ w.id = current'[o]
    BY DEF CurrentReadable, Rows, VersionsOf
  <2>3. CASE o = lock.owner
    <3>1. current'[o] = lock.id
      BY <1>1, <1>2, <2>1, <2>3
    <3> QED
      BY <1>1, <2>1, <2>2, <2>3, <3>1
  <2>4. CASE o # lock.owner
    <3>1. current'[o] = current[o]
      BY <1>1, <1>2, <2>1, <2>4
    <3>2. current[o] \in file /\ \E w \in versions : w.owner = o /\ w.id = current[o]
      BY <3>1 DEF CurrentReadable, Rows, VersionsOf
    <3> QED
      BY <1>2, <2>1, <3>1, <3>2
  <2> QED
    BY <2>3, <2>4
<1> QED
  BY <1>3, <1>4, <1>5, <1>6

\* The file that is removed after a failed upload belongs to no row.
LEMMA SaveFailsKeeps ==
  ASSUME LibraryInv, SaveFails
  PROVE  LibraryInv'
<1> USE DEF LibraryInv, SaveFails, tables, installs, Unlock, Tear
<1>1. lock.id \in Id /\ \A v \in versions : v.id # lock.id
  BY DEF WriterKnows
<1>2. TypeOK'
  BY <1>1 DEF TypeOK, Free, None
<1>3. RowsNumbered' /\ RowsHaveFiles'
  BY <1>1 DEF RowsNumbered, RowsHaveFiles
<1>4. WriterKnows'
  BY DEF WriterKnows, Deleting, Free
<1>5. CurrentReadable'
  BY <1>1 DEF CurrentReadable, Rows, VersionsOf
<1> QED
  BY <1>2, <1>3, <1>4, <1>5

\* Pruning starts with versions that exist.
LEMMA PruneKeeps ==
  ASSUME LibraryInv, PruneVersions
  PROVE  LibraryInv'
<1> USE DEF LibraryInv, PruneVersions, tables, files, installs
<1>1. CASE Unlock
  <2>1. TypeOK'
    BY <1>1 DEF TypeOK, Unlock, Free, None
  <2> QED
    BY <1>1, <2>1, SettlesKeeps DEF Settles, Unlock
<1>2. CASE lock' = [lock EXCEPT !.pc = "check", !.id = NoId,
                                !.todo = {v.id : v \in Prunable(lock.owner)}]
  <2>1. {v.id : v \in Prunable(lock.owner)} \subseteq Id
    BY DEF Prunable, Beyond, VersionsOf, TypeOK
  <2>2. TypeOK'
    BY <1>2, <2>1 DEF TypeOK
  <2>3. RowsNumbered' /\ RowsHaveFiles'
    BY DEF RowsNumbered, RowsHaveFiles
  <2>4. WriterKnows'
    BY <1>2 DEF WriterKnows, Deleting, TypeOK
  <2>5. CurrentReadable'
    BY DEF CurrentReadable, Rows, VersionsOf
  <2> QED
    BY <2>2, <2>3, <2>4, <2>5
<1> QED
  BY <1>1, <1>2

-----------------------------------------------------------------------------
(***************************************************************************)
(* Deletion of versions.                                                   *)
(***************************************************************************)
\* A version that may be deleted is current for no owner: a digest has one
\* row, and the current version of an owner is a row of that owner.
LEMMA DeletableFacts ==
  ASSUME LibraryInv, NEW id \in Deletable, lock.owner \in Owner
  PROVE  /\ \A o \in Owner : current[o] # id
         /\ \A v \in versions : v.id = id => v.owner = lock.owner
         /\ id \in Id /\ id < nextId
<1> USE DEF LibraryInv
<1>1. PICK w \in versions : w.owner = lock.owner /\ w.id = id /\ w.id # current[w.owner]
  BY DEF Deletable, VersionsOf
<1>2. \A v \in versions : v.id = id => v = w
  BY <1>1 DEF RowsNumbered
<1>3. ASSUME NEW o \in Owner, current[o] = id PROVE FALSE
  <2>1. id # NoId
    BY <1>1 DEF TypeOK
  <2>2. PICK v \in versions : v.owner = o /\ v.id = id
    BY <1>3, <2>1 DEF CurrentReadable, Rows, VersionsOf
  <2> QED
    BY <1>1, <1>2, <1>3, <2>2
<1> QED
  BY <1>1, <1>2, <1>3 DEF TypeOK, RowsNumbered

\* A request to delete a version only takes the lock.
LEMMA DeleteVersionKeeps ==
  ASSUME LibraryInv, NEW o \in Owner, NEW id \in Id, DeleteVersion(o, id)
  PROVE  LibraryInv'
<1> USE DEF LibraryInv, DeleteVersion, tables, files, installs
<1>1. TypeOK'
  BY DEF TypeOK, Free, None
<1>2. RowsNumbered' /\ RowsHaveFiles'
  BY DEF RowsNumbered, RowsHaveFiles
<1>3. WriterKnows'
  BY DEF WriterKnows, Deleting, Free
<1>4. CurrentReadable'
  BY DEF CurrentReadable, Rows, VersionsOf
<1> QED
  BY <1>1, <1>2, <1>3, <1>4

\* A version that is set aside is not current, and its row has the file still.
LEMMA CheckKeeps ==
  ASSUME LibraryInv, CheckVersion
  PROVE  LibraryInv'
<1> USE DEF LibraryInv, CheckVersion, SetAside, tables, installs
<1>0. lock.pc = "check" /\ lock.owner \in Owner
  BY DEF WriterKnows
<1>1. PICK id \in lock.todo :
        \/ /\ id \in Deletable
           /\ file' = file \ {id}
           /\ trash' = trash \union ({id} \intersect file)
           /\ lock' = [lock EXCEPT !.pc = "recheck", !.id = id, !.todo = @ \ {id}]
        \/ /\ lock' = IF lock.todo = {id} THEN Free ELSE [lock EXCEPT !.todo = @ \ {id}]
           /\ UNCHANGED files
  OBVIOUS
<1>2. CASE UNCHANGED files
           /\ lock' = IF lock.todo = {id} THEN Free ELSE [lock EXCEPT !.todo = @ \ {id}]
  <2> USE <1>2 DEF files
  <2>1. TypeOK'
    BY DEF TypeOK, Free, None
  <2>2. RowsNumbered' /\ RowsHaveFiles'
    BY DEF RowsNumbered, RowsHaveFiles
  <2>3. WriterKnows'
    BY <1>0 DEF WriterKnows, Deleting, Free, TypeOK
  <2>4. CurrentReadable'
    BY DEF CurrentReadable, Rows, VersionsOf
  <2> QED
    BY <2>1, <2>2, <2>3, <2>4
<1>3. CASE /\ id \in Deletable
           /\ file' = file \ {id}
           /\ trash' = trash \union ({id} \intersect file)
           /\ lock' = [lock EXCEPT !.pc = "recheck", !.id = id, !.todo = @ \ {id}]
  <2> USE <1>3
  <2>0. /\ \A o \in Owner : current[o] # id
        /\ \A v \in versions : v.id = id => v.owner = lock.owner
        /\ id \in Id /\ id < nextId
    BY <1>0, DeletableFacts
  <2>1. TypeOK'
    BY <2>0 DEF TypeOK
  <2>2. RowsNumbered' /\ RowsHaveFiles'
    BY DEF RowsNumbered, RowsHaveFiles
  <2>3. WriterKnows'
    BY <1>0, <2>0 DEF WriterKnows, Deleting, TypeOK
  <2>4. CurrentReadable'
    BY <2>0 DEF CurrentReadable, Rows, VersionsOf
  <2> QED
    BY <2>1, <2>2, <2>3, <2>4
<1> QED
  BY <1>1, <1>2, <1>3

\* The second check changes no row and no file.
LEMMA RecheckKeeps ==
  ASSUME LibraryInv, Recheck
  PROVE  LibraryInv'
<1> USE DEF LibraryInv, Recheck, tables, files, installs, To
<1>1. TypeOK'
  BY DEF TypeOK, DeletedBehind
<1>2. RowsNumbered' /\ RowsHaveFiles'
  BY DEF RowsNumbered, RowsHaveFiles
<1>3. WriterKnows'
  BY DEF WriterKnows, Deleting, TypeOK
<1>4. CurrentReadable'
  BY DEF CurrentReadable, Rows, VersionsOf
<1> QED
  BY <1>1, <1>2, <1>3, <1>4

\* The row goes before the file set aside does.
LEMMA DeleteRowKeeps ==
  ASSUME LibraryInv, DeleteRow
  PROVE  LibraryInv'
<1> USE DEF LibraryInv, DeleteRow, files, installs, To
<1>0. versions' \subseteq versions
      /\ \A v \in versions : v \in versions' \/ v.id = lock.id
  OBVIOUS
<1>1. TypeOK'
  BY <1>0 DEF TypeOK
<1>2. RowsNumbered' /\ RowsHaveFiles'
  BY <1>0 DEF RowsNumbered, RowsHaveFiles
<1>3. WriterKnows'
  BY <1>0 DEF WriterKnows, Deleting, TypeOK
<1>4. CurrentReadable'
  <2>1. \A o \in Owner : current[o] # lock.id
    BY DEF WriterKnows
  <2> QED
    BY <1>0, <2>1 DEF CurrentReadable, Rows, VersionsOf
<1> QED
  BY <1>1, <1>2, <1>3, <1>4

\* Between two versions to prune the writer knows of none.
LEMMA NextItemKnows ==
  ASSUME LibraryInv, Deleting, NextItem,
         UNCHANGED <<tables, nextId>>
  PROVE  /\ WriterKnows'
         /\ lock' \in [pc: {"free", "check"}, op: {None, "upload", "delete", "drop"},
                       owner: Owner \union {None}, id: {NoId},
                       content: Content \union {None}, todo: SUBSET Id]
<1> USE DEF LibraryInv, NextItem, Deleting
<1>1. lock.owner \in Owner
  BY DEF WriterKnows
<1> QED
  BY <1>1 DEF WriterKnows, Free, None, TypeOK

\* A file that is renamed back was set aside.
LEMMA UndoKeeps ==
  ASSUME LibraryInv, UndoRename
  PROVE  LibraryInv'
<1> USE DEF LibraryInv, UndoRename, tables, files, installs, Tear
<1>0. Deleting /\ lock.id \in Id
  BY DEF Deleting, WriterKnows
<1>1. TypeOK'
  BY <1>0, NextItemKnows DEF TypeOK
<1>2. RowsNumbered' /\ RowsHaveFiles'
  BY DEF RowsNumbered, RowsHaveFiles
<1>3. WriterKnows'
  BY <1>0, NextItemKnows
<1>4. CurrentReadable'
  BY DEF CurrentReadable, Rows, VersionsOf
<1> QED
  BY <1>1, <1>2, <1>3, <1>4

\* A file set aside is removed only when its row is gone.
LEMMA RemoveTrashKeeps ==
  ASSUME LibraryInv, RemoveTrash
  PROVE  LibraryInv'
<1> USE DEF LibraryInv, RemoveTrash, tables, installs, Tear
<1>0. Deleting /\ lock.id \in Id /\ \A v \in versions : v.id # lock.id
  BY DEF Deleting, WriterKnows
<1>1. TypeOK'
  BY <1>0, NextItemKnows DEF TypeOK
<1>2. RowsNumbered' /\ RowsHaveFiles'
  BY <1>0 DEF RowsNumbered, RowsHaveFiles
<1>3. WriterKnows'
  BY <1>0, NextItemKnows
<1>4. CurrentReadable'
  BY DEF CurrentReadable, Rows, VersionsOf
<1> QED
  BY <1>1, <1>2, <1>3, <1>4

-----------------------------------------------------------------------------
(***************************************************************************)
(* Packages: deletion, activation, transfer.                               *)
(***************************************************************************)
\* A package deletion starts with the versions of one owner.
LEMMA DeletePackageKeeps ==
  ASSUME LibraryInv, NEW o \in Owner, DeletePackage(o)
  PROVE  LibraryInv'
<1> USE DEF LibraryInv, DeletePackage, BeginDeletePackage, tables, files, installs
<1>a. lock' = [pc |-> "drop", op |-> "drop", owner |-> o, id |-> NoId,
               content |-> None, todo |-> Rows(o)]
  BY DEF Free
<1>1. TypeOK'
  <2>1. Rows(o) \subseteq Id /\ raced' \subseteq Env
    BY DEF TypeOK, Rows, VersionsOf, DeletedBehind
  <2> QED
    BY <1>a, <2>1 DEF TypeOK
<1>2. RowsNumbered' /\ RowsHaveFiles'
  BY DEF RowsNumbered, RowsHaveFiles
<1>3. WriterKnows'
  <2>1. \A v \in versions : v.id \in Rows(o) => v.owner = o
    BY DEF Rows, VersionsOf, RowsNumbered
  <2> QED
    BY <1>a, <2>1 DEF WriterKnows, Deleting
<1>4. CurrentReadable'
  BY DEF CurrentReadable, Rows, VersionsOf
<1> QED
  BY <1>1, <1>2, <1>3, <1>4

\* All rows of the package go in one transaction, with its current version.
LEMMA DropRowsKeeps ==
  ASSUME LibraryInv, DropRows
  PROVE  LibraryInv'
<1> USE DEF LibraryInv
<1>0. lock.pc = "drop" /\ lock.owner \in Owner
  BY DEF DropRows, WriterKnows
<1>1. CASE UNCHANGED tables
  <2> USE DEF DropRows, tables, files, installs, Unlock, To
  <2>1. TypeOK'
    BY <1>1 DEF TypeOK, Free, None
  <2>2. RowsNumbered' /\ RowsHaveFiles'
    BY <1>1 DEF RowsNumbered, RowsHaveFiles
  <2>3. WriterKnows'
    <3>1. \A v \in versions : v.id \in lock.todo => v.owner = lock.owner
      BY <1>0 DEF WriterKnows
    <3>2. lock' = Free \/ (lock' = [lock EXCEPT !.pc = "clean"]
                            /\ versions' = versions \ VersionsOf(lock.owner))
      OBVIOUS
    <3> QED
      BY <1>0, <1>1, <3>1, <3>2 DEF WriterKnows, Deleting, Free, TypeOK, VersionsOf
  <2>4. CurrentReadable'
    BY <1>1 DEF CurrentReadable, Rows, VersionsOf
  <2> QED
    BY <2>1, <2>2, <2>3, <2>4
<1>2. CASE /\ current' = [current EXCEPT ![lock.owner] = NoId]
           /\ versions' = versions \ VersionsOf(lock.owner)
           /\ lock' = [lock EXCEPT !.pc = "clean"]
  <2>0. UNCHANGED <<nextId, files, installs, torn, raced>>
    BY DEF DropRows
  <2> USE <1>2, <2>0 DEF files, installs
  <2>1. TypeOK'
    BY DEF TypeOK
  <2>2. RowsNumbered' /\ RowsHaveFiles'
    BY DEF RowsNumbered, RowsHaveFiles
  <2>3. WriterKnows'
    BY <1>0 DEF WriterKnows, Deleting, TypeOK, VersionsOf
  <2>4. CurrentReadable'
    BY <1>0 DEF CurrentReadable, Rows, VersionsOf, TypeOK
  <2> QED
    BY <2>1, <2>2, <2>3, <2>4
<1> QED
  BY <1>1, <1>2 DEF DropRows, To

\* The files removed afterwards belong to no row.
LEMMA RemoveFileKeeps ==
  ASSUME LibraryInv, RemoveFile
  PROVE  LibraryInv'
<1> USE DEF LibraryInv, tables, installs
<1>0. /\ \A v \in versions : v.id \notin lock.todo
      /\ lock.pc = "clean" /\ lock.owner \in Owner
  BY DEF RemoveFile, WriterKnows
<1>1. PICK id \in lock.todo :
        /\ \/ file' = file \ {id} /\ UNCHANGED torn
           \/ Tear({id}) /\ UNCHANGED file
        /\ lock' = IF lock.todo = {id} THEN Free ELSE [lock EXCEPT !.todo = @ \ {id}]
  BY DEF RemoveFile
<1>2. UNCHANGED <<tables, nextId, trash, installs, raced>>
  BY DEF RemoveFile
<1>3. TypeOK'
  BY <1>1, <1>2 DEF TypeOK, Tear, Free, None
<1>4. RowsNumbered' /\ RowsHaveFiles'
  BY <1>0, <1>1, <1>2 DEF RowsNumbered, RowsHaveFiles
<1>5. WriterKnows'
  BY <1>0, <1>1, <1>2 DEF WriterKnows, Deleting, Free, TypeOK
<1>6. CurrentReadable'
  <2>1. \A o \in Owner : current[o] # NoId => current[o] \notin lock.todo
    BY <1>0 DEF CurrentReadable, Rows, VersionsOf
  <2> QED
    BY <1>1, <1>2, <2>1 DEF CurrentReadable, Rows, VersionsOf
<1> QED
  BY <1>3, <1>4, <1>5, <1>6

\* The version that becomes current has its row and its file.
LEMMA ActivateKeeps ==
  ASSUME LibraryInv, NEW o \in Owner, NEW id \in Id, ActivateVersion(o, id)
  PROVE  LibraryInv'
<1> USE DEF LibraryInv, files, installs
<1>1. /\ id \in Rows(o) /\ id \in file /\ lock.pc = "free" /\ lock' = lock
      /\ current' = [current EXCEPT ![o] = id]
      /\ UNCHANGED <<versions, nextId, files, installs, torn, raced>>
  BY DEF ActivateVersion, Free
<1>2. TypeOK'
  BY <1>1 DEF TypeOK
<1>3. RowsNumbered' /\ RowsHaveFiles'
  BY <1>1 DEF RowsNumbered, RowsHaveFiles
<1>4. WriterKnows'
  BY <1>1 DEF WriterKnows, Deleting
<1>5. CurrentReadable'
  BY <1>1 DEF CurrentReadable, Rows, VersionsOf, TypeOK
<1> QED
  BY <1>2, <1>3, <1>4, <1>5

\* Rows and current version change the owner together.
LEMMA TransferKeeps ==
  ASSUME LibraryInv, NEW s \in Owner, NEW t \in Owner, TransferOwner(s, t)
  PROVE  LibraryInv'
<1> USE DEF LibraryInv
<1> DEFINE moved(v) == IF v.owner = s THEN [v EXCEPT !.owner = t] ELSE v
<1>1. /\ lock.pc = "free" /\ s # t
      /\ current[s] = NoId \/ current[t] = NoId
      /\ current' = IF current[s] = NoId THEN current
                    ELSE [current EXCEPT ![t] = current[s], ![s] = NoId]
      /\ versions' = {moved(v) : v \in versions}
      /\ envOwner' = [e \in Env |-> IF envOwner[e] = s THEN t ELSE envOwner[e]]
      /\ UNCHANGED <<nextId, file, trash, used, snapshot, lock, torn, raced>>
  BY DEF TransferOwner, files, Free
<1>2. \A v \in versions : /\ moved(v) \in [id: Id, owner: Owner, content: Content]
                          /\ moved(v).id = v.id
                          /\ moved(v).owner = IF v.owner = s THEN t ELSE v.owner
  BY DEF TypeOK
<1>3. /\ \A w \in versions' : \E v \in versions : w = moved(v)
      /\ \A v \in versions : moved(v) \in versions'
  BY <1>1
<1> HIDE DEF moved
<1>4. TypeOK'
  <2>1. versions' \subseteq [id: Id, owner: Owner, content: Content]
    BY <1>2, <1>3
  <2>2. current' \in [Owner -> Id \union {NoId}] /\ envOwner' \in [Env -> Owner]
    BY <1>1 DEF TypeOK
  <2> QED
    BY <1>1, <2>1, <2>2 DEF TypeOK
<1>5. RowsNumbered' /\ RowsHaveFiles'
  BY <1>1, <1>2, <1>3 DEF RowsNumbered, RowsHaveFiles
<1>6. WriterKnows'
  BY <1>1 DEF WriterKnows, Deleting
<1>7. CurrentReadable'
  <2> SUFFICES ASSUME NEW o \in Owner, current'[o] # NoId
               PROVE  current'[o] \in file /\ \E w \in versions' : w.owner = o /\ w.id = current'[o]
    <3>1. file' = file
      BY <1>1
    <3>2. (CurrentReadable)' <=> \A o \in Owner : current'[o] # NoId => current'[o] \in Rows(o)' \intersect file'
      BY DEF CurrentReadable
    <3>3. \A o \in Owner : \A w \in versions' :
            w.owner = o /\ w.id = current'[o] => current'[o] \in Rows(o)'
      BY DEF Rows, VersionsOf
    <3> QED
      BY <3>1, <3>2, <3>3
  <2>1. \A p \in Owner : current[p] # NoId =>
          current[p] \in file /\ \E v \in versions : v.owner = p /\ v.id = current[p]
    BY DEF CurrentReadable, Rows, VersionsOf
  <2>2. CASE o = t /\ current[s] # NoId
    <3>1. current'[o] = current[s]
      BY <1>1, <2>2 DEF TypeOK
    <3> QED
      BY <1>2, <1>3, <2>1, <2>2, <3>1
  <2>3. CASE o # s /\ (o # t \/ current[s] = NoId)
    <3>1. current'[o] = current[o]
      BY <1>1, <2>3 DEF TypeOK
    <3> QED
      BY <1>2, <1>3, <2>1, <2>3, <3>1
  <2>4. CASE o = s
    BY <1>1, <2>4 DEF TypeOK
  <2> QED
    BY <2>2, <2>3, <2>4
<1> QED
  BY <1>4, <1>5, <1>6, <1>7

-----------------------------------------------------------------------------
(***************************************************************************)
(* Installs, the process, and every step.                                  *)
(***************************************************************************)
\* What an install is given is a row of the owner of its environment.
LEMMA CurrentRow ==
  ASSUME LibraryInv, NEW o \in Owner, current[o] \in file
  PROVE  \E v \in VersionsOf(o) : v.content = ContentOf(current[o])
<1> USE DEF LibraryInv
<1>1. current[o] # NoId
  BY DEF TypeOK
<1>2. PICK v \in VersionsOf(o) : v.id = current[o]
  BY <1>1 DEF CurrentReadable, Rows
<1>3. (CHOOSE w \in versions : w.id = current[o]) = v
  BY <1>2 DEF RowsNumbered, VersionsOf
<1> QED
  BY <1>2, <1>3 DEF ContentOf

\* Installs and resets touch neither rows nor files.
LEMMA InstallationKeeps ==
  ASSUME LibraryInv, NEW e \in Env,
         \/ SnapshotForOwner(e) \/ MarkInstalled(e) \/ InstallFails(e)
         \/ SyncInstalled(e) \/ MarkUninstalled(e) \/ RewriteRow(e)
  PROVE  LibraryInv'
<1> USE DEF LibraryInv
<1>1. Settles
  BY DEF SnapshotForOwner, MarkInstalled, InstallFails, SyncInstalled,
         MarkUninstalled, RewriteRow, Settles
<1>2. TypeOK'
  <2>1. CASE SnapshotForOwner(e)
    <3>1. ContentOf(current[envOwner[e]]) \in Content
      BY <2>1, CurrentRow DEF SnapshotForOwner, TypeOK, VersionsOf
    <3> QED
      BY <2>1, <3>1 DEF SnapshotForOwner, TypeOK, tables, files
  <2>2. CASE MarkInstalled(e) \/ InstallFails(e) \/ MarkUninstalled(e)
    BY <2>2 DEF MarkInstalled, InstallFails, MarkUninstalled, EndInstall, TypeOK, tables, files
  <2>3. CASE SyncInstalled(e)
    BY <2>3 DEF SyncInstalled, EndInstall, TypeOK, tables, files
  <2>4. CASE RewriteRow(e)
    BY <2>4 DEF RewriteRow, TypeOK, tables, files
  <2> QED
    BY <2>1, <2>2, <2>3, <2>4
<1> QED
  BY <1>1, <1>2, SettlesKeeps

\* A crash frees the lock and leaves the tables and files as they were.
LEMMA CrashKeeps ==
  ASSUME LibraryInv, Crash
  PROVE  LibraryInv'
<1> USE DEF LibraryInv
<1>1. Settles
  BY DEF Crash, Settles
<1>2. TypeOK'
  BY DEF Crash, TypeOK, Tear, Free, None, tables, files
<1> QED
  BY <1>1, <1>2, SettlesKeeps

\* LibraryInv is inductive.
LEMMA NextKeepsLibrary == LibraryInv /\ [Next]_vars => LibraryInv'
<1> SUFFICES ASSUME LibraryInv, [Next]_vars PROVE LibraryInv'
  OBVIOUS
<1>1. CASE Writer
  <2>1. CASE SavePackageVersion \/ SaveFails \/ PruneVersions
    BY <2>1, SaveKeeps, SaveFailsKeeps, PruneKeeps
  <2>2. CASE CheckVersion \/ Recheck \/ DeleteRow \/ UndoRename \/ RemoveTrash
    BY <2>2, CheckKeeps, RecheckKeeps, DeleteRowKeeps, UndoKeeps, RemoveTrashKeeps
  <2>3. CASE DropRows \/ RemoveFile
    BY <2>3, DropRowsKeeps, RemoveFileKeeps
  <2> QED
    BY <1>1, <2>1, <2>2, <2>3 DEF Writer
<1>2. CASE Request
  <2>1. PICK o \in Owner :
          \/ \E c \in Content : Upload(o, c)
          \/ \E id \in Id : DeleteVersion(o, id) \/ ActivateVersion(o, id)
          \/ DeletePackage(o)
          \/ \E t \in Owner : TransferOwner(o, t)
    BY <1>2 DEF Request
  <2>2. CASE \E c \in Content : Upload(o, c)
    BY <2>2, PlaceKeeps DEF Upload
  <2>3. CASE \E id \in Id : DeleteVersion(o, id) \/ ActivateVersion(o, id)
    BY <2>3, DeleteVersionKeeps, ActivateKeeps
  <2>4. CASE DeletePackage(o)
    BY <2>4, DeletePackageKeeps
  <2>5. CASE \E t \in Owner : TransferOwner(o, t)
    BY <2>5, TransferKeeps
  <2> QED
    BY <2>1, <2>2, <2>3, <2>4, <2>5
<1>3. CASE Installation
  BY <1>3, InstallationKeeps DEF Installation
<1>4. CASE Crash
  BY <1>4, CrashKeeps
<1>5. CASE UNCHANGED vars
  <2> USE <1>5 DEF vars, LibraryInv
  <2>1. Settles
    BY DEF Settles
  <2>2. TypeOK'
    BY DEF TypeOK, tables, files, installs
  <2> QED
    BY <2>1, <2>2, SettlesKeeps
<1> QED
  BY <1>1, <1>2, <1>3, <1>4, <1>5 DEF Next

\* Whatever happens, each row has its file and each package a current version
\* that can be read; the writer knows what it may remove.
THEOREM LibraryInvariant == Spec => []LibraryInv
<1>1. Init => LibraryInv
  BY InitLibrary
<1>2. LibraryInv /\ [Next]_vars => LibraryInv'
  BY NextKeepsLibrary
<1> QED
  BY <1>1, <1>2, PTL DEF Spec

\* Every variable keeps its type, whatever the writer, the requests, the
\* installs and crashes do.
THEOREM TypeCorrect == Spec => []TypeOK
<1>1. LibraryInv => TypeOK
  BY DEF LibraryInv
<1> QED
  BY <1>1, LibraryInvariant, PTL

\* The current version of every package has its row and its file, between any
\* two steps of a writer and after a crash at any of them.
THEOREM CurrentIsReadable == Spec => []CurrentReadable
<1>1. LibraryInv => CurrentReadable
  BY DEF LibraryInv
<1> QED
  BY <1>1, LibraryInvariant, PTL

\* No file of a row is lost: uploads, deletions, pruning and crashes leave it
\* in place or set aside.
THEOREM NoFileIsLost == Spec => []RowsHaveFiles
<1>1. LibraryInv => RowsHaveFiles
  BY DEF LibraryInv
<1> QED
  BY <1>1, LibraryInvariant, PTL

-----------------------------------------------------------------------------
(***************************************************************************)
(* References.  Most steps neither remove a row nor prepare to.            *)
(***************************************************************************)
Harmless ==
  /\ versions \subseteq versions'
  /\ UNCHANGED <<installs, raced>>
  /\ lock'.pc \notin {"drop", "delete"}

\* Rows that are added, and steps of a writer that is not about to delete, leave
\* every reference standing.
LEMMA HarmlessKeeps ==
  ASSUME ReferencesInv, Harmless
  PROVE  ReferencesInv'
  BY DEF ReferencesInv, Harmless, installs, Kept, VersionsOf

\* The steps of the writer that are harmless.
LEMMA WriterIsHarmless ==
  ASSUME LibraryInv,
         \/ SavePackageVersion \/ SaveFails \/ PruneVersions
         \/ CheckVersion \/ UndoRename \/ RemoveTrash \/ RemoveFile
  PROVE  Harmless
<1> USE DEF LibraryInv, Harmless, tables
<1>1. CASE SavePackageVersion
  BY <1>1 DEF SavePackageVersion, To, TypeOK
<1>a. Free.pc = "free"
  BY DEF Free
<1>b. lock = [pc |-> lock.pc, op |-> lock.op, owner |-> lock.owner, id |-> lock.id,
              content |-> lock.content, todo |-> lock.todo]
  BY DEF TypeOK
<1>2. CASE SaveFails
  BY <1>2, <1>a DEF SaveFails, Unlock
<1>3. CASE PruneVersions
  BY <1>3, <1>a, <1>b DEF PruneVersions, Unlock
<1>4. CASE CheckVersion
  <2>1. lock.pc = "check" /\ UNCHANGED <<tables, installs, raced>>
    BY <1>4 DEF CheckVersion, SetAside
  <2>2. PICK id \in lock.todo :
          \/ lock' = [lock EXCEPT !.pc = "recheck", !.id = id, !.todo = @ \ {id}]
          \/ lock' = Free
          \/ lock' = [lock EXCEPT !.todo = @ \ {id}]
    BY <1>4 DEF CheckVersion, SetAside
  <2> QED
    BY <1>a, <1>b, <2>1, <2>2
<1>5. CASE UndoRename \/ RemoveTrash
  <2>1. UNCHANGED <<tables, installs, raced>> /\ NextItem
    BY <1>5 DEF UndoRename, RemoveTrash
  <2> QED
    BY <1>a, <1>b, <2>1 DEF NextItem
<1>6. CASE RemoveFile
  <2>1. lock.pc = "clean" /\ UNCHANGED <<tables, installs, raced>>
    BY <1>6 DEF RemoveFile
  <2>2. PICK id \in lock.todo : lock' = Free \/ lock' = [lock EXCEPT !.todo = @ \ {id}]
    BY <1>6 DEF RemoveFile
  <2> QED
    BY <1>a, <1>b, <2>1, <2>2
<1> QED
  BY <1>1, <1>2, <1>3, <1>4, <1>5, <1>6

\* A version is deleted only when no install of its owner is under way that
\* would not know, and no environment of the owner refers to it.
LEMMA RecheckKeepsReferences ==
  ASSUME LibraryInv, ReferencesInv, Recheck
  PROVE  ReferencesInv'
<1> USE DEF LibraryInv
<1>0. UNCHANGED <<tables, nextId, files, installs, torn>>
  BY DEF Recheck
<1>1. CASE To("undo") /\ UNCHANGED raced
  <2>1. Harmless
    BY <1>0, <1>1 DEF Harmless, To, tables, TypeOK
  <2> QED
    BY <2>1, HarmlessKeeps
<1>2. CASE lock.id \in Deletable /\ To("delete") /\ DeletedBehind(lock.owner)
  <2>1. /\ lock'.pc = "delete" /\ lock'.owner = lock.owner /\ lock'.id = lock.id
        /\ versions' = versions /\ used' = used /\ snapshot' = snapshot
        /\ envOwner' = envOwner
    BY <1>0, <1>2 DEF To, TypeOK, tables, installs
  <2>2. \A e \in Env : e \notin raced' =>
          e \notin raced /\ (envOwner[e] = lock.owner => snapshot[e] = None)
    BY <1>2 DEF DeletedBehind
  <2>3. PICK w \in versions : w.owner = lock.owner /\ w.id = lock.id /\ ~Referenced(w)
    BY <1>2 DEF Deletable, VersionsOf
  <2>4. \A v \in versions : v.id = lock.id => v = w
    BY <2>3 DEF RowsNumbered
  <2>5. \A e \in Env : envOwner[e] = lock.owner /\ used[e] # None => used[e] # w.content
    BY <2>3 DEF Referenced, InstalledBy
  <2> QED
    BY <2>1, <2>2, <2>4, <2>5 DEF ReferencesInv, Kept, VersionsOf
<1> QED
  BY <1>1, <1>2 DEF Recheck

\* The row that goes is not the one an environment refers to.
LEMMA DeleteRowKeepsReferences ==
  ASSUME LibraryInv, ReferencesInv, DeleteRow
  PROVE  ReferencesInv'
<1> USE DEF LibraryInv
<1>0. UNCHANGED <<current, nextId, files, installs, torn, raced>> /\ lock.pc = "delete"
  BY DEF DeleteRow
<1>1. CASE To("undo") /\ UNCHANGED versions
  <2>1. Harmless
    BY <1>0, <1>1 DEF Harmless, To, TypeOK
  <2> QED
    BY <2>1, HarmlessKeeps
<1>2. CASE versions' = {v \in versions : v.id # lock.id} /\ To("remove")
  <2>1. lock'.pc = "remove"
    BY <1>2 DEF To, TypeOK
  <2>2. \A v \in versions : v.id = lock.id => v.owner = lock.owner
    BY <1>0 DEF WriterKnows
  <2>3. ASSUME NEW e \in Env, e \notin raced
        PROVE  /\ snapshot[e] # None => used[e] = None
               /\ used[e] # None => Kept(envOwner[e], used[e])'
               /\ snapshot[e] # None => Kept(envOwner[e], snapshot[e])'
    <3>1. CASE envOwner[e] = lock.owner
      <4>1. /\ snapshot[e] = None
            /\ used[e] # None => Kept(envOwner[e], used[e])
            /\ used[e] # None => \A v \in versions : v.id = lock.id => v.content # used[e]
        BY <1>0, <2>3, <3>1 DEF ReferencesInv
      <4> QED
        BY <1>0, <1>2, <4>1 DEF Kept, VersionsOf, installs
    <3>2. CASE envOwner[e] # lock.owner
      <4>1. /\ snapshot[e] # None => used[e] = None
            /\ used[e] # None => Kept(envOwner[e], used[e])
            /\ snapshot[e] # None => Kept(envOwner[e], snapshot[e])
        BY <2>3 DEF ReferencesInv
      <4> QED
        BY <1>0, <1>2, <2>2, <3>2, <4>1 DEF Kept, VersionsOf, installs
    <3> QED
      BY <3>1, <3>2
  <2> QED
    BY <1>0, <2>1, <2>3 DEF ReferencesInv, installs
<1> QED
  BY <1>1, <1>2 DEF DeleteRow

\* A package that is to be deleted has no installed environment, and the ones
\* that are installing are marked.
LEMMA DeletePackageKeepsReferences ==
  ASSUME LibraryInv, ReferencesInv, NEW o \in Owner, DeletePackage(o)
  PROVE  ReferencesInv'
<1>1. /\ lock'.pc = "drop" /\ lock'.owner = o
      /\ versions' = versions /\ used' = used /\ snapshot' = snapshot /\ envOwner' = envOwner
  BY DEF DeletePackage, BeginDeletePackage, Free, tables, installs
<1>2. \A e \in Env : envOwner[e] = o => used[e] = None
  BY DEF DeletePackage, InstalledBy
<1>3. \A e \in Env : e \notin raced' =>
        e \notin raced /\ (envOwner[e] = o => snapshot[e] = None)
  BY DEF DeletePackage, BeginDeletePackage, DeletedBehind
<1> QED
  BY <1>1, <1>2, <1>3 DEF ReferencesInv, Kept, VersionsOf

\* The rows of an owner none of whose environments is installed go.
LEMMA DropRowsKeepsReferences ==
  ASSUME LibraryInv, ReferencesInv, DropRows
  PROVE  ReferencesInv'
<1> USE DEF LibraryInv
<1>0. UNCHANGED <<installs, raced>> /\ lock.pc = "drop"
  BY DEF DropRows
<1>1. \/ lock' = Free /\ versions' = versions
      \/ lock' = [lock EXCEPT !.pc = "clean"] /\ versions' = versions \ VersionsOf(lock.owner)
  BY DEF DropRows, Unlock, To, tables
<1>2. lock'.pc \notin {"drop", "delete"}
  BY <1>1 DEF Free, TypeOK
<1>3. \A v \in versions : v.owner # lock.owner => v \in versions'
  BY <1>1 DEF VersionsOf
<1> QED
  BY <1>0, <1>2, <1>3 DEF ReferencesInv, Kept, VersionsOf, installs

\* Environments and versions move together, while no writer is at work.
LEMMA TransferKeepsReferences ==
  ASSUME LibraryInv, ReferencesInv, NEW s \in Owner, NEW t \in Owner, TransferOwner(s, t)
  PROVE  ReferencesInv'
<1> DEFINE moved(v) == IF v.owner = s THEN [v EXCEPT !.owner = t] ELSE v
<1> USE DEF LibraryInv
<1>1. /\ lock'.pc = "free"
      /\ versions' = {moved(v) : v \in versions}
      /\ envOwner' = [e \in Env |-> IF envOwner[e] = s THEN t ELSE envOwner[e]]
      /\ UNCHANGED <<used, snapshot, raced>>
  BY DEF TransferOwner, Free
<1>2. \A v \in versions : /\ moved(v) \in versions'
                          /\ moved(v).owner = IF v.owner = s THEN t ELSE v.owner
                          /\ moved(v).content = v.content
  BY <1>1 DEF TypeOK
<1> HIDE DEF moved
<1>3. ASSUME NEW e \in Env, NEW c, Kept(envOwner[e], c)
      PROVE  \E w \in versions' : w.owner = envOwner'[e] /\ w.content = c
  <2>1. PICK v \in versions : v.owner = envOwner[e] /\ v.content = c
    BY <1>3 DEF Kept, VersionsOf
  <2> QED
    BY <1>1, <1>2, <2>1
<1> QED
  BY <1>1, <1>3 DEF ReferencesInv, Kept, VersionsOf

\* An install is given a row; what it was given is what it is marked with.
LEMMA InstallationKeepsReferences ==
  ASSUME LibraryInv, ReferencesInv, NEW e \in Env,
         \/ SnapshotForOwner(e) \/ MarkInstalled(e) \/ InstallFails(e)
         \/ SyncInstalled(e) \/ MarkUninstalled(e) \/ RewriteRow(e)
  PROVE  ReferencesInv'
<1> USE DEF LibraryInv
<1>1. UNCHANGED <<tables, envOwner, lock>>
  BY DEF SnapshotForOwner, MarkInstalled, InstallFails, SyncInstalled, MarkUninstalled, RewriteRow
<1>2. /\ used \in [Env -> Content \union {None}] /\ snapshot \in [Env -> Content \union {None}]
      /\ envOwner \in [Env -> Owner]
  BY DEF TypeOK
<1>3. CASE SnapshotForOwner(e)
  <2>1. Kept(envOwner[e], ContentOf(current[envOwner[e]]))
    BY <1>2, <1>3, CurrentRow DEF SnapshotForOwner, Kept
  <2>2. /\ lock.pc = "free" /\ used[e] = None /\ used' = used /\ raced' = raced \ {e}
        /\ snapshot' = [snapshot EXCEPT ![e] = ContentOf(current[envOwner[e]])]
    BY <1>3 DEF SnapshotForOwner, Free
  <2> QED
    BY <1>1, <1>2, <2>1, <2>2 DEF ReferencesInv, Kept, VersionsOf, tables
<1>4. CASE MarkInstalled(e)
  BY <1>1, <1>2, <1>4 DEF MarkInstalled, EndInstall, ReferencesInv, Kept, VersionsOf, tables
<1>5. CASE InstallFails(e)
  BY <1>1, <1>2, <1>5 DEF InstallFails, EndInstall, ReferencesInv, Kept, VersionsOf, tables
<1>6. CASE SyncInstalled(e)
  <2>1. /\ raced' = raced \union {e} /\ snapshot' = [snapshot EXCEPT ![e] = None]
        /\ \E c \in Content : used' = [used EXCEPT ![e] = c]
    BY <1>6 DEF SyncInstalled, EndInstall
  <2> QED
    BY <1>1, <1>2, <2>1 DEF ReferencesInv, Kept, VersionsOf, tables
<1>7. CASE MarkUninstalled(e)
  BY <1>1, <1>2, <1>7 DEF MarkUninstalled, ReferencesInv, Kept, VersionsOf, tables
<1>8. CASE RewriteRow(e)
  <2>1. /\ raced' = raced \union {e} /\ snapshot' = snapshot
        /\ \A d \in Env \ {e} : used'[d] = used[d]
    BY <1>2, <1>8 DEF RewriteRow
  <2> QED
    BY <1>1, <1>2, <2>1 DEF ReferencesInv, Kept, VersionsOf, tables
<1> QED
  BY <1>3, <1>4, <1>5, <1>6, <1>7, <1>8

\* Every step leaves the references standing.
LEMMA NextKeepsReferences ==
  LibraryInv /\ ReferencesInv /\ [Next]_vars => ReferencesInv'
<1> SUFFICES ASSUME LibraryInv, ReferencesInv, [Next]_vars PROVE ReferencesInv'
  OBVIOUS
<1>1. CASE Writer
  <2>1. CASE Recheck \/ DeleteRow \/ DropRows
    BY <2>1, RecheckKeepsReferences, DeleteRowKeepsReferences, DropRowsKeepsReferences
  <2> QED
    BY <1>1, <2>1, WriterIsHarmless, HarmlessKeeps DEF Writer
<1>2. CASE Request
  <2>1. PICK o \in Owner :
          \/ \E c \in Content : Upload(o, c)
          \/ \E id \in Id : DeleteVersion(o, id) \/ ActivateVersion(o, id)
          \/ DeletePackage(o)
          \/ \E t \in Owner : TransferOwner(o, t)
    BY <1>2 DEF Request
  <2>2. CASE \E c \in Content : Upload(o, c)
    <3>1. PICK c \in Content : Place(o, c)
      BY <2>2 DEF Upload
    <3>2. lock'.pc = "save"
      <4>1. lock' = [Free EXCEPT !.pc = "save", !.op = "upload", !.owner = o, !.id = nextId, !.content = c]
        BY <3>1 DEF Place
      <4> QED
        BY <4>1 DEF Free
    <3>3. UNCHANGED <<tables, installs, raced>>
      BY <3>1 DEF Place
    <3>4. Harmless
      BY <3>2, <3>3 DEF Harmless, tables
    <3> QED
      BY <3>4, HarmlessKeeps
  <2>3. CASE \E id \in Id : DeleteVersion(o, id) \/ ActivateVersion(o, id)
    <3>1. PICK id \in Id : DeleteVersion(o, id) \/ ActivateVersion(o, id)
      BY <2>3
    <3>2. lock'.pc \in {"check", "free"}
      <4>1. CASE DeleteVersion(o, id)
        <5>1. lock' = [Free EXCEPT !.pc = "check", !.op = "delete", !.owner = o, !.todo = {id}]
          BY <4>1 DEF DeleteVersion
        <5> QED
          BY <5>1 DEF Free
      <4>2. CASE ActivateVersion(o, id)
        BY <4>2 DEF ActivateVersion, Free
      <4> QED
        BY <3>1, <4>1, <4>2
    <3>3. versions' = versions /\ UNCHANGED <<installs, raced>>
      BY <3>1 DEF DeleteVersion, ActivateVersion, tables
    <3>4. Harmless
      BY <3>2, <3>3 DEF Harmless
    <3> QED
      BY <3>4, HarmlessKeeps
  <2>4. CASE DeletePackage(o)
    BY <2>4, DeletePackageKeepsReferences
  <2>5. CASE \E t \in Owner : TransferOwner(o, t)
    BY <2>5, TransferKeepsReferences
  <2> QED
    BY <2>1, <2>2, <2>3, <2>4, <2>5
<1>3. CASE Installation
  BY <1>3, InstallationKeepsReferences DEF Installation
<1>4. CASE Crash
  BY <1>4 DEF Crash, ReferencesInv, Free, Kept, VersionsOf, tables
<1>5. CASE UNCHANGED vars
  BY <1>5 DEF vars, tables, installs, ReferencesInv, Kept, VersionsOf
<1> QED
  BY <1>1, <1>2, <1>3, <1>4, <1>5 DEF Next

\* What an environment was installed from is kept by activation, pruning,
\* deletion, transfer and crashes, unless it was deleted behind an install or the
\* digest was written by another than that install.
THEOREM ReferencesAreKept == Spec => []ReferencedKept
<1>1. Init => ReferencesInv
  BY DEF Init, ReferencesInv, Free
<1>2. LibraryInv /\ ReferencesInv /\ [Next]_vars => ReferencesInv'
  BY NextKeepsReferences
<1>3. ReferencesInv => ReferencedKept
  BY DEF ReferencesInv, ReferencedKept, Kept
<1> QED
  BY <1>1, <1>2, <1>3, LibraryInvariant, PTL DEF Spec

-----------------------------------------------------------------------------
(***************************************************************************)
(* Leftovers.  Every step of a writer says what becomes of the one version *)
(* in its hands; nobody else touches rows and files meanwhile.             *)
(***************************************************************************)
LEMMA InitLeftovers == Init => Leftovers
  BY DEF Init, Leftovers, Deleting, Free

\* Steps beside the writer.
LEMMA AsideLeaves ==
  ASSUME Leftovers, UNCHANGED <<versions, file, trash, torn, lock>>
  PROVE  Leftovers'
  BY DEF Leftovers, Deleting, VersionsOf

\* A writer that begins, or ends with nothing in its hands.
LEMMA BeginLeaves ==
  ASSUME Leftovers, UNCHANGED <<versions, file, trash, torn>>, ~Deleting,
         lock.pc \notin {"save", "clean"}, lock'.pc \in {"free", "check"}
  PROVE  Leftovers'
  BY DEF Leftovers, Deleting

\* A new file belongs to the upload that placed it.
LEMMA UploadLeaves ==
  ASSUME LibraryInv, Leftovers, NEW o \in Owner, NEW c \in Content, Place(o, c)
  PROVE  Leftovers'
<1>1. /\ lock.pc = "free" /\ lock'.pc = "save" /\ lock'.id = nextId
      /\ file' = file \union {nextId} /\ UNCHANGED <<versions, trash, torn>>
  BY DEF Place, Free, tables
<1> QED
  BY <1>1 DEF Leftovers, Deleting

\* The saved file has its row.
LEMMA SaveLeaves ==
  ASSUME LibraryInv, Leftovers, SavePackageVersion
  PROVE  Leftovers'
<1> DEFINE w == [id |-> lock.id, owner |-> lock.owner, content |-> lock.content]
<1>1. /\ lock.pc = "save" /\ versions' = versions \union {w}
      /\ UNCHANGED <<file, trash, torn>>
  BY DEF SavePackageVersion, files
<1>2. w.id = lock.id
  OBVIOUS
<1>3. lock'.pc = "prune"
  BY DEF SavePackageVersion, To, LibraryInv, TypeOK
<1> HIDE DEF w
<1> QED
  BY <1>1, <1>2, <1>3 DEF Leftovers, Deleting

\* A refused upload takes its file along, or was cut short.
LEMMA SaveFailsLeaves ==
  ASSUME LibraryInv, Leftovers, SaveFails
  PROVE  Leftovers'
<1>1. /\ lock.pc = "save" /\ lock'.pc = "free" /\ UNCHANGED <<versions, trash>>
      /\ \/ file' = file \ {lock.id} /\ UNCHANGED torn
         \/ torn' = torn \union {lock.id} /\ UNCHANGED file
  BY DEF SaveFails, Unlock, Free, Tear, tables
<1> QED
  BY <1>1 DEF Leftovers, Deleting

\* The file set aside is that of the version being deleted.
LEMMA CheckLeaves ==
  ASSUME LibraryInv, Leftovers, CheckVersion
  PROVE  Leftovers'
<1>1. lock.pc = "check" /\ UNCHANGED <<versions, torn>>
  BY DEF CheckVersion, SetAside, tables
<1>2. PICK id \in lock.todo :
        \/ /\ id \in Deletable
           /\ file' = file \ {id}
           /\ trash' = trash \union ({id} \intersect file)
           /\ lock' = [lock EXCEPT !.pc = "recheck", !.id = id, !.todo = @ \ {id}]
        \/ /\ lock' = IF lock.todo = {id} THEN Free ELSE [lock EXCEPT !.todo = @ \ {id}]
           /\ UNCHANGED files
  BY DEF CheckVersion, SetAside
<1>3. CASE UNCHANGED files
           /\ lock' = IF lock.todo = {id} THEN Free ELSE [lock EXCEPT !.todo = @ \ {id}]
  <2>1. lock'.pc \in {"free", "check"}
    BY <1>1, <1>3 DEF Free, LibraryInv, TypeOK
  <2> QED
    BY <1>1, <1>3, <2>1, BeginLeaves DEF files, Deleting
<1>4. CASE /\ id \in Deletable
           /\ file' = file \ {id}
           /\ trash' = trash \union ({id} \intersect file)
           /\ lock' = [lock EXCEPT !.pc = "recheck", !.id = id, !.todo = @ \ {id}]
  <2>1. lock'.pc = "recheck" /\ lock'.id = id
    BY <1>4 DEF LibraryInv, TypeOK
  <2>2. \E v \in versions : v.id = id
    BY <1>4 DEF Deletable, VersionsOf
  <2> QED
    BY <1>1, <1>4, <2>1, <2>2 DEF Leftovers, Deleting
<1> QED
  BY <1>2, <1>3, <1>4

\* A deletion ends with the file back, gone, or cut short.
LEMMA DeletionLeaves ==
  ASSUME LibraryInv, Leftovers, Recheck \/ DeleteRow \/ UndoRename \/ RemoveTrash
  PROVE  Leftovers'
<1>1. CASE Recheck
  <2>1. /\ lock.pc = "recheck" /\ UNCHANGED <<versions, file, trash, torn>>
        /\ lock'.pc \in {"delete", "undo"} /\ lock'.id = lock.id
    BY <1>1 DEF Recheck, To, tables, files, LibraryInv, TypeOK
  <2> QED
    BY <2>1 DEF Leftovers, Deleting
<1>2. CASE DeleteRow
  <2>1. /\ lock.pc = "delete" /\ UNCHANGED <<file, trash, torn>> /\ lock'.id = lock.id
        /\ \/ lock'.pc = "undo" /\ UNCHANGED versions
           \/ lock'.pc = "remove" /\ versions' = {v \in versions : v.id # lock.id}
    BY <1>2 DEF DeleteRow, To, files, LibraryInv, TypeOK
  <2> QED
    BY <2>1 DEF Leftovers, Deleting
<1>3. CASE UndoRename
  <2>1. lock.pc = "undo" /\ UNCHANGED versions /\ lock'.pc \in {"free", "check"}
    BY <1>3 DEF UndoRename, NextItem, Free, tables, LibraryInv, TypeOK
  <2>2. \/ /\ file' = file \union ({lock.id} \intersect trash)
           /\ trash' = trash \ {lock.id} /\ UNCHANGED torn
        \/ UNCHANGED <<file, trash>> /\ torn' = torn \union {lock.id}
    BY <1>3 DEF UndoRename, files, Tear
  <2> QED
    BY <2>1, <2>2 DEF Leftovers, Deleting
<1>4. CASE RemoveTrash
  <2>1. /\ lock.pc = "remove" /\ UNCHANGED <<versions, file>>
        /\ lock'.pc \in {"free", "check"}
    BY <1>4 DEF RemoveTrash, NextItem, Free, tables, LibraryInv, TypeOK
  <2>2. \/ trash' = trash \ {lock.id} /\ UNCHANGED torn
        \/ torn' = torn \union {lock.id} /\ UNCHANGED trash
    BY <1>4 DEF RemoveTrash, Tear
  <2> QED
    BY <2>1, <2>2 DEF Leftovers, Deleting
<1> QED
  BY <1>1, <1>2, <1>3, <1>4

\* The files of a dropped package are on the list to remove.
LEMMA DropLeaves ==
  ASSUME LibraryInv, Leftovers, DropRows \/ RemoveFile
  PROVE  Leftovers'
<1>1. CASE DropRows
  <2>1. /\ lock.pc = "drop" /\ UNCHANGED <<file, trash, torn>>
        /\ \/ /\ versions' = versions \ VersionsOf(lock.owner)
              /\ lock'.pc = "clean" /\ lock'.todo = lock.todo
           \/ UNCHANGED versions /\ lock'.pc = "free"
    BY <1>1 DEF DropRows, To, Unlock, Free, tables, files, LibraryInv, TypeOK
  <2> QED
    BY <2>1 DEF Leftovers, Deleting, VersionsOf
<1>2. CASE RemoveFile
  <2>1. PICK id \in lock.todo :
          /\ \/ file' = file \ {id} /\ UNCHANGED torn
             \/ torn' = torn \union {id} /\ UNCHANGED file
          /\ lock' = IF lock.todo = {id} THEN Free ELSE [lock EXCEPT !.todo = @ \ {id}]
    BY <1>2 DEF RemoveFile, Tear
  <2>2. lock.pc = "clean" /\ UNCHANGED <<versions, trash>>
    BY <1>2 DEF RemoveFile, tables
  <2>3. \/ lock.todo = {id} /\ lock'.pc = "free"
        \/ lock'.pc = "clean" /\ lock'.todo = lock.todo \ {id}
    BY <2>1, <2>2 DEF Free, LibraryInv, TypeOK
  <2> QED
    BY <2>1, <2>2, <2>3 DEF Leftovers, Deleting
<1> QED
  BY <1>1, <1>2

\* A transfer renumbers nothing.
LEMMA TransferLeaves ==
  ASSUME LibraryInv, Leftovers, NEW s \in Owner, NEW t \in Owner, TransferOwner(s, t)
  PROVE  Leftovers'
<1> DEFINE moved(v) == IF v.owner = s THEN [v EXCEPT !.owner = t] ELSE v
<1>1. /\ lock.pc = "free" /\ UNCHANGED <<file, trash, torn, lock>>
      /\ versions' = {moved(v) : v \in versions}
  BY DEF TransferOwner, files, Free
<1>2. \A v \in versions : moved(v).id = v.id
  BY DEF LibraryInv, TypeOK
<1> HIDE DEF moved
<1>3. \A v \in versions : \E w \in versions' : w.id = v.id
  BY <1>1, <1>2
<1> QED
  BY <1>1, <1>3 DEF Leftovers, Deleting

\* A crash cuts short exactly what the writer was working on.
LEMMA CrashLeaves ==
  ASSUME LibraryInv, Leftovers, Crash
  PROVE  Leftovers'
<1>1. /\ lock'.pc = "free" /\ UNCHANGED <<versions, file, trash>> /\ torn \subseteq torn'
  BY DEF Crash, Tear, Free, tables, files
<1>2. /\ Deleting \/ lock.pc = "save" => lock.id \in torn'
      /\ lock.pc = "clean" => lock.todo \subseteq torn'
  <2>1. Deleting \/ lock.pc = "save" => lock.id # NoId
    BY DEF LibraryInv, WriterKnows
  <2> QED
    BY <2>1 DEF Crash, Tear
<1> QED
  BY <1>1, <1>2 DEF Leftovers, Deleting

\* Every step leaves files without a row only to the writer at work, or cut
\* short.
LEMMA NextLeaves == LibraryInv /\ Leftovers /\ [Next]_vars => Leftovers'
<1> SUFFICES ASSUME LibraryInv, Leftovers, [Next]_vars PROVE Leftovers'
  OBVIOUS
<1>1. CASE Writer
  <2>1. CASE PruneVersions
    <3>1. lock.pc = "prune" /\ UNCHANGED <<versions, file, trash, torn>>
      BY <2>1 DEF PruneVersions, tables, files
    <3>2. lock' = Free \/ \E S : lock' = [lock EXCEPT !.pc = "check", !.id = NoId, !.todo = S]
      BY <2>1 DEF PruneVersions, Unlock
    <3>3. CASE lock' = Free
      <4>1. lock'.pc = "free"
        BY <3>3 DEF Free
      <4> QED
        BY <3>1, <4>1, BeginLeaves DEF Deleting
    <3>4. CASE \E S : lock' = [lock EXCEPT !.pc = "check", !.id = NoId, !.todo = S]
      <4>1. PICK S : lock' = [lock EXCEPT !.pc = "check", !.id = NoId, !.todo = S]
        BY <3>4
      <4>2. "pc" \in DOMAIN lock
        BY DEF LibraryInv, TypeOK
      <4>3. lock'.pc = "check"
        BY <4>1, <4>2
      <4> QED
        BY <3>1, <4>3, BeginLeaves DEF Deleting
    <3> QED
      BY <3>2, <3>3, <3>4
  <2> QED
    BY <1>1, <2>1, SaveLeaves, SaveFailsLeaves, CheckLeaves, DeletionLeaves, DropLeaves DEF Writer
<1>2. CASE Request
  <2>1. PICK o \in Owner :
          \/ \E c \in Content : Upload(o, c)
          \/ \E id \in Id : DeleteVersion(o, id) \/ ActivateVersion(o, id)
          \/ DeletePackage(o)
          \/ \E t \in Owner : TransferOwner(o, t)
    BY <1>2 DEF Request
  <2>2. CASE \E id \in Id : DeleteVersion(o, id)
    <3>1. /\ lock.pc = "free" /\ lock'.pc = "check" /\ UNCHANGED <<versions, file, trash, torn>>
      BY <2>2 DEF DeleteVersion, Free, tables, files
    <3> QED
      BY <3>1, BeginLeaves DEF Deleting
  <2>3. CASE \E id \in Id : ActivateVersion(o, id)
    BY <2>3, AsideLeaves DEF ActivateVersion, files
  <2>4. CASE DeletePackage(o)
    <3>1. /\ lock.pc = "free" /\ lock'.pc = "drop" /\ lock'.owner = o /\ lock'.todo = Rows(o)
          /\ UNCHANGED <<versions, file, trash, torn>>
      BY <2>4 DEF DeletePackage, BeginDeletePackage, Free, tables, files
    <3> QED
      BY <3>1 DEF Leftovers, Deleting, Rows, VersionsOf
  <2> QED
    BY <2>1, <2>2, <2>3, <2>4, UploadLeaves, TransferLeaves DEF Upload
<1>3. CASE Installation
  BY <1>3, AsideLeaves DEF Installation, SnapshotForOwner, MarkInstalled, InstallFails,
     SyncInstalled, MarkUninstalled, RewriteRow, tables, files
<1>4. CASE Crash
  BY <1>4, CrashLeaves
<1>5. CASE UNCHANGED vars
  BY <1>5, AsideLeaves DEF vars, tables, files
<1> QED
  BY <1>1, <1>2, <1>3, <1>4, <1>5 DEF Next

\* Between two requests files and rows correspond, and nothing is set aside,
\* but what a crash or a failed removal has left.
THEOREM RestsTidily == Spec => []RestIsTidy
<1>1. LibraryInv /\ Leftovers => RestIsTidy
  <2> SUFFICES ASSUME LibraryInv, Leftovers, lock = Free
               PROVE  /\ file \ torn = {v.id : v \in versions} \ torn
                      /\ trash \subseteq torn
    BY DEF RestIsTidy
  <2>1. lock.pc = "free"
    BY DEF Free
  <2>2. trash \subseteq torn
    BY <2>1 DEF Leftovers, Deleting
  <2>3. \A i \in file \ torn : \E v \in versions : v.id = i
    BY <2>1 DEF Leftovers
  <2>4. \A v \in versions : v.id \in file \/ v.id \in torn
    BY <2>2 DEF LibraryInv, RowsHaveFiles
  <2> QED
    BY <2>2, <2>3, <2>4
<1> QED
  BY <1>1, InitLeftovers, NextLeaves, LibraryInvariant, PTL DEF Spec

-----------------------------------------------------------------------------
(***************************************************************************)
(* The kind of configuration.                                              *)
(***************************************************************************)
\* The content of a row is the one of its number.
LEMMA RowContent ==
  ASSUME RowsNumbered, NEW v \in versions
  PROVE  ContentOf(v.id) = v.content
<1>1. (CHOOSE w \in versions : w.id = v.id) = v
  BY DEF RowsNumbered
<1> QED
  BY <1>1 DEF ContentOf

\* An environment keeps its kind when the current rows before and after
\* have configurations of the same kind.
LEMMA KindKept ==
  ASSUME LibraryInv, LibraryInv', NEW e \in Env, Kind(e) # None, Kind(e)' # None,
         \A v \in versions, w \in versions' :
            v.id = current[envOwner[e]] /\ w.id = current'[envOwner'[e]] =>
              (v.content \in Yaml <=> w.content \in Yaml)
  PROVE  Kind(e)' = Kind(e)
<1>1. envOwner[e] \in Owner /\ envOwner'[e] \in Owner
  BY DEF LibraryInv, TypeOK
<1>2. current[envOwner[e]] # NoId /\ current'[envOwner'[e]] # NoId
  BY DEF Kind
<1>3. PICK v \in versions : v.id = current[envOwner[e]]
  <2>1. current[envOwner[e]] \in Rows(envOwner[e])
    BY <1>1, <1>2 DEF LibraryInv, CurrentReadable
  <2> QED
    BY <2>1 DEF Rows, VersionsOf
<1>4. PICK w \in versions' : w.id = current'[envOwner'[e]]
  <2>1. current'[envOwner'[e]] \in Rows(envOwner[e])'
    BY <1>1, <1>2 DEF LibraryInv, CurrentReadable
  <2> QED
    BY <2>1 DEF Rows, VersionsOf
<1>5. ContentOf(current[envOwner[e]]) = v.content
  BY <1>3, RowContent DEF LibraryInv
<1>6. ContentOf(current[envOwner[e]])' = w.content
  <2>1. (CHOOSE x \in versions' : x.id = w.id) = w
    BY DEF LibraryInv, RowsNumbered
  <2> QED
    BY <2>1, <1>4 DEF ContentOf
<1> QED
  BY <1>2, <1>3, <1>4, <1>5, <1>6 DEF Kind, Format

\* Between two of its steps the writer never goes back to saving.
LEMMA WriterMovesOn ==
  ASSUME LibraryInv, Writer
  PROVE  lock'.pc # "save"
<1>1. DOMAIN lock = {"pc", "op", "owner", "id", "content", "todo"}
  BY DEF LibraryInv, TypeOK
<1>2. Free.pc = "free"
  BY DEF Free
<1>3. ASSUME NEW p \in {"prune", "check", "recheck", "delete", "undo", "remove", "clean"},
             lock.pc = p,
             \/ lock' = Free
             \/ \E q \in {"check", "recheck", "delete", "undo", "remove", "clean"} :
                  \/ To(q)
                  \/ \E S : lock' = [lock EXCEPT !.pc = q, !.id = NoId, !.todo = S]
                  \/ \E i, S : lock' = [lock EXCEPT !.pc = q, !.id = i, !.todo = S]
                  \/ lock' = [lock EXCEPT !.pc = q, !.id = NoId]
             \/ \E S : lock' = [lock EXCEPT !.todo = S]
      PROVE  lock'.pc # "save"
  <2>1. CASE \E q \in {"check", "recheck", "delete", "undo", "remove", "clean"} :
                  \/ To(q)
                  \/ \E S : lock' = [lock EXCEPT !.pc = q, !.id = NoId, !.todo = S]
                  \/ \E i, S : lock' = [lock EXCEPT !.pc = q, !.id = i, !.todo = S]
                  \/ lock' = [lock EXCEPT !.pc = q, !.id = NoId]
    <3>1. PICK q \in {"check", "recheck", "delete", "undo", "remove", "clean"} :
                  \/ To(q)
                  \/ \E S : lock' = [lock EXCEPT !.pc = q, !.id = NoId, !.todo = S]
                  \/ \E i, S : lock' = [lock EXCEPT !.pc = q, !.id = i, !.todo = S]
                  \/ lock' = [lock EXCEPT !.pc = q, !.id = NoId]
      BY <2>1
    <3>2. lock'.pc = q
      BY <3>1, <1>1 DEF To
    <3> QED
      BY <3>2
  <2>2. CASE \E S : lock' = [lock EXCEPT !.todo = S]
    <3>1. lock'.pc = lock.pc
      BY <2>2, <1>1
    <3> QED
      BY <3>1, <1>3
  <2> QED
    BY <2>1, <2>2, <1>2, <1>3
<1>4. CASE SavePackageVersion
  BY <1>4, <1>1 DEF SavePackageVersion, To
<1>5. CASE SaveFails
  BY <1>5, <1>2 DEF SaveFails, Unlock
<1>6. CASE PruneVersions
  BY <1>6, <1>3 DEF PruneVersions, Unlock
<1>7. CASE CheckVersion
  BY <1>7, <1>3 DEF CheckVersion, SetAside
<1>8. CASE Recheck \/ DeleteRow
  BY <1>8, <1>1 DEF Recheck, DeleteRow, To
<1>9. CASE UndoRename
  BY <1>9, <1>3 DEF UndoRename, NextItem
<1>10. CASE RemoveTrash
  BY <1>10, <1>3 DEF RemoveTrash, NextItem
<1>11. CASE DropRows
  BY <1>11, <1>1, <1>2 DEF DropRows, To, Unlock
<1>12. CASE RemoveFile
  BY <1>12, <1>3 DEF RemoveFile
<1> QED
  BY <1>4, <1>5, <1>6, <1>7, <1>8, <1>9, <1>10, <1>11, <1>12 DEF Writer

\* An upload is accepted only with the kind the package has, and until it is
\* saved nobody else writes.
LEMMA NextKind == LibraryInv /\ KindKnown /\ [Next]_vars => KindKnown'
<1> SUFFICES ASSUME LibraryInv, KindKnown, [Next]_vars, lock'.pc = "save"
             PROVE  KindKnown'
  BY DEF KindKnown
<1>1. CASE UNCHANGED <<tables, lock>>
  BY <1>1 DEF KindKnown, tables, Format, ContentOf
<1>2. CASE \E o \in Owner, c \in Content : Upload(o, c)
  <2>1. PICK o \in Owner, c \in Content : Upload(o, c)
    BY <1>2
  <2>2. lock'.owner = o /\ lock'.content = c /\ UNCHANGED tables
    BY <2>1 DEF Upload, Place, Free
  <2>3. current[o] # NoId => Format(current[o]) = (c \in Yaml)
    BY <2>1 DEF Upload
  <2> QED
    BY <2>2, <2>3 DEF KindKnown, tables, Format, ContentOf
<1>3. CASE Writer
  <2>1. lock'.pc # "save"
    BY <1>3, WriterMovesOn
  <2> QED
    BY <2>1
<1>4. CASE Request
  <2>1. PICK o \in Owner :
          \/ \E c \in Content : Upload(o, c)
          \/ \E id \in Id : DeleteVersion(o, id) \/ ActivateVersion(o, id)
          \/ DeletePackage(o)
          \/ \E t \in Owner : TransferOwner(o, t)
    BY <1>4 DEF Request
  <2>2. CASE \E c \in Content : Upload(o, c)
    BY <2>2, <1>2
  <2>3. CASE \E id \in Id : DeleteVersion(o, id)
    <3>1. lock'.pc = "check"
      BY <2>3 DEF DeleteVersion, Free
    <3> QED
      BY <3>1
  <2>4. CASE DeletePackage(o)
    <3>1. lock'.pc = "drop"
      BY <2>4 DEF DeletePackage, BeginDeletePackage, Free
    <3> QED
      BY <3>1
  <2>5. CASE (\E id \in Id : ActivateVersion(o, id)) \/ \E t \in Owner : TransferOwner(o, t)
    <3>1. lock'.pc = "free"
      BY <2>5 DEF ActivateVersion, TransferOwner, Free
    <3> QED
      BY <3>1
  <2> QED
    BY <2>1, <2>2, <2>3, <2>4, <2>5
<1>5. CASE Installation
  BY <1>1, <1>5 DEF Installation, SnapshotForOwner, MarkInstalled, InstallFails,
     SyncInstalled, MarkUninstalled, RewriteRow
<1>6. CASE Crash
  BY <1>6 DEF Crash, Free
<1>7. CASE UNCHANGED vars
  BY <1>1, <1>7 DEF vars
<1> QED
  BY <1>3, <1>4, <1>5, <1>6, <1>7 DEF Next

\* A step that gives an environment the same current version, and leaves the
\* rows that stay their contents, leaves it its kind.
LEMMA SameVersion ==
  ASSUME LibraryInv, LibraryInv', NEW e \in Env, Kind(e) # None, Kind(e)' # None,
         current'[envOwner'[e]] = current[envOwner[e]],
         \A w \in versions' : \E v \in versions : v.id = w.id /\ v.content = w.content
  PROVE  Kind(e)' = Kind(e)
<1>1. \A v \in versions, w \in versions' :
            v.id = current[envOwner[e]] /\ w.id = current'[envOwner'[e]] =>
              (v.content \in Yaml <=> w.content \in Yaml)
  BY DEF LibraryInv, RowsNumbered
<1> QED
  BY <1>1, KindKept

\* The upload that becomes current was compared with the one it replaces.
LEMMA SaveKeepsKind ==
  ASSUME LibraryInv, LibraryInv', KindKnown, NEW e \in Env, Kind(e) # None, Kind(e)' # None,
         SavePackageVersion
  PROVE  Kind(e)' = Kind(e)
<1> DEFINE new == [id |-> lock.id, owner |-> lock.owner, content |-> lock.content]
<1>1. /\ lock.pc = "save" /\ UNCHANGED envOwner
      /\ versions' = versions \union {new}
      /\ current' = [current EXCEPT ![lock.owner] = lock.id]
  BY DEF SavePackageVersion, installs
<1>2. /\ lock.owner \in Owner /\ envOwner[e] \in Owner
      /\ \A o \in Owner : current'[o] = IF o = lock.owner THEN lock.id ELSE current[o]
  BY <1>1 DEF LibraryInv, TypeOK, WriterKnows
<1> SUFFICES ASSUME NEW v \in versions, NEW w \in versions',
                    v.id = current[envOwner[e]], w.id = current'[envOwner[e]]
             PROVE  v.content \in Yaml <=> w.content \in Yaml
  BY <1>1, KindKept
<1>3. CASE envOwner[e] = lock.owner
  <2>1. new \in versions' /\ new.id = lock.id /\ new.content = lock.content
    BY <1>1
  <2>2. w.content = lock.content
    <3>1. w.id = new.id
      BY <1>2, <1>3, <2>1
    <3>2. w = new
      BY <3>1, <2>1 DEF LibraryInv, RowsNumbered
    <3> QED
      BY <3>2, <2>1
  <2>3. current[lock.owner] # NoId
    BY <1>3 DEF Kind
  <2>4. Format(current[lock.owner]) <=> lock.content \in Yaml
    BY <1>1, <2>3 DEF KindKnown
  <2>5. ContentOf(current[lock.owner]) = v.content
    BY <1>3, RowContent DEF LibraryInv
  <2> QED
    BY <2>2, <2>4, <2>5 DEF Format
<1>4. CASE envOwner[e] # lock.owner
  <2>1. v \in versions' /\ w.id = v.id
    BY <1>1, <1>2, <1>4
  <2> QED
    BY <2>1 DEF LibraryInv, RowsNumbered
<1> QED
  BY <1>3, <1>4

\* What is deleted is not current, or the whole package goes.
LEMMA DeletionKeepsKind ==
  ASSUME LibraryInv, LibraryInv', NEW e \in Env, Kind(e) # None, Kind(e)' # None,
         DropRows \/ DeleteRow
  PROVE  Kind(e)' = Kind(e)
<1>1. UNCHANGED envOwner /\ versions' \subseteq versions
  BY DEF DropRows, DeleteRow, tables, installs
<1>2. current'[envOwner[e]] = current[envOwner[e]]
  <2>1. envOwner[e] \in Owner /\ current'[envOwner[e]] # NoId
    BY <1>1 DEF Kind, LibraryInv, TypeOK
  <2>2. current' = current \/ current' = [current EXCEPT ![lock.owner] = NoId]
    BY DEF DropRows, DeleteRow, tables
  <2> QED
    BY <2>1, <2>2 DEF LibraryInv, TypeOK
<1> QED
  BY <1>1, <1>2, SameVersion

\* Only a version of the same kind is activated.
LEMMA ActivateKeepsKind ==
  ASSUME LibraryInv, LibraryInv', NEW e \in Env, Kind(e) # None, Kind(e)' # None,
         NEW o \in Owner, NEW id \in Id, ActivateVersion(o, id)
  PROVE  Kind(e)' = Kind(e)
<1>1. /\ UNCHANGED <<versions, envOwner>>
      /\ current' = [current EXCEPT ![o] = id]
      /\ Format(id) = Format(current[o])
  BY DEF ActivateVersion, installs
<1>2. envOwner[e] \in Owner
  BY DEF LibraryInv, TypeOK
<1>3. CASE envOwner[e] = o
  <2>1. current'[envOwner'[e]] = id
    BY <1>1, <1>2, <1>3 DEF LibraryInv, TypeOK
  <2>2. \A v \in versions : v.id = current[o] => (Format(current[o]) <=> v.content \in Yaml)
    BY RowContent DEF LibraryInv, Format
  <2>3. \A w \in versions : w.id = id => (Format(id) <=> w.content \in Yaml)
    BY RowContent DEF LibraryInv, Format
  <2> QED
    BY <1>1, <1>3, <2>1, <2>2, <2>3, KindKept
<1>4. CASE envOwner[e] # o
  <2>1. current'[envOwner'[e]] = current[envOwner[e]]
    BY <1>1, <1>2, <1>4 DEF LibraryInv, TypeOK
  <2> QED
    BY <1>1, <2>1, SameVersion
<1> QED
  BY <1>3, <1>4

\* A transfer moves the environments with the package.
LEMMA TransferKeepsKind ==
  ASSUME LibraryInv, LibraryInv', NEW e \in Env, Kind(e) # None, Kind(e)' # None,
         NEW s \in Owner, NEW t \in Owner, TransferOwner(s, t)
  PROVE  Kind(e)' = Kind(e)
<1> DEFINE moved(v) == IF v.owner = s THEN [v EXCEPT !.owner = t] ELSE v
<1>1. /\ s # t
      /\ versions' = {moved(v) : v \in versions}
      /\ envOwner' = [x \in Env |-> IF envOwner[x] = s THEN t ELSE envOwner[x]]
      /\ current[s] = NoId \/ current[t] = NoId
      /\ current' = IF current[s] = NoId THEN current
                    ELSE [current EXCEPT ![t] = current[s], ![s] = NoId]
  BY DEF TransferOwner
<1>2. \A v \in versions : moved(v).id = v.id /\ moved(v).content = v.content
  BY DEF LibraryInv, TypeOK
<1>3. \A w \in versions' : \E v \in versions : v.id = w.id /\ v.content = w.content
  <2> HIDE DEF moved
  <2> QED
    BY <1>1, <1>2
<1>4. current'[envOwner'[e]] = current[envOwner[e]]
  <2>1. envOwner[e] \in Owner /\ envOwner'[e] = IF envOwner[e] = s THEN t ELSE envOwner[e]
    BY <1>1 DEF LibraryInv, TypeOK
  <2>2. current[envOwner[e]] # NoId
    BY DEF Kind
  <2>3. current[s] # NoId =>
          \A o \in Owner : current'[o] = IF o = s THEN NoId ELSE IF o = t THEN current[s]
                                         ELSE current[o]
    BY <1>1 DEF LibraryInv, TypeOK
  <2>4. CASE current[s] = NoId
    BY <1>1, <2>1, <2>2, <2>4
  <2>5. CASE current[s] # NoId
    BY <1>1, <2>1, <2>2, <2>3, <2>5
  <2> QED
    BY <2>4, <2>5
<1> QED
  BY <1>3, <1>4, SameVersion

\* No step changes the kind an environment is configured by.
LEMMA NextKeepsKind ==
  ASSUME LibraryInv, LibraryInv', KindKnown, [Next]_vars,
         NEW e \in Env, Kind(e) # None, Kind(e)' # None
  PROVE  Kind(e)' = Kind(e)
<1>1. CASE UNCHANGED <<tables, envOwner>>
  BY <1>1, SameVersion DEF tables
<1>2. CASE Writer
  <2>1. CASE SaveFails \/ PruneVersions \/ CheckVersion
    BY <2>1, <1>1 DEF SaveFails, PruneVersions, CheckVersion, SetAside, installs
  <2>2. CASE Recheck \/ UndoRename \/ RemoveTrash \/ RemoveFile
    BY <2>2, <1>1 DEF Recheck, UndoRename, RemoveTrash, RemoveFile, installs
  <2> QED
    BY <1>2, <2>1, <2>2, SaveKeepsKind, DeletionKeepsKind DEF Writer
<1>3. CASE Request
  <2>1. PICK o \in Owner :
          \/ \E c \in Content : Upload(o, c)
          \/ \E id \in Id : DeleteVersion(o, id) \/ ActivateVersion(o, id)
          \/ DeletePackage(o)
          \/ \E t \in Owner : TransferOwner(o, t)
    BY <1>3 DEF Request
  <2>2. CASE \/ \E c \in Content : Upload(o, c)
             \/ \E id \in Id : DeleteVersion(o, id)
             \/ DeletePackage(o)
    <3>1. UNCHANGED <<tables, installs>>
      BY <2>2 DEF Upload, Place, DeleteVersion, DeletePackage, BeginDeletePackage
    <3> QED
      BY <3>1, <1>1 DEF installs
  <2> QED
    BY <2>1, <2>2, ActivateKeepsKind, TransferKeepsKind
<1>4. CASE Installation
  BY <1>4, <1>1 DEF Installation, SnapshotForOwner, MarkInstalled, InstallFails,
     SyncInstalled, MarkUninstalled, RewriteRow
<1>5. CASE Crash
  BY <1>5, <1>1 DEF Crash
<1>6. CASE UNCHANGED vars
  BY <1>6, <1>1 DEF vars, installs
<1> QED
  BY <1>2, <1>3, <1>4, <1>5, <1>6 DEF Next

\* While a package exists, through uploads, activations, deletions and
\* transfers, the kind of its configuration never changes.
THEOREM KindStays == Spec => FormatStays
<1>1. Init => KindKnown
  BY DEF Init, KindKnown, Free
<1>2. Spec => []KindKnown
  BY <1>1, NextKind, LibraryInvariant, PTL DEF Spec
<1>3. LibraryInv /\ LibraryInv' /\ KindKnown /\ [Next]_vars =>
        [\A e \in Env : Kind(e) # None /\ Kind(e)' # None => Kind(e)' = Kind(e)]_vars
  BY NextKeepsKind
<1> QED
  BY <1>2, <1>3, LibraryInvariant, PTL DEF Spec, FormatStays

-----------------------------------------------------------------------------
(***************************************************************************)
(* Pruning.  The versions to delete are listed once; the newest of them    *)
(* has Retain versions above it that are not listed, and while the writer  *)
(* works through the list only what is listed goes.                        *)
(***************************************************************************)
\* Among some identifiers one is the greatest.
LEMMA GreatestId ==
  ASSUME NEW S \in SUBSET Id, S # {}
  PROVE  \E m \in S : \A i \in S : i <= m
<1> DEFINE T == {n \in Nat : MaxVersions - n \in S}
<1>1. T \subseteq Nat /\ T # {}
  <2>1. PICK i \in S : TRUE
    OBVIOUS
  <2>2. MaxVersions - i \in Nat /\ MaxVersions - (MaxVersions - i) = i
    BY <2>1
  <2>3. MaxVersions - i \in T
    BY <2>1, <2>2
  <2> QED
    BY <2>3
<1>2. PICK n \in T : \A k \in T : ~(<<k, n>> \in OpToRel(<, Nat))
  BY <1>1, NatLessThanWellFounded, WFMin
<1>3. \A k \in T : ~(k < n)
  BY <1>1, <1>2 DEF OpToRel
<1>4. MaxVersions - n \in S /\ n \in Nat
  OBVIOUS
<1>5. ASSUME NEW i \in S PROVE i <= MaxVersions - n
  <2>1. i \in Nat /\ MaxVersions - i \in Nat /\ MaxVersions - (MaxVersions - i) = i
    OBVIOUS
  <2>2. MaxVersions - i \in T
    BY <2>1
  <2>3. ~(MaxVersions - i < n)
    BY <1>3, <2>2
  <2> QED
    BY <1>4, <2>1, <2>3
<1> QED
  BY <1>4, <1>5

\* Rows are finitely many: each has a number of its own.
LEMMA RowsFinite ==
  ASSUME NEW V, \A v \in V : v.id \in Id, \A v, w \in V : v.id = w.id => v = w,
         NEW W \in SUBSET V
  PROVE  IsFiniteSet(W) /\ Cardinality(W) \in Nat
<1> DEFINE f == [v \in V |-> v.id]
<1>1. f \in Injection(V, Id)
  BY DEF Injection, IsInjective
<1>2. IsFiniteSet(Id)
  BY FS_Interval
<1>3. IsFiniteSet(V)
  BY <1>1, <1>2, FS_Injection
<1> QED
  BY <1>3, FS_Subset, FS_CardinalityType

\* PruneVersions: beyond the newest Retain, so Retain are above.
LEMMA PruneSpares ==
  ASSUME LibraryInv, PruneVersions
  PROVE  PruningSpares'
<1> USE DEF LibraryInv
<1>1. CASE lock' = Free
  BY <1>1 DEF PruningSpares, Deleting, Free, None
<1>2. CASE lock' # Free
  <2> DEFINE o == lock.owner
             S == {v.id : v \in Prunable(o)}
  <2>1. /\ lock' = [lock EXCEPT !.pc = "check", !.id = NoId, !.todo = S]
        /\ Prunable(o) # {} /\ versions' = versions
    BY <1>2 DEF PruneVersions, Unlock, tables
  <2>2. lock'.owner = o /\ lock'.todo = S /\ lock'.id = NoId
    BY <2>1 DEF TypeOK
  <2>3. S \in SUBSET Id /\ S # {}
    BY <2>1 DEF TypeOK, Prunable, Beyond, VersionsOf
  <2> HIDE DEF S
  <2>4. PICK m \in S : \A i \in S : i <= m
    BY <2>3, GreatestId
  <2>5. PICK v \in Prunable(o) : v.id = m
    BY DEF S
  <2>6. v \in VersionsOf(o) /\ Cardinality(Newer(v)) >= Retain /\ v.owner = o
    BY <2>5 DEF Prunable, Beyond, VersionsOf
  <2>7. Newer(v) \subseteq Spared'
    <3> SUFFICES ASSUME NEW w \in Newer(v) PROVE w \in Spared'
      OBVIOUS
    <3>1. w \in VersionsOf(o) /\ w.id > m /\ w.id \in Id
      BY <2>5, <2>6 DEF Newer, VersionsOf, TypeOK
    <3>2. \A i \in S \union {NoId} : i < w.id
      BY <2>3, <2>4, <3>1
    <3> QED
      BY <2>1, <2>2, <3>1, <3>2 DEF Spared, VersionsOf
  <2>8. Spared' \in SUBSET versions /\ Newer(v) \in SUBSET versions
    BY <2>1 DEF Spared, Newer, VersionsOf
  <2>9. /\ IsFiniteSet(Spared') /\ Cardinality(Spared') \in Nat
        /\ Cardinality(Newer(v)) \in Nat
    <3>1. (\A w \in versions : w.id \in Id) /\ \A w, x \in versions : w.id = x.id => w = x
      BY DEF TypeOK, RowsNumbered
    <3> QED
      BY <2>8, <3>1, RowsFinite
  <2>10. Cardinality(Newer(v)) <= Cardinality(Spared')
    BY <2>7, <2>9, FS_Subset
  <2>11. Cardinality(Spared') >= Retain
    BY <2>6, <2>9, <2>10
  <2>12. lock'.pc = "check"
    BY <2>1 DEF TypeOK
  <2> QED
    BY <2>11, <2>12 DEF PruningSpares
<1> QED
  BY <1>1, <1>2

\* The writer that works through the list: what is spared stays.
LEMMA DeletionSpares ==
  ASSUME LibraryInv, TypeOK', RowsNumbered', PruningSpares,
         CheckVersion \/ Recheck \/ DeleteRow \/ UndoRename \/ RemoveTrash
  PROVE  PruningSpares'
<1> USE DEF LibraryInv
<1>1. CASE lock' = Free
  BY <1>1 DEF PruningSpares, Deleting, Free, None
<1>2. CASE lock' # Free
  <2>1. lock \in [pc: {"free", "save", "prune", "check", "recheck", "delete", "undo",
                     "remove", "drop", "clean"},
                op: {None, "upload", "delete", "drop"}, owner: Owner \union {None},
                id: Id \union {NoId}, content: Content \union {None}, todo: SUBSET Id]
    BY DEF TypeOK
  <2>2. /\ lock'.op = lock.op /\ lock'.owner = lock.owner
        /\ lock'.todo \union {lock'.id} \subseteq lock.todo \union {lock.id, NoId}
        /\ lock.pc = "check" \/ Deleting
        /\ lock'.pc # "drop"
    <3>1. CASE CheckVersion
      <4>0. lock.pc = "check"
        BY <3>1 DEF CheckVersion, SetAside
      <4>1. PICK id \in lock.todo :
              \/ lock' = [lock EXCEPT !.pc = "recheck", !.id = id, !.todo = @ \ {id}]
              \/ lock' = [lock EXCEPT !.todo = @ \ {id}]
        BY <1>2, <3>1 DEF CheckVersion, SetAside
      <4>2. CASE lock' = [lock EXCEPT !.pc = "recheck", !.id = id, !.todo = @ \ {id}]
        <5>1. /\ lock'.op = lock.op /\ lock'.owner = lock.owner /\ lock'.pc = "recheck"
              /\ lock'.id = id /\ lock'.todo = lock.todo \ {id}
          BY <2>1, <4>2
        <5> QED
          BY <4>0, <5>1
      <4>3. CASE lock' = [lock EXCEPT !.todo = @ \ {id}]
        <5>1. /\ lock'.op = lock.op /\ lock'.owner = lock.owner /\ lock'.pc = lock.pc
              /\ lock'.id = lock.id /\ lock'.todo = lock.todo \ {id}
          BY <2>1, <4>3
        <5> QED
          BY <4>0, <5>1
      <4> QED
        BY <4>1, <4>2, <4>3
    <3>2. CASE Recheck \/ DeleteRow
      BY <2>1, <3>2 DEF Recheck, DeleteRow, To, Deleting
    <3>3. CASE UndoRename \/ RemoveTrash
      <4>1. lock' = [lock EXCEPT !.pc = "check", !.id = NoId]
        BY <1>2, <3>3 DEF UndoRename, RemoveTrash, NextItem
      <4> QED
        BY <2>1, <3>3, <4>1 DEF UndoRename, RemoveTrash, Deleting
    <3> QED
      BY <3>1, <3>2, <3>3
  <2>3. \A v \in versions : v.id # lock.id => v \in versions'
    BY DEF CheckVersion, SetAside, Recheck, DeleteRow, UndoRename, RemoveTrash, tables
  <2>4. Spared \subseteq Spared'
    <3> SUFFICES ASSUME NEW v \in Spared PROVE v \in Spared'
      OBVIOUS
    <3>1. v \in VersionsOf(lock.owner) /\ v.id \in Id /\ \A i \in lock.todo \union {lock.id} : i < v.id
      BY DEF Spared, VersionsOf, TypeOK
    <3>2. v.id # lock.id /\ NoId < v.id
      BY <2>1, <3>1
    <3>3. \A i \in lock'.todo \union {lock'.id} : i < v.id
      BY <2>2, <3>1, <3>2
    <3> QED
      BY <2>2, <2>3, <3>1, <3>2, <3>3 DEF Spared, VersionsOf
  <2>5. IsFiniteSet(Spared') /\ Cardinality(Spared') \in Nat
    <3>1. (\A v \in versions' : v.id \in Id) /\ \A v, w \in versions' : v.id = w.id => v = w
      BY DEF TypeOK, RowsNumbered
    <3>2. Spared' \in SUBSET versions'
      BY DEF Spared, VersionsOf
    <3> QED
      BY <3>1, <3>2, RowsFinite
  <2>6. Cardinality(Spared) \in Nat
    <3>1. (\A v \in versions : v.id \in Id) /\ \A v, w \in versions : v.id = w.id => v = w
      BY DEF TypeOK, RowsNumbered
    <3>2. Spared \in SUBSET versions
      BY DEF Spared, VersionsOf
    <3> QED
      BY <3>1, <3>2, RowsFinite
  <2>7. Cardinality(Spared) <= Cardinality(Spared')
    BY <2>4, <2>5, FS_Subset
  <2>8. PruningSpares => (lock.op = "upload" => Cardinality(Spared) >= Retain)
    BY <2>2 DEF PruningSpares
  <2>9. lock'.op = "upload" => Cardinality(Spared') >= Retain
    BY <2>2, <2>5, <2>6, <2>7, <2>8
  <2> QED
    BY <2>2, <2>9 DEF PruningSpares
<1> QED
  BY <1>1, <1>2

\* Every step keeps what pruning spares: nobody else touches the rows while
\* the writer has the lock, and every other writer begins without a list.
LEMMA NextSpares == LibraryInv /\ PruningSpares /\ [Next]_vars => PruningSpares'
<1> SUFFICES ASSUME LibraryInv, PruningSpares, [Next]_vars PROVE PruningSpares'
  OBVIOUS
<1>1. LibraryInv'
  BY NextKeepsLibrary
<1>2. CASE lock' = Free \/ lock'.op \in {"delete", "drop"} \/ lock'.pc \in {"save", "prune", "clean"}
  BY <1>2 DEF PruningSpares, Deleting, Free, None
<1>3. CASE UNCHANGED <<lock, versions>>
  BY <1>3 DEF PruningSpares, Deleting, Spared, VersionsOf
<1>4. CASE PruneVersions
  BY <1>4, PruneSpares
<1>5. CASE CheckVersion \/ Recheck \/ DeleteRow \/ UndoRename \/ RemoveTrash
  BY <1>1, <1>5, DeletionSpares DEF LibraryInv
<1>6. CASE SavePackageVersion \/ SaveFails
  <2>1. lock'.pc = "prune" \/ lock' = Free
    BY <1>6 DEF SavePackageVersion, SaveFails, To, Unlock, LibraryInv, TypeOK
  <2> QED
    BY <1>2, <2>1
<1>7. CASE DropRows \/ RemoveFile
  <2>1. lock'.pc = "clean" \/ lock' = Free
    BY <1>7 DEF DropRows, RemoveFile, To, Unlock, LibraryInv, TypeOK
  <2> QED
    BY <1>2, <2>1
<1>8. CASE Request
  <2>1. PICK o \in Owner :
          \/ \E c \in Content : Upload(o, c)
          \/ \E id \in Id : DeleteVersion(o, id) \/ ActivateVersion(o, id)
          \/ DeletePackage(o)
          \/ \E t \in Owner : TransferOwner(o, t)
    BY <1>8 DEF Request
  <2>2. CASE \E c \in Content : Upload(o, c)
    <3>1. lock'.pc = "save"
      BY <2>2 DEF Upload, Place, Free
    <3> QED
      BY <1>2, <3>1
  <2>3. CASE \E id \in Id : DeleteVersion(o, id)
    <3>1. lock'.op = "delete"
      BY <2>3 DEF DeleteVersion, Free
    <3> QED
      BY <1>2, <3>1
  <2>4. CASE DeletePackage(o)
    <3>1. lock'.op = "drop"
      BY <2>4 DEF DeletePackage, BeginDeletePackage, Free
    <3> QED
      BY <1>2, <3>1
  <2>5. CASE \/ \E id \in Id : ActivateVersion(o, id)
             \/ \E t \in Owner : TransferOwner(o, t)
    <3>1. lock' = Free
      BY <2>5 DEF ActivateVersion, TransferOwner
    <3> QED
      BY <1>2, <3>1
  <2> QED
    BY <2>1, <2>2, <2>3, <2>4, <2>5
<1>9. CASE Installation
  BY <1>3, <1>9 DEF Installation, SnapshotForOwner, MarkInstalled, InstallFails,
                    SyncInstalled, MarkUninstalled, RewriteRow, tables
<1>10. CASE Crash
  BY <1>2, <1>10 DEF Crash
<1>11. CASE UNCHANGED vars
  BY <1>3, <1>11 DEF vars, tables
<1> QED
  BY <1>4, <1>5, <1>6, <1>7, <1>8, <1>9, <1>10, <1>11 DEF Next, Writer

\* A version that an upload deletes has at least Retain newer ones: the list is
\* made once, by the count, and what was counted outlives what was listed.
THEOREM PruningKeepsNewest == Spec => PruneKeepsNewest
<1> DEFINE A == lock.op = "upload" =>
                  \A v \in versions \ versions' : Cardinality(Newer(v)) >= Retain
<1>1. Init => PruningSpares
  BY DEF Init, PruningSpares, Free, None
<1>2. LibraryInv /\ PruningSpares /\ [Next]_vars => [A]_vars
  <2> SUFFICES ASSUME LibraryInv, PruningSpares, [Next]_vars, lock.op = "upload",
                      NEW v \in versions \ versions'
               PROVE  Cardinality(Newer(v)) >= Retain
    OBVIOUS
  <2> USE DEF LibraryInv
  <2>1. DeleteRow
    <3>1. lock # Free
      BY DEF Free, None
    <3>2. ~DropRows
      BY DEF DropRows, PruningSpares
    <3>3. ~Request
      BY <3>1 DEF Request, Upload, Place, DeleteVersion, ActivateVersion, DeletePackage,
                  BeginDeletePackage, TransferOwner, tables
    <3> QED
      BY <3>2, <3>3 DEF Next, Writer, SavePackageVersion, SaveFails, PruneVersions, CheckVersion,
         SetAside, Recheck, UndoRename, RemoveTrash, RemoveFile, Installation,
         SnapshotForOwner, MarkInstalled, InstallFails, SyncInstalled, MarkUninstalled,
         RewriteRow, Crash, vars, tables
  <2>2. v.id = lock.id /\ lock.pc = "delete" /\ v.owner = lock.owner
    BY <2>1 DEF DeleteRow, WriterKnows
  <2>3. Cardinality(Spared) >= Retain
    BY <2>2 DEF PruningSpares, Deleting
  <2>4. Spared \subseteq Newer(v) /\ Newer(v) \in SUBSET versions
    <3> SUFFICES ASSUME NEW w \in Spared PROVE w \in Newer(v)
      BY DEF Newer, VersionsOf
    <3>1. w \in VersionsOf(v.owner) /\ v.id < w.id
      BY <2>2 DEF Spared
    <3>2. v.id \in Nat /\ w.id \in Nat
      BY <3>1 DEF VersionsOf, TypeOK
    <3> QED
      BY <3>1, <3>2 DEF Newer
  <2>5. /\ IsFiniteSet(Newer(v)) /\ Cardinality(Newer(v)) \in Nat
        /\ Cardinality(Spared) \in Nat
    <3>1. (\A w \in versions : w.id \in Id) /\ \A w, x \in versions : w.id = x.id => w = x
      BY DEF TypeOK, RowsNumbered
    <3>2. Spared \in SUBSET versions
      BY DEF Spared, VersionsOf
    <3> QED
      BY <2>4, <3>1, <3>2, RowsFinite
  <2>6. Cardinality(Spared) <= Cardinality(Newer(v))
    BY <2>4, <2>5, FS_Subset
  <2> QED
    BY <2>3, <2>5, <2>6
<1> HIDE DEF A
<1>3. Spec => [][A]_vars
  BY <1>1, <1>2, NextSpares, LibraryInvariant, PTL DEF Spec
<1> QED
  BY <1>3 DEF PruneKeepsNewest, A
=============================================================================
