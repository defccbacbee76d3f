--------------------------- MODULE PackageLibrary ---------------------------
(***************************************************************************)
(* internal/archive and the tables packages and package_versions: uploads, *)
(* activation, deletion, pruning and transfer of the package versions of   *)
(* one service type, next to the installs that take a snapshot and later   *)
(* refer to a version by its digest.                                       *)
(*                                                                         *)
(* Versions live in two systems, a row and a file, and a process may die   *)
(* between them.  Manager.mu is held by one writer; lock is that writer,   *)
(* between two of its transactions or file operations.  A content stands   *)
(* for the digest of it.                                                   *)
(***************************************************************************)
EXTENDS Naturals, FiniteSets

CONSTANTS
  Owner, Env, Content,
  Yaml,         \* contents with a YAML configuration; the others have JSON
  Retain,       \* DP_PACKAGE_VERSION_RETENTION
  MaxVersions   \* bound: versions are numbered 1..MaxVersions

ASSUME YamlAssumption        == Yaml \subseteq Content
ASSUME RetainAssumption      == Retain \in Nat \ {0}
ASSUME MaxVersionsAssumption == MaxVersions \in Nat

VARIABLES
  current,      \* table packages: current_version_id
  versions,     \* table package_versions
  nextId,
  file, trash,  \* versions with a file in place, with a file set aside
  envOwner, used, \* of environments: owner, installed_package_sha256
  snapshot,     \* what the install of e was given
  lock,
  torn,         \* history: versions whose file operations were cut short
  raced         \* history: see DeletedBehind

tables   == <<current, versions>>
files    == <<file, trash>>
installs == <<envOwner, used, snapshot>>
vars     == <<tables, nextId, files, installs, lock, torn, raced>>

Id   == 1..MaxVersions
NoId == 0
None == "none"
Free == [pc |-> "free", op |-> None, owner |-> None, id |-> NoId,
         content |-> None, todo |-> {}]

Init ==
  /\ current = [o \in Owner |-> NoId] /\ versions = {} /\ nextId = 1
  /\ file = {} /\ trash = {}
  /\ envOwner \in [Env -> Owner]
  /\ used = [e \in Env |-> None] /\ snapshot = [e \in Env |-> None]
  /\ lock = Free
  /\ torn = {} /\ raced = {}

VersionsOf(o)  == {v \in versions : v.owner = o}
ContentOf(id)  == (CHOOSE v \in versions : v.id = id).content
Format(id)     == ContentOf(id) \in Yaml
Newer(v)       == {w \in VersionsOf(v.owner) : w.id > v.id}
InstalledBy(o) == {e \in Env : envOwner[e] = o /\ used[e] # None}
Referenced(v)  == \E e \in InstalledBy(v.owner) : used[e] = v.content

Unlock      == lock' = Free
To(pc)      == lock' = [lock EXCEPT !.pc = pc]
Tear(ids)   == torn' = torn \union ids

(***************************************************************************)
(* An install in flight holds a copy, not a reference: its environment is  *)
(* referred to only by MarkInstalled, which may come right after a         *)
(* deletion has counted.  raced are the environments that were installing  *)
(* when something of their owner was deleted, and those whose digest came  *)
(* from elsewhere, until they install again.                               *)
(***************************************************************************)
DeletedBehind(o) == raced' = raced \union {e \in Env : envOwner[e] = o /\ snapshot[e] # None}

-----------------------------------------------------------------------------
(***************************************************************************)
(* UploadVersionForOwner, after the upload was validated.                  *)
(***************************************************************************)

Place(o, c) ==
  /\ lock = Free
  /\ nextId \in Id
  /\ file' = file \union {nextId}
  /\ nextId' = nextId + 1
  /\ lock' = [Free EXCEPT !.pc = "save", !.op = "upload", !.owner = o, !.id = nextId, !.content = c]
  /\ UNCHANGED <<tables, trash, installs, torn, raced>>

\* The current file is inspected and must have the same kind of configuration.
\* (Mutation: anything is accepted.)
UploadAny(o, c) == Place(o, c)
Upload(o, c) ==
  /\ current[o] # NoId => current[o] \in file /\ Format(current[o]) = (c \in Yaml)
  /\ Place(o, c)

\* One transaction; a digest is stored once per owner and type.
SavePackageVersion ==
  LET o == lock.owner  v == [id |-> lock.id, owner |-> o, content |-> lock.content] IN
  /\ lock.pc = "save"
  /\ \A w \in VersionsOf(o) : w.content # v.content
  /\ versions' = versions \union {v}
  /\ current' = [current EXCEPT ![o] = v.id]
  /\ To("prune")
  /\ UNCHANGED <<nextId, files, installs, torn, raced>>

\* The digest exists, or the store fails: the new file is removed, if that
\* succeeds.  (Mutation: it stays.)
SaveFailsAndStays ==
  /\ lock.pc = "save"
  /\ Unlock
  /\ UNCHANGED <<tables, nextId, files, installs, torn, raced>>
SaveFails ==
  /\ lock.pc = "save"
  /\ \/ file' = file \ {lock.id} /\ UNCHANGED torn
     \/ Tear({lock.id}) /\ UNCHANGED file
  /\ Unlock
  /\ UNCHANGED <<tables, nextId, trash, installs, raced>>

\* PrunablePackageVersions: beyond the newest Retain, neither current nor
\* referenced.  (Mutation: off by one.)
Beyond(o, n) == {v \in VersionsOf(o) :
                   Cardinality(Newer(v)) >= n /\ v.id # current[o] /\ ~Referenced(v)}
BeyondOneLess(o) == Beyond(o, Retain - 1)
Prunable(o)      == Beyond(o, Retain)

PruneVersions ==
  /\ lock.pc = "prune"
  /\ \/ /\ Prunable(lock.owner) # {}
        /\ lock' = [lock EXCEPT !.pc = "check", !.id = NoId,
                                !.todo = {v.id : v \in Prunable(lock.owner)}]
     \/ Unlock             \* nothing to do, or the list could not be read
  /\ UNCHANGED <<tables, nextId, files, installs, torn, raced>>

-----------------------------------------------------------------------------
(***************************************************************************)
(* deleteVersionLocked, for DeleteVersion and for each version to prune.   *)
(***************************************************************************)

DeleteVersion(o, id) ==
  /\ lock = Free
  /\ lock' = [Free EXCEPT !.pc = "check", !.op = "delete", !.owner = o, !.todo = {id}]
  /\ UNCHANGED <<tables, nextId, files, installs, torn, raced>>

Rows(o)   == {v.id : v \in VersionsOf(o)}
Deletable == {v.id : v \in {w \in VersionsOf(lock.owner) :
                               w.id # current[w.owner] /\ ~Referenced(w)}}

\* One of them is checked and its file renamed; a file that is gone already
\* does not matter.  One that may not be deleted, or whose file cannot be
\* renamed, is passed over.  (Mutations: the file is removed at once; the
\* current version is not excepted.)
SetAside(deletable, kept) ==
  /\ lock.pc = "check"
  /\ \E id \in lock.todo :
       \/ /\ id \in deletable
          /\ file' = file \ {id}
          /\ trash' = trash \union ({id} \intersect kept)
          /\ lock' = [lock EXCEPT !.pc = "recheck", !.id = id, !.todo = @ \ {id}]
       \/ /\ lock' = IF lock.todo = {id} THEN Free ELSE [lock EXCEPT !.todo = @ \ {id}]
          /\ UNCHANGED files
  /\ UNCHANGED <<tables, nextId, installs, torn, raced>>
CheckAndRemove  == SetAside(Deletable, {})
CheckCurrentToo == SetAside(Rows(lock.owner), file)
CheckVersion    == SetAside(Deletable, file)

NextItem == lock' = IF lock.todo = {} THEN Free ELSE [lock EXCEPT !.pc = "check", !.id = NoId]

\* DeletePackageVersion asks again before it deletes.
Recheck ==
  /\ lock.pc = "recheck"
  /\ \/ lock.id \in Deletable /\ To("delete") /\ DeletedBehind(lock.owner)
     \/ To("undo") /\ UNCHANGED raced
  /\ UNCHANGED <<tables, nextId, files, installs, torn>>

DeleteRow ==
  /\ lock.pc = "delete"
  /\ \/ /\ versions' = {v \in versions : v.id # lock.id}
        /\ To("remove")
     \/ To("undo") /\ UNCHANGED versions
  /\ UNCHANGED <<current, nextId, files, installs, torn, raced>>

\* The row stays: the file is renamed back, if that succeeds.
UndoRename ==
  /\ lock.pc = "undo"
  /\ \/ /\ file' = file \union ({lock.id} \intersect trash)
        /\ trash' = trash \ {lock.id}
        /\ UNCHANGED torn
     \/ UNCHANGED files /\ Tear({lock.id})
  /\ NextItem
  /\ UNCHANGED <<tables, nextId, installs, raced>>

RemoveTrash ==
  /\ lock.pc = "remove"
  /\ \/ trash' = trash \ {lock.id} /\ UNCHANGED torn
     \/ Tear({lock.id}) /\ UNCHANGED trash
  /\ NextItem
  /\ UNCHANGED <<tables, nextId, file, installs, raced>>

-----------------------------------------------------------------------------
(***************************************************************************)
(* DeleteForOwner, ActivateVersion, TransferOwner.                         *)
(***************************************************************************)

\* The versions are listed and the installed environments counted.  (The
\* mutation does not count.)
BeginDeletePackage(o) ==
  /\ lock = Free
  /\ current[o] # NoId
  /\ lock' = [Free EXCEPT !.pc = "drop", !.op = "drop", !.owner = o, !.todo = Rows(o)]
  /\ DeletedBehind(o)
  /\ UNCHANGED <<tables, nextId, files, installs, torn>>
DeleteUncounted(o) == BeginDeletePackage(o)
DeletePackage(o)   == InstalledBy(o) = {} /\ BeginDeletePackage(o)

\* DeletePackageByOwner: both tables in one transaction.
DropRows ==
  LET o == lock.owner IN
  /\ lock.pc = "drop"
  /\ \/ /\ current' = [current EXCEPT ![o] = NoId]
        /\ versions' = versions \ VersionsOf(o)
        /\ To("clean")
     \/ Unlock /\ UNCHANGED tables
  /\ UNCHANGED <<nextId, files, installs, torn, raced>>

RemoveFile ==
  /\ lock.pc = "clean"
  /\ \E id \in lock.todo :
       /\ \/ file' = file \ {id} /\ UNCHANGED torn
          \/ Tear({id}) /\ UNCHANGED file
       /\ lock' = IF lock.todo = {id} THEN Free ELSE [lock EXCEPT !.todo = @ \ {id}]
  /\ UNCHANGED <<tables, nextId, trash, installs, raced>>

ActivateVersion(o, id) ==
  /\ lock = Free
  /\ current[o] # NoId
  /\ id \in Rows(o) \ {current[o]}
  /\ {current[o], id} \subseteq file
  /\ Format(id) = Format(current[o])
  /\ current' = [current EXCEPT ![o] = id]
  /\ UNCHANGED <<versions, nextId, files, installs, lock, torn, raced>>

\* TransferResources on packages, versions and environments; refused while
\* an operation of the source is open or both have the package.
TransferOwner(s, t) ==
  /\ lock = Free
  /\ s # t
  /\ \A e \in Env : envOwner[e] = s => snapshot[e] = None
  /\ current[s] = NoId \/ current[t] = NoId
  /\ current' = IF current[s] = NoId THEN current
                ELSE [current EXCEPT ![t] = current[s], ![s] = NoId]
  /\ versions' = {IF v.owner = s THEN [v EXCEPT !.owner = t] ELSE v : v \in versions}
  /\ envOwner' = [e \in Env |-> IF envOwner[e] = s THEN t ELSE envOwner[e]]
  /\ UNCHANGED <<nextId, files, used, snapshot, lock, torn, raced>>

-----------------------------------------------------------------------------
(***************************************************************************)
(* Installs, resets, the process.                                          *)
(***************************************************************************)

\* The current file is copied under the read lock.
SnapshotForOwner(e) ==
  /\ lock = Free
  /\ used[e] = None /\ snapshot[e] = None
  /\ current[envOwner[e]] \in file
  /\ snapshot' = [snapshot EXCEPT ![e] = ContentOf(current[envOwner[e]])]
  /\ raced' = raced \ {e}
  /\ UNCHANGED <<tables, nextId, files, envOwner, used, lock, torn>>

EndInstall(e) == snapshot' = [snapshot EXCEPT ![e] = None]

MarkInstalled(e) ==
  /\ snapshot[e] # None
  /\ used' = [used EXCEPT ![e] = snapshot[e]]
  /\ EndInstall(e)
  /\ UNCHANGED <<tables, nextId, files, envOwner, lock, torn, raced>>

InstallFails(e) ==
  /\ snapshot[e] # None
  /\ EndInstall(e)
  /\ UNCHANGED <<tables, nextId, files, envOwner, used, lock, torn, raced>>

\* The marker on the server says what it was installed with, which may be
\* long gone here; one without a digest is taken for the package at hand.
SyncInstalled(e) ==
  /\ snapshot[e] # None
  /\ \E c \in Content : used' = [used EXCEPT ![e] = c]
  /\ raced' = raced \union {e}
  /\ EndInstall(e)
  /\ UNCHANGED <<tables, nextId, files, envOwner, lock, torn>>

\* A reset; it has the slot of the environment, as the install has.
MarkUninstalled(e) ==
  /\ used[e] # None /\ snapshot[e] = None
  /\ used' = [used EXCEPT ![e] = None]
  /\ raced' = raced \ {e}
  /\ UNCHANGED <<tables, nextId, files, envOwner, snapshot, lock, torn>>

\* An edit writes back the digest it read, an import the one it was given; no
\* slot keeps either from overtaking an install, a reset or a deletion.
RewriteRow(e) ==
  /\ \E c \in (Content \union {None}) \ {used[e]} : used' = [used EXCEPT ![e] = c]
  /\ raced' = raced \union {e}
  /\ UNCHANGED <<tables, nextId, files, envOwner, snapshot, lock, torn>>

Crash ==
  /\ lock # Free \/ \E e \in Env : snapshot[e] # None
  /\ lock' = Free
  /\ snapshot' = [e \in Env |-> None]
  /\ Tear(({lock.id} \ {NoId}) \union IF lock.pc = "clean" THEN lock.todo ELSE {})
  /\ UNCHANGED <<tables, nextId, files, envOwner, used, raced>>

-----------------------------------------------------------------------------
Writer ==
  \/ SavePackageVersion \/ SaveFails \/ PruneVersions
  \/ CheckVersion \/ Recheck \/ DeleteRow \/ UndoRename \/ RemoveTrash
  \/ DropRows \/ RemoveFile

Request ==
  \E o \in Owner :
    \/ \E c \in Content : Upload(o, c)
    \/ \E id \in Id : DeleteVersion(o, id) \/ ActivateVersion(o, id)
    \/ DeletePackage(o)
    \/ \E t \in Owner : TransferOwner(o, t)

Installation ==
  \E e \in Env : \/ SnapshotForOwner(e) \/ MarkInstalled(e) \/ InstallFails(e)
                 \/ SyncInstalled(e) \/ MarkUninstalled(e) \/ RewriteRow(e)

Next == Writer \/ Request \/ Installation \/ Crash

Spec == Init /\ [][Next]_vars

-----------------------------------------------------------------------------
\* Every variable has its type: both tables, the files of data/packages, the
\* digests of environments, the writer that holds Manager.mu.
TypeOK ==
  /\ current \in [Owner -> Id \union {NoId}]
  /\ versions \subseteq [id: Id, owner: Owner, content: Content]
  /\ nextId \in 1..(MaxVersions + 1)
  /\ file \subseteq Id /\ trash \subseteq Id /\ torn \subseteq Id
  /\ envOwner \in [Env -> Owner] /\ raced \subseteq Env
  /\ used \in [Env -> Content \union {None}]
  /\ snapshot \in [Env -> Content \union {None}]
  /\ lock \in [pc: {"free", "save", "prune", "check", "recheck", "delete", "undo",
                     "remove", "drop", "clean"},
                op: {None, "upload", "delete", "drop"}, owner: Owner \union {None},
                id: Id \union {NoId}, content: Content \union {None}, todo: SUBSET Id]

\* The current version of a package is a version of the same owner whose file
\* is in place, also while a writer is at work and after a crash: uploads,
\* installs and configurations that need it never fail for good.
CurrentReadable ==
  \A o \in Owner : current[o] # NoId => current[o] \in Rows(o) \intersect file

\* The file of a row is never lost, whatever fails or crashes: it is in place
\* or set aside (docs/architecture.md 8.1, no row points to a missing file).
RowsHaveFiles == \A v \in versions : v.id \in file \union trash

\* Nothing is left over but what a crash or a failed removal left: at rest
\* the files in place are those of the rows, and none is set aside.
RestIsTidy ==
  lock = Free => /\ file \ torn = {v.id : v \in versions} \ torn
                 /\ trash \subseteq torn

\* What an environment was installed from is kept, through activation,
\* pruning, deletion and transfer, unless it was deleted behind an install or the
\* digest was written by another than that install (docs/architecture.md 6.4:
\* referenced versions may not be deleted).
ReferencedKept ==
  \A e \in Env : used[e] # None /\ e \notin raced =>
    \E v \in VersionsOf(envOwner[e]) : v.content = used[e]

\* Pruning leaves the newest Retain versions alone.
PruneKeepsNewest ==
  [][lock.op = "upload" =>
       \A v \in versions \ versions' : Cardinality(Newer(v)) >= Retain]_vars

\* While a package exists the kind of its configuration never changes, or
\* the configurations saved for its instances would be void.
Kind(e) == LET id == current[envOwner[e]] IN
  IF id = NoId THEN None ELSE IF Format(id) THEN "yaml" ELSE "json"

FormatStays ==
  [][\A e \in Env : Kind(e) # None /\ Kind(e)' # None => Kind(e)' = Kind(e)]_vars

-----------------------------------------------------------------------------
(***************************************************************************)
(* The inductive invariant behind these properties (proofs are in module   *)
(* PackageLibrary_proofs): what the writer knows of the version it works   *)
(* on, and which environments still refer to a row.                        *)
(***************************************************************************)
Deleting == lock.pc \in {"recheck", "delete", "undo", "remove"}

RowsNumbered ==
  /\ \A v \in versions : v.id < nextId
  /\ \A v, w \in versions : v.id = w.id => v = w

WriterKnows ==
  /\ lock.pc # "free" => lock.owner \in Owner
  /\ lock.pc = "save" => lock.content \in Content /\ lock.id \in file
  /\ lock.pc = "save" \/ Deleting => lock.id \in Id /\ lock.id < nextId
  /\ lock.pc \in {"save", "remove"} => \A v \in versions : v.id # lock.id
  /\ lock.pc \in {"recheck", "delete", "undo"} =>
       /\ \A o \in Owner : current[o] # lock.id
       /\ \A v \in versions : v.id = lock.id => v.owner = lock.owner
  /\ lock.pc = "drop" => \A v \in versions : v.id \in lock.todo => v.owner = lock.owner
  /\ lock.pc = "clean" => \A v \in versions : v.id \notin lock.todo

LibraryInv == TypeOK /\ RowsNumbered /\ WriterKnows /\ CurrentReadable /\ RowsHaveFiles

\* Of an environment nothing was deleted behind: it is installed or being
\* installed from a row, and nobody is about to delete that row.
Kept(o, c) == \E v \in VersionsOf(o) : v.content = c

ReferencesInv ==
  \A e \in Env :
    e \notin raced =>
      /\ snapshot[e] # None => used[e] = None
      /\ used[e] # None => Kept(envOwner[e], used[e])
      /\ snapshot[e] # None => Kept(envOwner[e], snapshot[e])
      /\ lock.pc = "drop" /\ envOwner[e] = lock.owner =>
           used[e] = None /\ snapshot[e] = None
      /\ lock.pc = "delete" /\ envOwner[e] = lock.owner =>
           /\ snapshot[e] = None
           /\ used[e] # None => \A v \in versions : v.id = lock.id => v.content # used[e]

\* What lies about belongs to the writer at work, or was cut short.
Leftovers ==
  /\ \A i \in trash \ torn : Deleting /\ i = lock.id
  /\ \A i \in file \ torn : \/ \E v \in versions : v.id = i
                            \/ lock.pc = "save" /\ i = lock.id
                            \/ lock.pc = "clean" /\ i \in lock.todo
  /\ Deleting => lock.id \notin file
  /\ lock.pc \in {"recheck", "delete", "undo"} => \E v \in versions : v.id = lock.id
  /\ lock.pc = "drop" => \A v \in VersionsOf(lock.owner) : v.id \in lock.todo

\* As many versions as are retained are newer than all that pruning has yet to
\* delete: the list is made once, and the versions are not counted again.
Spared == {v \in VersionsOf(lock.owner) : \A i \in lock.todo \union {lock.id} : i < v.id}

PruningSpares ==
  lock.op = "upload" =>
    /\ lock.pc # "drop"
    /\ lock.pc = "check" \/ Deleting => Cardinality(Spared) >= Retain

\* An upload under way has the kind of configuration the package has.
KindKnown ==
  lock.pc = "save" /\ current[lock.owner] # NoId =>
    (Format(current[lock.owner]) <=> lock.content \in Yaml)
=============================================================================
