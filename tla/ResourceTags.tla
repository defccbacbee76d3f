---------------------------- MODULE ResourceTags ----------------------------
(***************************************************************************)
(* Environments, the tags of accounts and the links between them           *)
(* (store/tags.go, the environments in store/store.go, TransferResources   *)
(* in store/admin.go) under the requests that write them                   *)
(* (application/environments.go, httpapi/tags_http.go).                    *)
(*                                                                         *)
(* A name is a group and a value, which compare without case; a place is   *)
(* an address and a service type.  One step is one transaction; an edit    *)
(* reads the environment in one and writes in another.  What the schema    *)
(* enforces (unique indexes, foreign keys, the trigger) is a guard.        *)
(***************************************************************************)
EXTENDS Functions

CONSTANTS
  Account, Environment, Tag,  \* with their identifiers, which are not reused
  Name, Place, Request,
  None          \* no account, no name, no place

ASSUME NoneAssumption == None \notin Account \cup Name \cup Place

VARIABLES
  users,
  row,          \* environments: owner_id, and the place
  tag,          \* resource_tags: owner_id, name, deleted_at IS NULL
  link,         \* environment_tags
  used,         \* identifiers that were given out
  req           \* requests that edit, between reading and writing

vars == <<users, row, tag, link, used, req>>

NoRow == [owner |-> None, place |-> None]
NoTag == [owner |-> None, name |-> None, live |-> FALSE]
Idle  == [kind |-> "idle"]

Init ==
  /\ users = Account
  /\ row = [e \in Environment |-> NoRow] /\ tag = [t \in Tag |-> NoTag]
  /\ link = {} /\ used = {}
  /\ req = [r \in Request |-> Idle]

Live(a) == {t \in Tag : tag[t].live /\ tag[t].owner = a}
Called(a, n) == {t \in Live(a) : tag[t].name = n}
Owned(a) == {e \in Environment : row[e].owner = a}
Vacant(a, p, e) == \A f \in Owned(a) : row[f].place = p => f = e
There(e) == row[e].owner # None

(* Tags *)

CreateResourceTag(a, n) ==
  /\ a \in users /\ Called(a, n) = {}
  /\ \E t \in Tag \ used :
       /\ tag' = [tag EXCEPT ![t] = [owner |-> a, name |-> n, live |-> TRUE]]
       /\ used' = used \cup {t}
  /\ UNCHANGED <<users, row, link, req>>

UpdateResourceTag(t, n) ==
  /\ tag[t].live /\ Called(tag[t].owner, n) \subseteq {t}
  /\ tag' = [tag EXCEPT ![t].name = n]
  /\ UNCHANGED <<users, row, link, used, req>>

\* The row stays for the history, without a link.
DeleteResourceTag(t) ==
  /\ tag[t].live /\ tag' = [tag EXCEPT ![t].live = FALSE]
  /\ link' = {l \in link : l[2] # t}
  /\ UNCHANGED <<users, row, used, req>>

(* Environments *)

\* ValidateTagIDs, and the same questions within the transaction.
Valid(a, T) == T \subseteq Live(a)

\* environment_tags_same_owner_insert
AnyOwner(e, T) == TRUE    \* (Mutation: no trigger.)
SameOwner(e, T) == \A t \in T : tag[t].owner = row[e].owner

Relink(E, L) == link' = {l \in link : l[1] \notin E} \cup L

CreateEnvironmentWithTags(a, p, T) ==
  /\ a \in users /\ Valid(a, T)
  /\ \E e \in Environment \ used :
       /\ Vacant(a, p, e)
       /\ row' = [row EXCEPT ![e] = [owner |-> a, place |-> p]]
       /\ used' = used \cup {e} /\ Relink({e}, {e} \X T)
  /\ UNCHANGED <<users, tag, req>>

\* Update and replaceEnvironmentTags begin by reading the environment.  An
\* edit whose tag_ids are absent leaves the tags alone.
Begin(r, kind, e, p, T) ==
  /\ req[r] = Idle /\ There(e) /\ Valid(row[e].owner, T)
  /\ kind = "edit" => T = {}
  /\ kind = "tags" => p = row[e].place
  /\ req' = [req EXCEPT ![r] = [kind |-> kind, env |-> e, owner |-> row[e].owner,
                                place |-> p, tags |-> T]]
  /\ UNCHANGED <<users, row, tag, link, used>>

Answer(r) == req' = [req EXCEPT ![r] = Idle] /\ UNCHANGED <<users, tag, used>>

\* The tags are compared with the owner that was read, the place with the one
\* that the row has by now.
UpdateEnvironmentWithTags(r) ==
  LET e == req[r].env  T == req[r].tags  p == req[r].place IN
  /\ req[r].kind \in {"edit", "edit tags"} /\ There(e)
  /\ Vacant(row[e].owner, p, e) /\ row' = [row EXCEPT ![e].place = p]
  /\ \/ req[r].kind = "edit" /\ UNCHANGED link
     \/ /\ req[r].kind = "edit tags" /\ Valid(req[r].owner, T) /\ SameOwner(e, T)
        /\ Relink({e}, {e} \X T)
  /\ Answer(r)

ReplaceEnvironmentTags(r) ==
  LET e == req[r].env  T == req[r].tags IN
  /\ req[r].kind = "tags" /\ There(e) /\ Valid(row[e].owner, T)
  /\ Relink({e}, {e} \X T)
  /\ UNCHANGED row /\ Answer(r)

\* Any refusal, an error of the store, or the caller who went away.
Refuse(r) == req[r] # Idle /\ UNCHANGED <<row, link>> /\ Answer(r)

\* For every name the tag that the account has, or a new one.
Resolve(a, names) ==
  {f \in Injection(names, Tag) :
     \A n \in names : f[n] \in Called(a, n) \/ (Called(a, n) = {} /\ f[n] \notin used)}

AddTags(a, f) ==
  tag' = [t \in Tag |->
    IF t \in Range(f)
    THEN [owner |-> a, name |-> CHOOSE n \in DOMAIN f : f[n] = t, live |-> TRUE]
    ELSE tag[t]]

\* For every place the environment that the account has there, or a new one.
Targets(a, places) ==
  {at \in Injection(places, Environment) :
     \A p \in places :
       \/ at[p] \in Owned(a) /\ row[at[p]].place = p
       \/ at[p] \notin used /\ \A e \in Owned(a) : row[e].place # p}

Upsert(a, at) ==
  row' = [e \in Environment |->
    IF e \in Range(at)
    THEN [owner |-> a, place |-> CHOOSE p \in DOMAIN at : at[p] = e]
    ELSE row[e]]

\* UpsertImportedEnvironments.  A document of schema v1 has no names.
Import(a, document) ==
  LET places == DOMAIN document
      names  == UNION {document[p] : p \in places} IN
  /\ a \in users
  /\ \E at \in Targets(a, places), f \in Resolve(a, names) :
       /\ Upsert(a, at) /\ AddTags(a, f) /\ used' = used \cup Range(at) \cup Range(f)
       /\ Relink(Range(at), {l \in Range(at) \X Range(f) :
            \E p \in places : l[1] = at[p] /\ \E n \in document[p] : l[2] = f[n]})
  /\ UNCHANGED <<users, req>>

\* The environments change hands and are linked to the receiver's tags of the
\* same names; the tags of the giver stay.
TransferResources(a, b) ==
  LET moved == {l \in link : row[l[1]].owner = a}
      names == {tag[l[2]].name : l \in moved} IN
  /\ a # b /\ a \in users /\ b \in users
  /\ \A e \in Owned(a), g \in Owned(b) : row[e].place # row[g].place
  /\ row' = [e \in Environment |-> IF row[e].owner = a THEN [row[e] EXCEPT !.owner = b] ELSE row[e]]
  /\ \E f \in Resolve(b, names) :
       /\ AddTags(b, f) /\ used' = used \cup Range(f)
       /\ link' = (link \ moved) \cup {<<l[1], f[tag[l[2]].name]>> : l \in moved}
  /\ UNCHANGED <<users, req>>

DeleteEnvironment(e) ==
  /\ There(e) /\ row' = [row EXCEPT ![e] = NoRow]
  /\ link' = {l \in link : l[1] # e}
  /\ UNCHANGED <<users, tag, used, req>>

\* (Mutation: no transaction around the two statements.)
DeleteUserInTwo(a) ==
  /\ a \in users /\ users' = (IF Owned(a) = {} THEN users \ {a} ELSE users)
  /\ tag' = [t \in Tag |-> IF tag[t].owner = a THEN NoTag ELSE tag[t]]
  /\ link' = {l \in link : tag[l[2]].owner # a}
  /\ UNCHANGED <<row, used, req>>

\* The foreign key of environments refuses, and the tags are kept.
DeleteUser(a) ==
  /\ a \in users /\ Owned(a) = {} /\ users' = users \ {a}
  /\ tag' = [t \in Tag |-> IF tag[t].owner = a THEN NoTag ELSE tag[t]]
  /\ link' = {l \in link : tag[l[2]].owner # a}
  /\ UNCHANGED <<row, used, req>>

Documents == UNION {[S -> SUBSET Name] : S \in (SUBSET Place) \ {{}}}

Next ==
  \/ \E a \in Account, n \in Name : CreateResourceTag(a, n)
  \/ \E t \in Tag : DeleteResourceTag(t) \/ \E n \in Name : UpdateResourceTag(t, n)
  \/ \E a \in Account, p \in Place, T \in SUBSET Tag : CreateEnvironmentWithTags(a, p, T)
  \/ \E r \in Request, kind \in {"edit", "edit tags", "tags"}, e \in Environment,
        p \in Place, T \in SUBSET Tag : Begin(r, kind, e, p, T)
  \/ \E r \in Request :
       UpdateEnvironmentWithTags(r) \/ ReplaceEnvironmentTags(r) \/ Refuse(r)
  \/ \E a \in Account, document \in Documents : Import(a, document)
  \/ \E a, b \in Account : TransferResources(a, b)
  \/ \E e \in Environment : DeleteEnvironment(e)
  \/ \E a \in Account : DeleteUser(a)

Spec == Init /\ [][Next]_vars

-----------------------------------------------------------------------------
(* Properties *)

\* A link joins an environment and a live tag of one account, whatever was
\* transferred, deleted or edited between the reading of an environment and
\* the writing of its tags.  Only the trigger stops an edit that was validated
\* against the former owner.
LinksAgree ==
  \A l \in link : There(l[1]) /\ tag[l[2]].live /\ tag[l[2]].owner = row[l[1]].owner

\* Links, soft deletion and the search for an equivalent tag implement names
\* that environments wear: transfers keep them, renaming merges none, and what
\* is done for one account changes nothing of another's.
NamesOf == [a \in Account |-> {tag[t].name : t \in Live(a)}]
OwnerOf == [e \in Environment |-> row[e].owner]
WornBy  == [e \in Environment |-> {tag[l[2]].name : l \in {k \in link : k[1] = e}}]

Catalogue == INSTANCE TagCatalogue WITH
  catalogue <- NamesOf, held <- OwnerOf, labels <- WornBy
CatalogueSpec == Catalogue!Spec

-----------------------------------------------------------------------------
(* The inductive invariant *)

Row == [owner : Account \cup {None}, place : Place \cup {None}]

TypeOK ==
  /\ users \subseteq Account /\ row \in [Environment -> Row]
  /\ tag \in [Tag -> [owner : Account \cup {None}, name : Name \cup {None}, live : BOOLEAN]]
  /\ link \subseteq Environment \X Tag
  /\ used \subseteq Environment \cup Tag
  /\ req \in [Request -> {Idle} \cup
       [kind : {"edit", "edit tags", "tags"}, env : Environment, owner : Account,
        place : Place, tags : SUBSET Tag]]

\* Live tags of one account have different names, which are names.
NamesDistinct ==
  /\ \A t \in Tag : tag[t].live => tag[t].owner \in Account /\ tag[t].name \in Name
  /\ \A s, t \in Tag :
       tag[s].live /\ tag[t].live /\ tag[s].owner = tag[t].owner /\ tag[s].name = tag[t].name
         => s = t

\* Identifiers that were not given out belong to nothing.
Unused ==
  /\ \A t \in Tag \ used : ~tag[t].live
  /\ \A e \in Environment \ used : ~There(e)

TagsInv == TypeOK /\ LinksAgree /\ NamesDistinct /\ Unused

=============================================================================
