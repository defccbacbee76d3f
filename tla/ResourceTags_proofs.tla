------------------------- MODULE ResourceTags_proofs -------------------------
(***************************************************************************)
(* Proofs about ResourceTags: its inductive invariant, and that it         *)
(* implements TagCatalogue.                                                *)
(***************************************************************************)
EXTENDS ResourceTags, TLAPS

TagRow == [owner : Account \cup {None}, name : Name \cup {None}, live : BOOLEAN]

\* The parts of the invariant that requests have nothing to do with.
Rows ==
  /\ row \in [Environment -> Row] /\ tag \in [Tag -> TagRow]
  /\ link \subseteq Environment \X Tag /\ used \subseteq Environment \cup Tag

\* Nothing exists, so nothing disagrees.
LEMMA InitTags == Init => TagsInv
<1> SUFFICES ASSUME Init PROVE TagsInv
  OBVIOUS
<1>1. TypeOK
  BY DEF Init, TypeOK, NoRow, NoTag, Row
<1>2. LinksAgree /\ NamesDistinct /\ Unused
  BY DEF Init, LinksAgree, NamesDistinct, Unused, NoRow, NoTag, There
<1> QED
  BY <1>1, <1>2 DEF TagsInv

\* The invariant says these things of the tags that an account has.
LEMMA LiveTags ==
  ASSUME TagsInv, NEW t \in Tag, tag[t].live
  PROVE  /\ t \in used /\ tag[t].owner \in Account /\ tag[t].name \in Name
         /\ tag[t] = [owner |-> tag[t].owner, name |-> tag[t].name, live |-> TRUE]
<1>1. tag[t] \in TagRow
  BY DEF TagsInv, TypeOK, TagRow
<1>2. t \in used /\ tag[t].owner \in Account /\ tag[t].name \in Name
  BY DEF TagsInv, Unused, NamesDistinct
<1>3. tag[t].live = TRUE
  BY <1>1 DEF TagRow
<1> QED
  BY <1>1, <1>2, <1>3 DEF TagRow

\* Finding or creating the tags of some names: each name has its tag, no other
\* tag changes, and no tag that was live changes at all.
LEMMA Resolved ==
  ASSUME TagsInv, NEW a \in Account, NEW names \in SUBSET Name,
         NEW f \in Resolve(a, names), AddTags(a, f)
  PROVE  /\ tag' \in [Tag -> TagRow]
         /\ \A n \in names : f[n] \in Tag /\ tag'[f[n]] = [owner |-> a, name |-> n, live |-> TRUE]
         /\ \A t \in Tag : t \notin Range(f) => tag'[t] = tag[t]
         /\ \A t \in Tag : tag[t].live => tag'[t] = tag[t]
         /\ \A t \in Range(f) : \E n \in names : t = f[n]
<1>1. f \in [names -> Tag] /\ \A m, n \in names : f[m] = f[n] => m = n
  BY DEF Resolve, Injection, IsInjective
<1>2. \A t \in Range(f) : \E n \in names : t = f[n]
  BY <1>1 DEF Range
<1>3. \A n \in names : f[n] \in Range(f)
  BY <1>1 DEF Range
<1>4. ASSUME NEW n \in names
      PROVE  f[n] \in Tag /\ tag'[f[n]] = [owner |-> a, name |-> n, live |-> TRUE]
  <2>1. f[n] \in Tag /\ f[n] \in Range(f) /\ DOMAIN f = names
    BY <1>1, <1>3
  <2>2. (CHOOSE m \in names : f[m] = f[n]) = n
    BY <1>1
  <2> QED
    BY <2>1, <2>2 DEF AddTags
<1>5. \A t \in Tag : t \notin Range(f) => tag'[t] = tag[t]
  BY DEF AddTags
<1>6. ASSUME NEW t \in Tag, tag[t].live PROVE tag'[t] = tag[t]
  <2>1. CASE t \notin Range(f)
    BY <1>5, <2>1
  <2>2. CASE t \in Range(f)
    <3>1. PICK n \in names : t = f[n]
      BY <1>2, <2>2
    <3>2. t \in used
      BY <1>6, LiveTags
    <3>3. t \in Called(a, n)
      BY <3>1, <3>2 DEF Resolve
    <3>4. tag[t].owner = a /\ tag[t].name = n
      BY <3>3 DEF Called, Live
    <3>5. tag[t] = [owner |-> a, name |-> n, live |-> TRUE]
      BY <1>6, <3>4, LiveTags
    <3>6. tag'[f[n]] = [owner |-> a, name |-> n, live |-> TRUE]
      BY <1>4
    <3> QED
      BY <3>1, <3>5, <3>6
  <2> QED
    BY <2>1, <2>2
<1>7. tag' \in [Tag -> TagRow]
  <2>1. tag' = [t \in Tag |-> tag'[t]]
    BY DEF AddTags
  <2>2. ASSUME NEW t \in Tag PROVE tag'[t] \in TagRow
    <3>1. CASE t \in Range(f)
      <4>1. PICK n \in names : t = f[n]
        BY <1>2, <3>1
      <4>2. tag'[t] = [owner |-> a, name |-> n, live |-> TRUE] /\ n \in Name
        BY <1>4, <4>1
      <4> QED
        BY <4>2 DEF TagRow
    <3>2. CASE t \notin Range(f)
      BY <1>5, <3>2 DEF TagsInv, TypeOK, TagRow
    <3> QED
      BY <3>1, <3>2
  <2> QED
    BY <2>1, <2>2
<1> QED
  BY <1>2, <1>4, <1>5, <1>6, <1>7

\* The names stay distinct.
LEMMA ResolvedDistinct ==
  ASSUME TagsInv, NEW a \in Account, NEW names \in SUBSET Name,
         NEW f \in Resolve(a, names), AddTags(a, f)
  PROVE  NamesDistinct'
<1>1. /\ \A n \in names : f[n] \in Tag /\ tag'[f[n]] = [owner |-> a, name |-> n, live |-> TRUE]
      /\ \A t \in Tag : t \notin Range(f) => tag'[t] = tag[t]
      /\ \A t \in Tag : tag[t].live => tag'[t] = tag[t]
      /\ \A t \in Range(f) : \E n \in names : t = f[n]
  BY Resolved
<1>0. ASSUME NEW n \in names
      PROVE  f[n] \in Tag /\ tag'[f[n]].owner = a /\ tag'[f[n]].name = n
  <2>1. f[n] \in Tag /\ tag'[f[n]] = [owner |-> a, name |-> n, live |-> TRUE]
    BY <1>1
  <2> QED
    BY <2>1
<1>2. ASSUME NEW t \in Tag, tag'[t].live
      PROVE  tag'[t].owner \in Account /\ tag'[t].name \in Name
  <2>1. CASE t \in Range(f)
    BY <1>0, <1>1, <2>1
  <2>2. CASE t \notin Range(f)
    BY <1>1, <1>2, <2>2 DEF TagsInv, NamesDistinct
  <2> QED
    BY <2>1, <2>2
<1>3. ASSUME NEW s \in Tag, NEW t \in Tag, tag'[s].live, tag'[t].live,
             tag'[s].owner = tag'[t].owner, tag'[s].name = tag'[t].name,
             s \in Range(f)
      PROVE  s = t
  <2>1. PICK n \in names : s = f[n]
    BY <1>1, <1>3
  <2>2. tag'[s].owner = a /\ tag'[s].name = n
    BY <1>0, <2>1
  <2>3. CASE t \in Range(f)
    <3>1. PICK m \in names : t = f[m]
      BY <1>1, <2>3
    <3>2. tag'[t].name = m
      BY <1>0, <3>1
    <3> QED
      BY <1>3, <2>1, <2>2, <3>1, <3>2
  <2>4. CASE t \notin Range(f)
    <3>1. tag[t].live /\ tag[t].owner = a /\ tag[t].name = n
      BY <1>1, <1>3, <2>2, <2>4
    <3>2. t \in Called(a, n)
      BY <3>1 DEF Called, Live
    <3>3. s \in Called(a, n)
      BY <2>1, <3>2 DEF Resolve
    <3> QED
      BY <3>2, <3>3 DEF Called, Live, TagsInv, NamesDistinct
  <2> QED
    BY <2>3, <2>4
<1>4. ASSUME NEW s \in Tag, NEW t \in Tag, s \notin Range(f), t \notin Range(f),
             tag'[s].live, tag'[t].live,
             tag'[s].owner = tag'[t].owner, tag'[s].name = tag'[t].name
      PROVE  s = t
  BY <1>1, <1>4 DEF TagsInv, NamesDistinct
<1> QED
  BY <1>2, <1>3, <1>4 DEF NamesDistinct

-----------------------------------------------------------------------------
(***************************************************************************)
(* Every step keeps the invariant.                                         *)
(***************************************************************************)
\* A new tag: its name is free, its identifier too.
LEMMA CreateTagKeeps ==
  ASSUME TagsInv, NEW a \in Account, NEW n \in Name, CreateResourceTag(a, n)
  PROVE  TagsInv'
<1>1. PICK t \in Tag \ used :
        /\ tag' = [tag EXCEPT ![t] = [owner |-> a, name |-> n, live |-> TRUE]]
        /\ used' = used \cup {t} /\ UNCHANGED <<users, row, link, req>>
  BY DEF CreateResourceTag
<1>2. tag \in [Tag -> TagRow] /\ ~tag[t].live
  BY DEF TagsInv, TypeOK, TagRow, Unused
<1>3. /\ tag'[t].owner = a /\ tag'[t].name = n /\ tag'[t].live
      /\ \A s \in Tag : s # t => tag'[s] = tag[s]
  BY <1>1, <1>2
<1>4. TypeOK'
  BY <1>1, <1>2 DEF TagsInv, TypeOK, TagRow
<1>5. LinksAgree'
  BY <1>1, <1>2, <1>3 DEF TagsInv, TypeOK, LinksAgree, There
<1>6. \A s \in Tag : tag[s].live /\ tag[s].owner = a => tag[s].name # n
  BY DEF CreateResourceTag, Called, Live
<1>7. NamesDistinct'
  BY <1>2, <1>3, <1>6 DEF TagsInv, NamesDistinct
<1>8. Unused'
  BY <1>1, <1>3 DEF TagsInv, Unused, There
<1> QED
  BY <1>4, <1>5, <1>7, <1>8 DEF TagsInv

\* A new name for a tag.
LEMMA RenameKeeps ==
  ASSUME TagsInv, NEW t \in Tag, NEW n \in Name, UpdateResourceTag(t, n)
  PROVE  TagsInv'
<1>1. tag[t].live /\ tag' = [tag EXCEPT ![t].name = n] /\ UNCHANGED <<users, row, link, used, req>>
  BY DEF UpdateResourceTag
<1>2. tag \in [Tag -> TagRow]
  BY DEF TagsInv, TypeOK, TagRow
<1>3. /\ tag'[t].owner = tag[t].owner /\ tag'[t].name = n /\ tag'[t].live
      /\ \A s \in Tag : s # t => tag'[s] = tag[s]
  BY <1>1, <1>2 DEF TagRow
<1>4. TypeOK'
  <2>1. tag' \in [Tag -> TagRow]
    BY <1>1, <1>2 DEF TagRow
  <2> QED
    BY <1>1, <2>1 DEF TagsInv, TypeOK, TagRow
<1>5. LinksAgree'
  <2>1. \A s \in Tag : tag[s].live => tag'[s].live /\ tag'[s].owner = tag[s].owner
    BY <1>1, <1>3
  <2>2. \A l \in link : l[2] \in Tag
    BY DEF TagsInv, TypeOK
  <2> QED
    BY <1>1, <2>1, <2>2 DEF TagsInv, LinksAgree, There
<1>6. \A s \in Tag : tag[s].live /\ tag[s].owner = tag[t].owner /\ tag[s].name = n => s = t
  BY DEF UpdateResourceTag, Called, Live
<1>7. NamesDistinct'
  BY <1>1, <1>3, <1>6 DEF TagsInv, NamesDistinct
<1>8. Unused'
  BY <1>1, <1>3 DEF TagsInv, Unused, There
<1> QED
  BY <1>4, <1>5, <1>7, <1>8 DEF TagsInv

\* A tag loses its links with its life.
LEMMA DeleteTagKeeps ==
  ASSUME TagsInv, NEW t \in Tag, DeleteResourceTag(t) PROVE TagsInv'
<1>1. /\ tag' = [tag EXCEPT ![t].live = FALSE] /\ link' = {l \in link : l[2] # t}
      /\ UNCHANGED <<users, row, used, req>>
  BY DEF DeleteResourceTag
<1>2. tag \in [Tag -> TagRow]
  BY DEF TagsInv, TypeOK, TagRow
<1>3. /\ ~tag'[t].live /\ \A s \in Tag : s # t => tag'[s] = tag[s]
  BY <1>1, <1>2 DEF TagRow
<1>4. TypeOK'
  <2>1. tag' \in [Tag -> TagRow]
    BY <1>1, <1>2 DEF TagRow
  <2> QED
    BY <1>1, <2>1 DEF TagsInv, TypeOK, TagRow
<1>5. LinksAgree'
  BY <1>1, <1>3 DEF TagsInv, TypeOK, LinksAgree, There
<1>6. NamesDistinct' /\ Unused'
  BY <1>1, <1>3 DEF TagsInv, NamesDistinct, Unused, There
<1> QED
  BY <1>4, <1>5, <1>6 DEF TagsInv

\* The links of some environments of one account are replaced by links to live
\* tags of that account.
LEMMA RelinkAgrees ==
  ASSUME TagsInv, tag' = tag, NEW a \in Account, NEW e \in Environment,
         NEW T \in SUBSET Tag, Valid(a, T), Relink({e}, {e} \X T),
         row'[e].owner = a \/ T = {}, \A g \in Environment : g # e => row'[g] = row[g]
  PROVE  link' \subseteq Environment \X Tag /\ LinksAgree'
<1>1. \A l \in link' : \/ (l \in link /\ l[1] # e)
                      \/ (l[1] = e /\ l[2] \in T /\ l \in Environment \X Tag)
  BY DEF Relink
<1>2. \A t \in T : tag[t].live /\ tag[t].owner = a
  BY DEF Valid, Live
<1>3. link' \subseteq Environment \X Tag
  BY <1>1 DEF TagsInv, TypeOK
<1>4. a # None
  BY NoneAssumption
<1> QED
  BY <1>1, <1>2, <1>3, <1>4 DEF TagsInv, TypeOK, LinksAgree, There

\* Tags and identifiers stay; so does what is said of them alone.
LEMMA TagsStay ==
  ASSUME TagsInv, tag' = tag, used \subseteq used',
         \A e \in Environment \ used' : row'[e] = row[e]
  PROVE  NamesDistinct' /\ Unused'
BY DEF TagsInv, NamesDistinct, Unused, There

\* A new environment of one account with tags of that account.
LEMMA CreateEnvironmentKeeps ==
  ASSUME TagsInv, NEW a \in Account, NEW p \in Place, NEW T \in SUBSET Tag,
         CreateEnvironmentWithTags(a, p, T)
  PROVE  TagsInv'
<1>1. Valid(a, T) /\ UNCHANGED <<users, tag, req>>
  BY DEF CreateEnvironmentWithTags
<1>2. PICK e \in Environment \ used :
        /\ row' = [row EXCEPT ![e] = [owner |-> a, place |-> p]]
        /\ used' = used \cup {e} /\ Relink({e}, {e} \X T)
  BY DEF CreateEnvironmentWithTags
<1>3. row \in [Environment -> Row]
  BY DEF TagsInv, TypeOK
<1>4. row'[e].owner = a /\ \A g \in Environment : g # e => row'[g] = row[g]
  BY <1>2, <1>3
<1>5. link' \subseteq Environment \X Tag /\ LinksAgree'
  BY <1>1, <1>2, <1>4, RelinkAgrees
<1>6. TypeOK'
  BY <1>1, <1>2, <1>3, <1>5 DEF TagsInv, TypeOK, Row
<1>7. NamesDistinct' /\ Unused'
  BY <1>1, <1>2, <1>4, TagsStay
<1> QED
  BY <1>5, <1>6, <1>7 DEF TagsInv

\* A request reads, or is refused.
LEMMA RequestKeeps ==
  ASSUME TagsInv, NEW r \in Request,
         \/ Refuse(r)
         \/ \E kind \in {"edit", "edit tags", "tags"}, e \in Environment, p \in Place,
               T \in SUBSET Tag : Begin(r, kind, e, p, T)
  PROVE  TagsInv' /\ UNCHANGED <<users, row, tag, link, used>>
<1>1. UNCHANGED <<users, row, tag, link, used>>
  BY DEF Refuse, Answer, Begin
<1>2. TypeOK'
  <2>1. CASE Refuse(r)
    BY <1>1, <2>1 DEF TagsInv, TypeOK, Refuse, Answer
  <2>2. ASSUME NEW kind \in {"edit", "edit tags", "tags"}, NEW e \in Environment,
               NEW p \in Place, NEW T \in SUBSET Tag, Begin(r, kind, e, p, T)
        PROVE  TypeOK'
    <3>1. row[e].owner \in Account
      BY <2>2 DEF Begin, There, TagsInv, TypeOK, Row
    <3> QED
      BY <1>1, <2>2, <3>1 DEF TagsInv, TypeOK, Begin
  <2> QED
    BY <2>1, <2>2
<1> QED
  BY <1>1, <1>2 DEF TagsInv, LinksAgree, NamesDistinct, Unused, There

\* What a request that is under way has in its hands.
LEMMA UnderWay ==
  ASSUME TagsInv, NEW r \in Request, req[r].kind # "idle"
  PROVE  /\ req[r].env \in Environment /\ req[r].owner \in Account
         /\ req[r].place \in Place /\ req[r].tags \in SUBSET Tag
<1> DEFINE Asked == [kind : {"edit", "edit tags", "tags"}, env : Environment, owner : Account,
                     place : Place, tags : SUBSET Tag]
<1>1. req[r] \in {Idle} \cup Asked
  BY DEF TagsInv, TypeOK
<1>2. req[r] # Idle
  BY DEF Idle
<1>3. req[r] \in Asked
  BY <1>1, <1>2
<1> QED
  BY <1>3

\* An edit is written: the owner stays, and so do all other environments; the
\* tags are left alone, or replaced by tags of the owner.
LEMMA EditWrites ==
  ASSUME TagsInv, NEW r \in Request, UpdateEnvironmentWithTags(r) \/ ReplaceEnvironmentTags(r)
  PROVE  /\ req[r].env \in Environment /\ row[req[r].env].owner \in Account
         /\ row' \in [Environment -> Row] /\ \A g \in Environment : row'[g].owner = row[g].owner
         /\ UNCHANGED <<users, tag, used>> /\ req' = [req EXCEPT ![r] = Idle]
         /\ \/ link' = link
            \/ /\ req[r].tags \in SUBSET Tag /\ Valid(row[req[r].env].owner, req[r].tags)
               /\ Relink({req[r].env}, {req[r].env} \X req[r].tags)
<1> DEFINE e == req[r].env
           T == req[r].tags
           p == req[r].place
<1>1. e \in Environment /\ req[r].owner \in Account /\ p \in Place /\ T \in SUBSET Tag
  BY UnderWay DEF UpdateEnvironmentWithTags, ReplaceEnvironmentTags
<1>2. There(e) /\ UNCHANGED <<users, tag, used>> /\ req' = [req EXCEPT ![r] = Idle]
  BY DEF UpdateEnvironmentWithTags, ReplaceEnvironmentTags, Answer
<1>3. row[e].owner \in Account /\ row \in [Environment -> Row]
  BY <1>1, <1>2 DEF There, TagsInv, TypeOK, Row
<1>4. row' = row \/ row' = [row EXCEPT ![e].place = p]
  BY DEF UpdateEnvironmentWithTags, ReplaceEnvironmentTags
<1>5. row' \in [Environment -> Row] /\ \A g \in Environment : row'[g].owner = row[g].owner
  BY <1>1, <1>3, <1>4 DEF Row
<1>6. \/ link' = link
      \/ Valid(row[e].owner, T) /\ Relink({e}, {e} \X T)
  <2>1. CASE ReplaceEnvironmentTags(r)
    BY <2>1 DEF ReplaceEnvironmentTags
  <2>2. CASE UpdateEnvironmentWithTags(r)
    <3>1. CASE link' = link
      BY <3>1
    <3>2. CASE Valid(req[r].owner, T) /\ SameOwner(e, T) /\ Relink({e}, {e} \X T)
      BY <1>1, <3>2 DEF Valid, Live, SameOwner
    <3> QED
      BY <2>2, <3>1, <3>2 DEF UpdateEnvironmentWithTags
  <2> QED
    BY <2>1, <2>2
<1> QED
  BY <1>1, <1>2, <1>3, <1>5, <1>6

\* So it keeps the invariant.
LEMMA EditKeeps ==
  ASSUME TagsInv, NEW r \in Request, UpdateEnvironmentWithTags(r) \/ ReplaceEnvironmentTags(r)
  PROVE  TagsInv'
<1> DEFINE e == req[r].env
           T == req[r].tags
<1>1. /\ e \in Environment /\ row[e].owner \in Account
      /\ row' \in [Environment -> Row] /\ \A g \in Environment : row'[g].owner = row[g].owner
      /\ UNCHANGED <<users, tag, used>> /\ req' = [req EXCEPT ![r] = Idle]
      /\ \/ link' = link
         \/ /\ T \in SUBSET Tag /\ Valid(row[e].owner, T) /\ Relink({e}, {e} \X T)
  BY EditWrites
<1>2. link' \subseteq Environment \X Tag /\ LinksAgree'
  <2>1. CASE link' = link
    BY <1>1, <2>1 DEF TagsInv, TypeOK, LinksAgree, There
  <2>2. CASE T \in SUBSET Tag /\ Valid(row[e].owner, T) /\ Relink({e}, {e} \X T)
    <3>1. \A l \in link' : \/ l \in link
                          \/ (l[1] = e /\ l[2] \in T /\ l \in Environment \X Tag)
      BY <1>1, <2>2 DEF Relink
    <3>2. \A t \in T : tag[t].live /\ tag[t].owner = row[e].owner
      BY <2>2 DEF Valid, Live
    <3>3. row[e].owner # None
      BY <1>1, NoneAssumption
    <3>4. link' \subseteq Environment \X Tag
      BY <3>1 DEF TagsInv, TypeOK
    <3>5. ASSUME NEW l \in link'
          PROVE  row'[l[1]].owner # None /\ tag[l[2]].live /\ tag[l[2]].owner = row'[l[1]].owner
      <4>1. row'[l[1]].owner = row[l[1]].owner
        BY <1>1, <3>4
      <4>2. CASE l \in link
        BY <4>1, <4>2 DEF TagsInv, LinksAgree, There
      <4>3. CASE l[1] = e /\ l[2] \in T
        BY <3>2, <3>3, <4>1, <4>3
      <4> QED
        BY <3>1, <4>2, <4>3
    <3> QED
      BY <1>1, <3>4, <3>5 DEF LinksAgree, There
  <2> QED
    BY <1>1, <2>1, <2>2
<1>3. TypeOK'
  BY <1>1, <1>2 DEF TagsInv, TypeOK
<1>4. NamesDistinct' /\ Unused'
  BY <1>1 DEF TagsInv, NamesDistinct, Unused, There
<1> QED
  BY <1>2, <1>3, <1>4 DEF TagsInv

\* The environments of an import: each is the account's, or new.
LEMMA Targeted ==
  ASSUME TagsInv, NEW a \in Account, NEW places \in SUBSET Place,
         NEW at \in Targets(a, places), Upsert(a, at)
  PROVE  /\ \A p \in places : at[p] \in Environment /\ at[p] \in Range(at)
         /\ Range(at) \subseteq Environment
         /\ \A e \in Range(at) : row[e].owner \in {None, a} /\ row'[e].owner = a
         /\ \A e \in Environment : e \notin Range(at) => row'[e] = row[e]
         /\ row' \in [Environment -> Row]
         /\ \A p, q \in places : at[p] = at[q] => p = q
<1>1. at \in [places -> Environment] /\ \A p, q \in places : at[p] = at[q] => p = q
  BY DEF Targets, Injection, IsInjective
<1>2. \A e \in Range(at) : \E p \in places : e = at[p]
  BY <1>1 DEF Range
<1>3. \A p \in places : at[p] \in Environment /\ at[p] \in Range(at)
  BY <1>1 DEF Range
<1>4. ASSUME NEW e \in Range(at)
      PROVE  /\ e \in Environment /\ row[e].owner \in {None, a}
             /\ row'[e].owner = a /\ row'[e] \in Row
  <2>1. PICK p \in places : e = at[p]
    BY <1>2
  <2>2. (CHOOSE q \in places : at[q] = e) \in places
    BY <2>1
  <2>3. e \in Environment /\ (row[e].owner = a \/ e \notin used)
    BY <1>3, <2>1 DEF Targets, Owned
  <2>4. row[e].owner \in {None, a}
    BY <2>3 DEF TagsInv, Unused, There
  <2> QED
    BY <1>1, <2>2, <2>3, <2>4 DEF Row, Upsert
<1>5. row' \in [Environment -> Row] /\ \A e \in Environment : e \notin Range(at) => row'[e] = row[e]
  BY <1>4 DEF TagsInv, TypeOK, Upsert
<1> QED
  BY <1>1, <1>3, <1>4, <1>5

\* An import replaces the links of its environments by links to tags with the
\* names of the document.
LEMMA ImportKeeps ==
  ASSUME TagsInv, NEW a \in Account, NEW document \in Documents, Import(a, document)
  PROVE  TagsInv'
<1> DEFINE places == DOMAIN document
           names == UNION {document[p] : p \in places}
<1>1. places \in SUBSET Place /\ names \in SUBSET Name /\ \A p \in places : document[p] \subseteq names
  BY DEF Documents
<1>2. PICK at \in Targets(a, places), f \in Resolve(a, names) :
        /\ Upsert(a, at) /\ AddTags(a, f) /\ used' = used \cup Range(at) \cup Range(f)
        /\ Relink(Range(at), {l \in Range(at) \X Range(f) :
             \E p \in places : l[1] = at[p] /\ \E n \in document[p] : l[2] = f[n]})
  BY DEF Import
<1>3. UNCHANGED <<users, req>>
  BY DEF Import
<1> HIDE DEF places, names
<1>4. /\ Range(at) \subseteq Environment
      /\ \A e \in Range(at) : row[e].owner \in {None, a} /\ row'[e].owner = a
      /\ \A e \in Environment : e \notin Range(at) => row'[e] = row[e]
      /\ row' \in [Environment -> Row]
  BY <1>1, <1>2, Targeted
<1>5. /\ tag' \in [Tag -> TagRow]
      /\ \A n \in names : f[n] \in Tag /\ tag'[f[n]] = [owner |-> a, name |-> n, live |-> TRUE]
      /\ \A t \in Tag : t \notin Range(f) => tag'[t] = tag[t]
      /\ \A t \in Tag : tag[t].live => tag'[t] = tag[t]
      /\ \A t \in Range(f) : \E n \in names : t = f[n]
  BY <1>1, <1>2, Resolved
<1>6. \A t \in Range(f) : t \in Tag /\ tag'[t].live /\ tag'[t].owner = a
  <2>1. ASSUME NEW t \in Range(f) PROVE t \in Tag /\ tag'[t].live /\ tag'[t].owner = a
    <3>1. PICK n \in names : t = f[n]
      BY <1>5
    <3>2. t \in Tag /\ tag'[t] = [owner |-> a, name |-> n, live |-> TRUE]
      BY <1>5, <3>1
    <3> QED
      BY <3>2
  <2> QED
    BY <2>1
<1>7. \A l \in link' : \/ (l \in link /\ l[1] \notin Range(at))
                      \/ (l \in Range(at) \X Range(f))
  BY <1>2 DEF Relink
<1>8. TypeOK'
  <2>1. link' \subseteq Environment \X Tag
    BY <1>4, <1>6, <1>7 DEF TagsInv, TypeOK
  <2>2. used' \subseteq Environment \cup Tag
    BY <1>2, <1>4, <1>6 DEF TagsInv, TypeOK
  <2> QED
    BY <1>3, <1>4, <1>5, <2>1, <2>2 DEF TagsInv, TypeOK, TagRow
<1>9. LinksAgree'
  <2>1. ASSUME NEW l \in link' PROVE row'[l[1]].owner # None /\ tag'[l[2]].live /\ tag'[l[2]].owner = row'[l[1]].owner
    <3>1. CASE l \in link /\ l[1] \notin Range(at)
      <4>1. l[1] \in Environment /\ l[2] \in Tag
        BY <3>1 DEF TagsInv, TypeOK
      <4>2. row[l[1]].owner # None /\ tag[l[2]].live /\ tag[l[2]].owner = row[l[1]].owner
        BY <3>1 DEF TagsInv, LinksAgree, There
      <4> QED
        BY <1>4, <1>5, <3>1, <4>1, <4>2
    <3>2. CASE l \in Range(at) \X Range(f)
      BY <1>4, <1>6, <3>2, NoneAssumption
    <3> QED
      BY <1>7, <3>1, <3>2
  <2> QED
    BY <2>1 DEF LinksAgree, There
<1>10. NamesDistinct'
  BY <1>1, <1>2, ResolvedDistinct
<1>11. Unused'
  BY <1>2, <1>4, <1>5 DEF TagsInv, Unused, There
<1> QED
  BY <1>8, <1>9, <1>10, <1>11 DEF TagsInv

\* A transfer: what it does, in the terms of the lemmas above.
LEMMA Transferred ==
  ASSUME TagsInv, NEW a \in Account, NEW b \in Account, TransferResources(a, b)
  PROVE  \E N \in SUBSET Name : \E f \in Resolve(b, N) :
           /\ N = {tag[l[2]].name : l \in {k \in link : row[k[1]].owner = a}}
           /\ AddTags(b, f) /\ used' = used \cup Range(f)
           /\ link' = {l \in link : row[l[1]].owner # a} \cup
                {<<l[1], f[tag[l[2]].name]>> : l \in {k \in link : row[k[1]].owner = a}}
<1> DEFINE moved == {k \in link : row[k[1]].owner = a}
           names == {tag[l[2]].name : l \in moved}
<1>1. names \in SUBSET Name
  <2>1. ASSUME NEW l \in moved PROVE tag[l[2]].name \in Name
    <3>1. l[2] \in Tag /\ tag[l[2]].live
      BY <2>1 DEF TagsInv, TypeOK, LinksAgree
    <3> QED
      BY <3>1, LiveTags
  <2> QED
    BY <2>1
<1>2. PICK f \in Resolve(b, names) :
        /\ AddTags(b, f) /\ used' = used \cup Range(f)
        /\ link' = (link \ moved) \cup {<<l[1], f[tag[l[2]].name]>> : l \in moved}
  BY DEF TransferResources
<1>3. link \ moved = {l \in link : row[l[1]].owner # a}
  OBVIOUS
<1> QED
  BY <1>1, <1>2, <1>3

\* The environments of one account belong to the other, all else stays theirs.
LEMMA TransferMoves ==
  ASSUME TagsInv, NEW a \in Account, NEW b \in Account, TransferResources(a, b)
  PROVE  /\ row' \in [Environment -> Row]
         /\ \A e \in Environment : row[e].owner = a => row'[e].owner = b
         /\ \A e \in Environment : row[e].owner # a => row'[e] = row[e]
<1>1. row' = [e \in Environment |-> IF row[e].owner = a THEN [row[e] EXCEPT !.owner = b] ELSE row[e]]
  BY DEF TransferResources
<1>2. row \in [Environment -> Row]
  BY DEF TagsInv, TypeOK
<1>3. ASSUME NEW e \in Environment, row[e].owner = a
      PROVE  row'[e] \in Row /\ row'[e].owner = b
  <2>1. row'[e] = [row[e] EXCEPT !.owner = b] /\ row[e] \in Row
    BY <1>1, <1>2, <1>3
  <2> QED
    BY <2>1 DEF Row
<1>4. \A e \in Environment : row[e].owner # a => row'[e] = row[e]
  BY <1>1
<1>5. row' \in [Environment -> Row]
  BY <1>1, <1>2, <1>3, <1>4
<1> QED
  BY <1>3, <1>4, <1>5

\* A transfer links the environments to tags of their new owner.
LEMMA TransferKeeps ==
  ASSUME TagsInv, NEW a \in Account, NEW b \in Account, TransferResources(a, b)
  PROVE  TagsInv'
<1> DEFINE moved == {k \in link : row[k[1]].owner = a}
<1>0. PICK names \in SUBSET Name : \E f \in Resolve(b, names) :
        /\ names = {tag[l[2]].name : l \in moved}
        /\ AddTags(b, f) /\ used' = used \cup Range(f)
        /\ link' = {l \in link : row[l[1]].owner # a} \cup
             {<<l[1], f[tag[l[2]].name]>> : l \in moved}
  BY Transferred
<1>1. PICK f \in Resolve(b, names) :
        /\ names = {tag[l[2]].name : l \in moved}
        /\ AddTags(b, f) /\ used' = used \cup Range(f)
        /\ link' = {l \in link : row[l[1]].owner # a} \cup
             {<<l[1], f[tag[l[2]].name]>> : l \in moved}
  BY <1>0
<1>2. /\ row' \in [Environment -> Row]
      /\ \A e \in Environment : row[e].owner = a => row'[e].owner = b
      /\ \A e \in Environment : row[e].owner # a => row'[e] = row[e]
  BY TransferMoves
<1>20. UNCHANGED <<users, req>>
  BY DEF TransferResources
<1>3. /\ tag' \in [Tag -> TagRow]
      /\ \A n \in names : f[n] \in Tag /\ tag'[f[n]] = [owner |-> b, name |-> n, live |-> TRUE]
      /\ \A t \in Tag : t \notin Range(f) => tag'[t] = tag[t]
      /\ \A t \in Tag : tag[t].live => tag'[t] = tag[t]
      /\ \A t \in Range(f) : \E n \in names : t = f[n]
  BY <1>1, Resolved
<1>4. ASSUME NEW n \in names
      PROVE  f[n] \in Tag /\ tag'[f[n]].live /\ tag'[f[n]].owner = b
  <2>1. f[n] \in Tag /\ tag'[f[n]] = [owner |-> b, name |-> n, live |-> TRUE]
    BY <1>3
  <2> QED
    BY <2>1
<1>5. \A l \in link' :
        \/ (l \in link /\ row[l[1]].owner # a)
        \/ (\E k \in moved : l = <<k[1], f[tag[k[2]].name]>> /\ tag[k[2]].name \in names)
  BY <1>1
<1>6. \A k \in link : k[1] \in Environment /\ k[2] \in Tag
  BY DEF TagsInv, TypeOK
<1>7. ASSUME NEW l \in link'
      PROVE  /\ l \in Environment \X Tag /\ row'[l[1]].owner # None
             /\ tag'[l[2]].live /\ tag'[l[2]].owner = row'[l[1]].owner
  <2>1. CASE l \in link /\ row[l[1]].owner # a
    <3>1. row[l[1]].owner # None /\ tag[l[2]].live /\ tag[l[2]].owner = row[l[1]].owner
      BY <2>1 DEF TagsInv, LinksAgree, There
    <3>2. row'[l[1]] = row[l[1]] /\ tag'[l[2]] = tag[l[2]]
      BY <1>2, <1>3, <1>6, <2>1, <3>1
    <3> QED
      BY <2>1, <3>1, <3>2 DEF TagsInv, TypeOK
  <2>2. CASE \E k \in moved : l = <<k[1], f[tag[k[2]].name]>> /\ tag[k[2]].name \in names
    <3>1. PICK k \in moved : l = <<k[1], f[tag[k[2]].name]>> /\ tag[k[2]].name \in names
      BY <2>2
    <3>2. k[1] \in Environment /\ row'[k[1]].owner = b
      BY <1>2, <1>6
    <3>3. l[1] = k[1] /\ l[2] = f[tag[k[2]].name]
      BY <3>1
    <3>4. l[2] \in Tag /\ tag'[l[2]].live /\ tag'[l[2]].owner = b
      BY <1>4, <3>1, <3>3
    <3>5. b # None
      BY NoneAssumption
    <3>6. l \in Environment \X Tag
      BY <3>1, <3>2, <3>3, <3>4
    <3> QED
      BY <3>2, <3>3, <3>4, <3>5, <3>6
  <2> QED
    BY <1>5, <2>1, <2>2
<1>8. TypeOK'
  <2>1. link' \subseteq Environment \X Tag
    BY <1>7
  <2>2. used' \subseteq Environment \cup Tag
    <3>1. \A t \in Range(f) : t \in Tag
      BY <1>3, <1>4
    <3> QED
      BY <1>1, <3>1 DEF TagsInv, TypeOK
  <2> QED
    BY <1>2, <1>20, <1>3, <2>1, <2>2 DEF TagsInv, TypeOK, TagRow
<1>9. LinksAgree'
  BY <1>7 DEF LinksAgree, There
<1>10. NamesDistinct'
  BY <1>1, ResolvedDistinct
<1>11. Unused'
  BY <1>1, <1>2, <1>3, NoneAssumption DEF TagsInv, Unused, There
<1> QED
  BY <1>8, <1>9, <1>10, <1>11 DEF TagsInv

\* The links go with the environment.
LEMMA DeleteEnvironmentKeeps ==
  ASSUME TagsInv, NEW e \in Environment, DeleteEnvironment(e) PROVE TagsInv'
<1>1. /\ row' = [row EXCEPT ![e] = NoRow] /\ link' = {l \in link : l[1] # e}
      /\ UNCHANGED <<users, tag, used, req>>
  BY DEF DeleteEnvironment
<1>2. row \in [Environment -> Row] /\ NoRow \in Row
  BY DEF TagsInv, TypeOK, Row, NoRow
<1>3. row'[e] = NoRow /\ \A g \in Environment : g # e => row'[g] = row[g]
  BY <1>1, <1>2
<1>4. TypeOK'
  BY <1>1, <1>2 DEF TagsInv, TypeOK
<1>5. LinksAgree'
  BY <1>1, <1>3 DEF TagsInv, TypeOK, LinksAgree, There
<1>6. NamesDistinct' /\ Unused'
  BY <1>1, <1>3 DEF TagsInv, NamesDistinct, Unused, There, NoRow
<1> QED
  BY <1>4, <1>5, <1>6 DEF TagsInv

\* The catalogue goes with the account.
LEMMA DeleteUserKeeps ==
  ASSUME TagsInv, NEW a \in Account, DeleteUser(a) PROVE TagsInv'
<1>1. /\ users' = users \ {a} /\ link' = {l \in link : tag[l[2]].owner # a}
      /\ tag' = [t \in Tag |-> IF tag[t].owner = a THEN NoTag ELSE tag[t]]
      /\ UNCHANGED <<row, used, req>>
  BY DEF DeleteUser
<1>2. /\ \A t \in Tag : tag[t].owner = a => ~tag'[t].live
      /\ \A t \in Tag : tag[t].owner # a => tag'[t] = tag[t]
  BY <1>1 DEF NoTag
<1>3. TypeOK'
  BY <1>1 DEF TagsInv, TypeOK, NoTag
<1>4. LinksAgree'
  BY <1>1, <1>2 DEF TagsInv, TypeOK, LinksAgree, There
<1>5. NamesDistinct' /\ Unused'
  BY <1>1, <1>2 DEF TagsInv, NamesDistinct, Unused, There
<1> QED
  BY <1>3, <1>4, <1>5 DEF TagsInv

\* One of the above for every step.
LEMMA StepKeeps == TagsInv /\ [Next]_vars => TagsInv'
<1> SUFFICES ASSUME TagsInv, [Next]_vars PROVE TagsInv'
  OBVIOUS
<1>1. CASE \E a \in Account, n \in Name : CreateResourceTag(a, n)
  BY <1>1, CreateTagKeeps
<1>2. CASE \E t \in Tag : DeleteResourceTag(t) \/ \E n \in Name : UpdateResourceTag(t, n)
  BY <1>2, DeleteTagKeeps, RenameKeeps
<1>3. CASE \E a \in Account, p \in Place, T \in SUBSET Tag : CreateEnvironmentWithTags(a, p, T)
  BY <1>3, CreateEnvironmentKeeps
<1>4. CASE \E r \in Request, kind \in {"edit", "edit tags", "tags"}, e \in Environment,
             p \in Place, T \in SUBSET Tag : Begin(r, kind, e, p, T)
  BY <1>4, RequestKeeps
<1>5. CASE \E r \in Request :
             UpdateEnvironmentWithTags(r) \/ ReplaceEnvironmentTags(r) \/ Refuse(r)
  BY <1>5, EditKeeps, RequestKeeps
<1>6. CASE \E a \in Account, document \in Documents : Import(a, document)
  BY <1>6, ImportKeeps
<1>7. CASE \E a, b \in Account : TransferResources(a, b)
  BY <1>7, TransferKeeps
<1>8. CASE \E e \in Environment : DeleteEnvironment(e)
  BY <1>8, DeleteEnvironmentKeeps
<1>9. CASE \E a \in Account : DeleteUser(a)
  BY <1>9, DeleteUserKeeps
<1>10. CASE UNCHANGED vars
  BY <1>10 DEF vars, TagsInv, TypeOK, LinksAgree, NamesDistinct, Unused, There
<1> QED
  BY <1>1, <1>2, <1>3, <1>4, <1>5, <1>6, <1>7, <1>8, <1>9, <1>10 DEF Next

\* The invariant, for every set of accounts, environments, tags and requests.
THEOREM TagsInvariant == Spec => []TagsInv
<1>1. Init => TagsInv
  BY InitTags
<1> QED
  BY <1>1, StepKeeps, PTL DEF Spec

\* The links that replaceEnvironmentTagsTx, UpsertImportedEnvironments and
\* TransferResources write join what belongs to one account and is not deleted.
THEOREM LinksAlwaysAgree == Spec => []LinksAgree
<1>1. TagsInv => LinksAgree
  BY DEF TagsInv
<1> QED
  BY <1>1, TagsInvariant, PTL

-----------------------------------------------------------------------------
(***************************************************************************)
(* The refinement.  The catalogue and what is worn, for any tags T and     *)
(* links L: the lemmas speak of them before and after a step.              *)
(***************************************************************************)
Names(T, a) == {T[t].name : t \in {s \in Tag : T[s].live /\ T[s].owner = a}}
Worn(T, L, e) == {T[t].name : t \in {s \in Tag : <<e, s>> \in L}}

\* A name of an account is the name of one of its live tags.
LEMMA NameOf ==
  ASSUME NEW T, NEW a, NEW n
  PROVE  n \in Names(T, a) <=> \E t \in Tag : T[t].live /\ T[t].owner = a /\ T[t].name = n
BY DEF Names

\* A name that is worn is the name of a tag that is linked.
LEMMA WornIs ==
  ASSUME NEW T, NEW L, NEW e, NEW n
  PROVE  n \in Worn(T, L, e) <=> \E t \in Tag : <<e, t>> \in L /\ T[t].name = n
BY DEF Worn

\* What is worn is a name of the owner.
LEMMA WornByOwner ==
  ASSUME TagsInv, NEW e \in Environment
  PROVE  /\ Worn(tag, link, e) \subseteq Name /\ Worn(tag, link, e) \subseteq Names(tag, row[e].owner)
<1>1. ASSUME NEW n \in Worn(tag, link, e) PROVE n \in Name /\ n \in Names(tag, row[e].owner)
  <2>2. PICK t \in Tag : <<e, t>> \in link /\ tag[t].name = n
    BY <1>1, WornIs
  <2>3. tag[t].live /\ tag[t].owner = row[e].owner
    BY <2>2 DEF TagsInv, LinksAgree
  <2> QED
    BY <2>2, <2>3, NameOf DEF TagsInv, NamesDistinct
<1> QED
  BY <1>1

\* The states of the abstract specification in these terms.
LEMMA Mapping ==
  ASSUME TagsInv, TagsInv'
  PROVE  /\ NamesOf = [a \in Account |-> Names(tag, a)] /\ NamesOf' = [a \in Account |-> Names(tag', a)]
         /\ OwnerOf = [e \in Environment |-> row[e].owner]
         /\ OwnerOf' = [e \in Environment |-> row'[e].owner]
         /\ WornBy = [e \in Environment |-> Worn(tag, link, e)]
         /\ WornBy' = [e \in Environment |-> Worn(tag', link', e)]
<1>1. link \in SUBSET (Environment \X Tag) /\ link' \in SUBSET (Environment \X Tag)
  BY DEF TagsInv, TypeOK
<1>2. ASSUME NEW T, NEW L \in SUBSET (Environment \X Tag), NEW e \in Environment
      PROVE  {T[l[2]].name : l \in {k \in L : k[1] = e}} = Worn(T, L, e)
  <2>1. ASSUME NEW l \in L, l[1] = e PROVE T[l[2]].name \in Worn(T, L, e)
    <3>1. l = <<e, l[2]>> /\ l[2] \in Tag
      BY <2>1
    <3> QED
      BY <2>1, <3>1, WornIs
  <2>2. ASSUME NEW t \in Tag, <<e, t>> \in L
        PROVE  \E l \in L : l[1] = e /\ T[l[2]].name = T[t].name
    <3>1. <<e, t>>[1] = e /\ T[<<e, t>>[2]].name = T[t].name
      OBVIOUS
    <3> QED
      BY <2>2, <3>1
  <2> QED
    BY <2>1, <2>2 DEF Worn
<1>3. WornBy = [e \in Environment |-> Worn(tag, link, e)]
  BY <1>1, <1>2 DEF WornBy
<1>4. WornBy' = [e \in Environment |-> Worn(tag', link', e)]
  BY <1>1, <1>2 DEF WornBy
<1> QED
  BY <1>3, <1>4 DEF NamesOf, OwnerOf, Live, Names

\* Nothing of the abstract state changes.
LEMMA Stutters ==
  ASSUME TagsInv, TagsInv',
         \A a \in Account : Names(tag', a) = Names(tag, a),
         \A e \in Environment : row'[e].owner = row[e].owner,
         \A e \in Environment : Worn(tag', link', e) = Worn(tag, link, e)
  PROVE  UNCHANGED <<NamesOf, OwnerOf, WornBy>>
BY Mapping

\* One account writes.
LEMMA Writes ==
  ASSUME TagsInv, TagsInv', NEW a \in Account, NEW S \in SUBSET Environment, NEW N \in SUBSET Name,
         \A e \in S : row[e].owner \in {None, a} /\ row'[e].owner = a,
         \A e \in Environment : e \notin S => row'[e].owner = row[e].owner,
         Names(tag', a) = Names(tag, a) \cup N,
         \A b \in Account : b # a => Names(tag', b) = Names(tag, b),
         \A e \in Environment : e \notin S => Worn(tag', link', e) = Worn(tag, link, e),
         \A e \in Environment : Worn(tag', link', e) \subseteq Name,
         \A e \in S : Worn(tag', link', e) \subseteq Names(tag', a)
  PROVE  Catalogue!Write(a)
<1>1. \A e \in S : OwnerOf[e] \in {None, a}
  BY Mapping
<1>2. NamesOf' = [NamesOf EXCEPT ![a] = @ \cup N]
  BY Mapping
<1>3. OwnerOf' = [e \in Environment |-> IF e \in S THEN a ELSE OwnerOf[e]]
  BY Mapping
<1>4. WornBy' \in [Environment -> SUBSET Name]
  BY Mapping
<1>5. \A e \in Environment :
        IF e \in S THEN WornBy'[e] \subseteq NamesOf'[a] ELSE WornBy'[e] = WornBy[e]
  BY Mapping
<1> QED
  BY <1>1, <1>2, <1>3, <1>4, <1>5 DEF Catalogue!Write

\* What a step leaves of the links of an environment, it leaves of its names.
LEMMA WornStays ==
  ASSUME TagsInv, \A t \in Tag : tag[t].live => tag'[t] = tag[t], NEW e \in Environment,
         \A t \in Tag : <<e, t>> \in link' <=> <<e, t>> \in link
  PROVE  Worn(tag', link', e) = Worn(tag, link, e)
<1>1. \A t \in Tag : <<e, t>> \in link => tag'[t] = tag[t]
  BY DEF TagsInv, LinksAgree
<1>2. \A n : n \in Worn(tag', link', e) <=> n \in Worn(tag, link, e)
  BY <1>1, WornIs
<1> QED
  BY <1>2

\* Replacing the links of one environment leaves those of the others.
LEMMA RelinkLeaves ==
  ASSUME TagsInv, tag' = tag, NEW e \in Environment, NEW T \in SUBSET Tag,
         Relink({e}, {e} \X T), NEW g \in Environment, g # e
  PROVE  Worn(tag', link', g) = Worn(tag, link, g)
<1>1. \A t \in Tag : <<g, t>> \in link' <=> <<g, t>> \in link
  BY DEF Relink
<1> QED
  BY <1>1, WornStays

\* What is worn after the step, by the invariant.
LEMMA WornByOwnerNext ==
  ASSUME TagsInv'
  PROVE  \A e \in Environment :
           Worn(tag', link', e) \subseteq Name /\ Worn(tag', link', e) \subseteq Names(tag', row'[e].owner)
<1>2. ASSUME NEW e \in Environment, NEW n \in Worn(tag', link', e)
      PROVE  n \in Name /\ n \in Names(tag', row'[e].owner)
  <2>2. PICK t \in Tag : <<e, t>> \in link' /\ tag'[t].name = n
    BY <1>2, WornIs
  <2>3. tag'[t].live /\ tag'[t].owner = row'[e].owner
    BY <2>2 DEF TagsInv, LinksAgree
  <2>4. n \in Name
    BY <2>2, <2>3 DEF TagsInv, NamesDistinct
  <2> QED
    BY <2>2, <2>3, <2>4, NameOf
<1> QED
  BY <1>2

\* Live tags that stay as they are keep the names of their account; so no
\* account has other names when no tag changes.
LEMMA NamesStay ==
  ASSUME NEW a, \A t \in Tag : tag[t].owner = a \/ tag'[t].owner = a => tag'[t] = tag[t]
  PROVE  Names(tag', a) = Names(tag, a)
<1>1. \A n : n \in Names(tag', a) <=> n \in Names(tag, a)
  BY NameOf
<1> QED
  BY <1>1

\* A new tag adds its name to the catalogue.
LEMMA CreateTagWrites ==
  ASSUME TagsInv, TagsInv', NEW a \in Account, NEW n \in Name, CreateResourceTag(a, n)
  PROVE  Catalogue!Write(a)
<1>1. PICK t \in Tag \ used :
        /\ tag' = [tag EXCEPT ![t] = [owner |-> a, name |-> n, live |-> TRUE]]
        /\ UNCHANGED <<row, link>>
  BY DEF CreateResourceTag
<1>2. tag \in [Tag -> TagRow] /\ ~tag[t].live
  BY DEF TagsInv, TypeOK, TagRow, Unused
<1>3. tag'[t] = [owner |-> a, name |-> n, live |-> TRUE] /\ \A s \in Tag : s # t => tag'[s] = tag[s]
  BY <1>1, <1>2
<1>4. tag'[t].owner = a /\ tag'[t].name = n /\ tag'[t].live
  BY <1>3
<1>5. \A m : m \in Names(tag', a) <=> m \in Names(tag, a) \cup {n}
  BY <1>2, <1>3, <1>4, NameOf
<1>6. ASSUME NEW b \in Account, b # a PROVE Names(tag', b) = Names(tag, b)
  <2>1. \A m : m \in Names(tag', b) <=> m \in Names(tag, b)
    BY <1>2, <1>3, <1>4, <1>6, NameOf
  <2> QED
    BY <2>1
<1>7. \A e \in Environment : Worn(tag', link', e) = Worn(tag, link, e)
  <2>1. \A s \in Tag : tag[s].live => tag'[s] = tag[s]
    BY <1>2, <1>3
  <2> QED
    BY <1>1, <2>1, WornStays
<1>8. \A e \in Environment : Worn(tag', link', e) \subseteq Name
  BY WornByOwnerNext
<1> DEFINE S == {}
           N == {n}
<1>9. /\ S \in SUBSET Environment /\ N \in SUBSET Name /\ Names(tag', a) = Names(tag, a) \cup N
      /\ \A e \in S : row[e].owner \in {None, a} /\ row'[e].owner = a
      /\ \A e \in S : Worn(tag', link', e) \subseteq Names(tag', a)
  BY <1>5
<1>10. /\ \A e \in Environment : e \notin S => row'[e].owner = row[e].owner
       /\ \A e \in Environment : e \notin S => Worn(tag', link', e) = Worn(tag, link, e)
  BY <1>1, <1>7
<1> HIDE DEF S, N
<1> QED
  BY <1>6, <1>8, <1>9, <1>10, Writes

\* A new environment, and what it wears.
LEMMA CreateEnvironmentWrites ==
  ASSUME TagsInv, TagsInv', NEW a \in Account, NEW p \in Place, NEW T \in SUBSET Tag,
         CreateEnvironmentWithTags(a, p, T)
  PROVE  Catalogue!Write(a)
<1>1. PICK e \in Environment \ used :
        row' = [row EXCEPT ![e] = [owner |-> a, place |-> p]] /\ Relink({e}, {e} \X T) /\ tag' = tag
  BY DEF CreateEnvironmentWithTags
<1>2. row \in [Environment -> Row] /\ row[e].owner = None
  BY DEF TagsInv, TypeOK, Unused, There
<1>3. row'[e].owner = a /\ \A g \in Environment : g # e => row'[g].owner = row[g].owner
  BY <1>1, <1>2
<1>4. \A g \in Environment : g # e => Worn(tag', link', g) = Worn(tag, link, g)
  BY <1>1, RelinkLeaves
<1>5. \A b \in Account : Names(tag', b) = Names(tag, b)
  BY <1>1
<1>6. \A g \in Environment :
        Worn(tag', link', g) \subseteq Name /\ Worn(tag', link', g) \subseteq Names(tag', row'[g].owner)
  BY WornByOwnerNext
<1> DEFINE S == {e}
           N == {}
<1>7. /\ S \in SUBSET Environment /\ N \in SUBSET Name
      /\ \A g \in S : row[g].owner \in {None, a} /\ row'[g].owner = a
      /\ \A g \in Environment : g \notin S => row'[g].owner = row[g].owner
      /\ Names(tag', a) = Names(tag, a) \cup N
      /\ \A g \in Environment : g \notin S => Worn(tag', link', g) = Worn(tag, link, g)
      /\ \A g \in S : Worn(tag', link', g) \subseteq Names(tag', a)
  BY <1>2, <1>3, <1>4, <1>5, <1>6
<1> HIDE DEF S, N
<1> QED
  BY <1>5, <1>6, <1>7, Writes

\* An edit that leaves the tags alone changes nothing here; one that replaces
\* them writes for the account that owns the environment by then.
LEMMA EditWritesOrStutters ==
  ASSUME TagsInv, TagsInv', NEW r \in Request,
         UpdateEnvironmentWithTags(r) \/ ReplaceEnvironmentTags(r)
  PROVE  \/ UNCHANGED <<NamesOf, OwnerOf, WornBy>>
         \/ \E a \in Account : Catalogue!Write(a)
<1> DEFINE e == req[r].env
           T == req[r].tags
           a == row[e].owner
<1>1. /\ e \in Environment /\ a \in Account /\ tag' = tag
      /\ \A g \in Environment : row'[g].owner = row[g].owner
      /\ link' = link \/ (T \in SUBSET Tag /\ Relink({e}, {e} \X T))
  BY EditWrites
<1>2. \A b \in Account : Names(tag', b) = Names(tag, b)
  BY <1>1
<1>3. CASE link' = link
  <2>1. \A g \in Environment : Worn(tag', link', g) = Worn(tag, link, g)
    BY <1>1, <1>3
  <2> QED
    BY <1>1, <1>2, <2>1, Stutters
<1>4. CASE T \in SUBSET Tag /\ Relink({e}, {e} \X T)
  <2>1. \A g \in Environment : g # e => Worn(tag', link', g) = Worn(tag, link, g)
    BY <1>1, <1>4, RelinkLeaves
  <2>2. \A g \in Environment :
          Worn(tag', link', g) \subseteq Name /\ Worn(tag', link', g) \subseteq Names(tag', row'[g].owner)
    BY WornByOwnerNext
  <2> DEFINE S == {e}
             N == {}
  <2>3. /\ S \in SUBSET Environment /\ N \in SUBSET Name
        /\ \A g \in S : row[g].owner \in {None, a} /\ row'[g].owner = a
        /\ \A g \in Environment : g \notin S => row'[g].owner = row[g].owner
        /\ Names(tag', a) = Names(tag, a) \cup N
        /\ \A g \in Environment : g \notin S => Worn(tag', link', g) = Worn(tag, link, g)
        /\ \A g \in S : Worn(tag', link', g) \subseteq Names(tag', a)
    BY <1>1, <1>2, <2>1, <2>2
  <2> HIDE DEF S, N
  <2>4. Catalogue!Write(a)
    BY <1>1, <1>2, <2>2, <2>3, Writes
  <2> QED
    BY <1>1, <2>4
<1> QED
  BY <1>1, <1>3, <1>4

\* A rename, unless the name is the one the tag has.
LEMMA UpdateTagRenames ==
  ASSUME TagsInv, TagsInv', NEW t \in Tag, NEW n \in Name, UpdateResourceTag(t, n)
  PROVE  \/ UNCHANGED <<NamesOf, OwnerOf, WornBy>>
         \/ \E a \in Account, m \in Name : Catalogue!Rename(a, m, n)
<1> DEFINE a == tag[t].owner
           m == tag[t].name
<1>1. tag[t].live /\ tag' = [tag EXCEPT ![t].name = n] /\ row' = row /\ link' = link
  BY DEF UpdateResourceTag
<1>10. row' = row /\ link' = link
  BY <1>1
<1>2. tag \in [Tag -> TagRow] /\ a \in Account /\ m \in Name
  BY <1>1, LiveTags DEF TagsInv, TypeOK, TagRow
<1>3. /\ tag'[t].owner = a /\ tag'[t].name = n /\ tag'[t].live
      /\ \A s \in Tag : s # t => tag'[s] = tag[s]
  BY <1>1, <1>2 DEF TagRow
<1>11. tag[t].live /\ tag[t].owner = a /\ tag[t].name = m
  BY <1>1
<1> HIDE DEF a, m
<1>4. CASE m = n
  <2>1. tag' = tag
    BY <1>1, <1>2, <1>4, <1>11 DEF TagRow
  <2>2. \A b \in Account : Names(tag', b) = Names(tag, b)
    BY <2>1
  <2>3. \A e \in Environment : Worn(tag', link', e) = Worn(tag, link, e)
    BY <1>10, <2>1
  <2> QED
    BY <1>10, <2>2, <2>3, Stutters
<1>5. CASE m # n
  <2>1. \A s \in Tag : tag[s].live /\ tag[s].owner = a /\ tag[s].name = n => s = t
    BY <1>11 DEF UpdateResourceTag, Called, Live
  <2>2. \A s \in Tag : tag[s].live /\ tag[s].owner = a /\ tag[s].name = m => s = t
    BY <1>11 DEF TagsInv, NamesDistinct
  <2>3. m \in Names(tag, a) /\ n \notin Names(tag, a)
    BY <1>5, <1>11, <2>1, NameOf
  <2>4. Names(tag', a) = (Names(tag, a) \ {m}) \cup {n}
    <3>1. \A k : k \in Names(tag', a) <=> k \in (Names(tag, a) \ {m}) \cup {n}
      BY <1>3, <1>11, <2>2, NameOf
    <3> QED
      BY <3>1
  <2>5. ASSUME NEW b \in Account, b # a PROVE Names(tag', b) = Names(tag, b)
    <3>1. \A k : k \in Names(tag', b) <=> k \in Names(tag, b)
      BY <1>3, <1>11, <2>5, NameOf
    <3> QED
      BY <3>1
  <2>6. ASSUME NEW e \in Environment, <<e, t>> \in link
        PROVE  /\ row[e].owner = a /\ m \in Worn(tag, link, e)
               /\ Worn(tag', link', e) = (Worn(tag, link, e) \ {m}) \cup {n}
    <3>1. row[e].owner = a /\ \A s \in Tag : <<e, s>> \in link => tag[s].live /\ tag[s].owner = a
      BY <1>11, <2>6 DEF TagsInv, LinksAgree
    <3>2. m \in Worn(tag, link, e)
      BY <1>11, <2>6, WornIs
    <3>3. ASSUME NEW k \in Worn(tag', link', e) PROVE k \in (Worn(tag, link, e) \ {m}) \cup {n}
      <4>1. PICK s \in Tag : <<e, s>> \in link /\ tag'[s].name = k
        BY <1>10, <3>3, WornIs
      <4>2. CASE s = t
        BY <1>3, <4>1, <4>2
      <4>3. CASE s # t
        <5>1. tag[s].name = k /\ k # m
          BY <1>3, <2>2, <3>1, <4>1, <4>3
        <5> QED
          BY <4>1, <5>1, WornIs
      <4> QED
        BY <4>2, <4>3
    <3>4. ASSUME NEW k \in Worn(tag, link, e), k # m PROVE k \in Worn(tag', link', e)
      <4>1. PICK s \in Tag : <<e, s>> \in link /\ tag[s].name = k
        BY <3>4, WornIs
      <4>2. tag'[s].name = k
        BY <1>3, <1>11, <3>4, <4>1
      <4> QED
        BY <1>10, <4>1, <4>2, WornIs
    <3>5. n \in Worn(tag', link', e)
      BY <1>3, <1>10, <2>6, WornIs
    <3> QED
      BY <3>1, <3>2, <3>3, <3>4, <3>5
  <2>7. ASSUME NEW e \in Environment, <<e, t>> \notin link
        PROVE  /\ row[e].owner = a => m \notin Worn(tag, link, e)
               /\ Worn(tag', link', e) = Worn(tag, link, e)
    <3>1. ASSUME row[e].owner = a, m \in Worn(tag, link, e) PROVE FALSE
      <4>1. PICK s \in Tag : <<e, s>> \in link /\ tag[s].name = m
        BY <3>1, WornIs
      <4>2. tag[s].live /\ tag[s].owner = a
        BY <3>1, <4>1 DEF TagsInv, LinksAgree
      <4> QED
        BY <2>2, <2>7, <4>1, <4>2
    <3>2. \A k : k \in Worn(tag', link', e) <=> k \in Worn(tag, link, e)
      BY <1>3, <1>10, <2>7, WornIs
    <3> QED
      BY <3>1, <3>2
  <2>8. NamesOf' = [NamesOf EXCEPT ![a] = (@ \ {m}) \cup {n}]
    BY <1>2, <2>4, <2>5, Mapping
  <2>9. \A e \in Environment : Worn(tag', link', e) =
          IF row[e].owner = a /\ m \in Worn(tag, link, e)
          THEN (Worn(tag, link, e) \ {m}) \cup {n} ELSE Worn(tag, link, e)
    BY <2>6, <2>7
  <2>10. WornBy' = [e \in Environment |->
           IF OwnerOf[e] = a /\ m \in WornBy[e] THEN (WornBy[e] \ {m}) \cup {n} ELSE WornBy[e]]
    BY <2>9, Mapping
  <2>11. OwnerOf' = OwnerOf /\ m \in NamesOf[a] /\ n \notin NamesOf[a]
    BY <1>2, <1>10, <2>3, Mapping
  <2>12. Catalogue!Rename(a, m, n)
    BY <2>8, <2>10, <2>11 DEF Catalogue!Rename
  <2> QED
    BY <1>2, <2>12
<1> QED
  BY <1>4, <1>5

\* A tag is deleted: its name goes from the catalogue and from what wears it.
LEMMA DeleteTagDrops ==
  ASSUME TagsInv, TagsInv', NEW t \in Tag, DeleteResourceTag(t)
  PROVE  \E a \in Account, m \in Name : Catalogue!Drop(a, m)
<1> DEFINE a == tag[t].owner
           m == tag[t].name
<1>1. /\ tag[t].live /\ tag' = [tag EXCEPT ![t].live = FALSE]
      /\ link' = {l \in link : l[2] # t} /\ row' = row
  BY DEF DeleteResourceTag
<1>2. tag \in [Tag -> TagRow] /\ a \in Account /\ m \in Name
  BY <1>1, LiveTags DEF TagsInv, TypeOK, TagRow
<1>3. ~tag'[t].live /\ \A s \in Tag : s # t => tag'[s] = tag[s]
  BY <1>1, <1>2 DEF TagRow
<1>20. tag[t].live /\ tag[t].owner = a /\ tag[t].name = m
  BY <1>1
<1> HIDE DEF a, m
<1>4. \A s \in Tag : tag[s].live /\ tag[s].owner = a /\ tag[s].name = m => s = t
  BY <1>20 DEF TagsInv, NamesDistinct
<1>5. m \in Names(tag, a)
  BY <1>20, NameOf
<1>6. Names(tag', a) = Names(tag, a) \ {m}
  <2>1. \A k : k \in Names(tag', a) <=> k \in Names(tag, a) \ {m}
    BY <1>3, <1>4, <1>20, NameOf
  <2> QED
    BY <2>1
<1>7. ASSUME NEW b \in Account, b # a PROVE Names(tag', b) = Names(tag, b)
  <2>1. \A k : k \in Names(tag', b) <=> k \in Names(tag, b)
    BY <1>3, <1>7, <1>20, NameOf
  <2> QED
    BY <2>1
<1>8. ASSUME NEW e \in Environment
      PROVE  \A s \in Tag : <<e, s>> \in link' <=> <<e, s>> \in link /\ s # t
  BY <1>1
<1>9. ASSUME NEW e \in Environment, row[e].owner = a
      PROVE  Worn(tag', link', e) = Worn(tag, link, e) \ {m}
  <2>1. \A s \in Tag : <<e, s>> \in link => tag[s].live /\ tag[s].owner = a
    BY <1>9 DEF TagsInv, LinksAgree
  <2>2. ASSUME NEW k \in Worn(tag', link', e) PROVE k \in Worn(tag, link, e) \ {m}
    <3>1. PICK s \in Tag : <<e, s>> \in link' /\ tag'[s].name = k
      BY <2>2, WornIs
    <3>2. <<e, s>> \in link /\ tag[s].name = k /\ s # t
      BY <1>3, <1>8, <3>1
    <3>3. k # m
      BY <1>4, <2>1, <3>2
    <3> QED
      BY <3>2, <3>3, WornIs
  <2>3. ASSUME NEW k \in Worn(tag, link, e), k # m PROVE k \in Worn(tag', link', e)
    <3>1. PICK s \in Tag : <<e, s>> \in link /\ tag[s].name = k
      BY <2>3, WornIs
    <3>2. <<e, s>> \in link' /\ tag'[s].name = k
      BY <1>3, <1>8, <1>20, <2>3, <3>1
    <3> QED
      BY <3>2, WornIs
  <2> QED
    BY <2>2, <2>3
<1>10. ASSUME NEW e \in Environment, row[e].owner # a
       PROVE  Worn(tag', link', e) = Worn(tag, link, e)
  <2>1. <<e, t>> \notin link
    BY <1>10, <1>20 DEF TagsInv, LinksAgree
  <2>2. \A k : k \in Worn(tag', link', e) <=> k \in Worn(tag, link, e)
    BY <1>3, <1>8, <2>1, WornIs
  <2> QED
    BY <2>2
<1>11. NamesOf' = [NamesOf EXCEPT ![a] = @ \ {m}] /\ m \in NamesOf[a]
  BY <1>2, <1>5, <1>6, <1>7, Mapping
<1>12. \A e \in Environment : Worn(tag', link', e) =
         IF row[e].owner = a THEN Worn(tag, link, e) \ {m} ELSE Worn(tag, link, e)
  BY <1>9, <1>10
<1>13. WornBy' = [e \in Environment |-> IF OwnerOf[e] = a THEN WornBy[e] \ {m} ELSE WornBy[e]]
  BY <1>12, Mapping
<1>14. OwnerOf' = OwnerOf
  BY <1>1, Mapping
<1>15. Catalogue!Drop(a, m)
  BY <1>11, <1>13, <1>14 DEF Catalogue!Drop
<1> QED
  BY <1>2, <1>15

\* Finding or creating tags adds their names to one catalogue.
LEMMA ResolvedNames ==
  ASSUME TagsInv, NEW a \in Account, NEW names \in SUBSET Name,
         NEW f \in Resolve(a, names), AddTags(a, f)
  PROVE  /\ Names(tag', a) = Names(tag, a) \cup names
         /\ \A b \in Account : b # a => Names(tag', b) = Names(tag, b)
<1>1. /\ \A n \in names : f[n] \in Tag /\ tag'[f[n]] = [owner |-> a, name |-> n, live |-> TRUE]
      /\ \A t \in Tag : t \notin Range(f) => tag'[t] = tag[t]
      /\ \A t \in Tag : tag[t].live => tag'[t] = tag[t]
      /\ \A t \in Range(f) : \E n \in names : t = f[n]
  BY Resolved
<1>2. ASSUME NEW n \in names
      PROVE  f[n] \in Tag /\ tag'[f[n]].live /\ tag'[f[n]].owner = a /\ tag'[f[n]].name = n
  <2>1. f[n] \in Tag /\ tag'[f[n]] = [owner |-> a, name |-> n, live |-> TRUE]
    BY <1>1
  <2> QED
    BY <2>1
<1>3. ASSUME NEW b, NEW k \in Names(tag, b) PROVE k \in Names(tag', b)
  <2>1. PICK t \in Tag : tag[t].live /\ tag[t].owner = b /\ tag[t].name = k
    BY <1>3, NameOf
  <2>2. tag'[t].live /\ tag'[t].owner = b /\ tag'[t].name = k
    BY <1>1, <2>1
  <2> QED
    BY <2>2, NameOf
<1>4. ASSUME NEW k \in names PROVE k \in Names(tag', a)
  BY <1>2, <1>4, NameOf
<1>5. ASSUME NEW b, NEW k \in Names(tag', b) PROVE k \in Names(tag, b) \/ (b = a /\ k \in names)
  <2>1. PICK t \in Tag : tag'[t].live /\ tag'[t].owner = b /\ tag'[t].name = k
    BY <1>5, NameOf
  <2>2. CASE t \in Range(f)
    BY <1>1, <1>2, <2>1, <2>2
  <2>3. CASE t \notin Range(f)
    <3>1. tag[t].live /\ tag[t].owner = b /\ tag[t].name = k
      BY <1>1, <2>1, <2>3
    <3> QED
      BY <3>1, NameOf
  <2> QED
    BY <2>2, <2>3
<1>6. Names(tag', a) = Names(tag, a) \cup names
  BY <1>3, <1>4, <1>5
<1>7. \A b \in Account : b # a => Names(tag', b) = Names(tag, b)
  BY <1>3, <1>5
<1> QED
  BY <1>6, <1>7

\* An import writes for the account that imports.
LEMMA ImportWrites ==
  ASSUME TagsInv, TagsInv', NEW a \in Account, NEW document \in Documents, Import(a, document)
  PROVE  Catalogue!Write(a)
<1> DEFINE places == DOMAIN document
           N == UNION {document[p] : p \in places}
<1>1. places \in SUBSET Place /\ N \in SUBSET Name
  BY DEF Documents
<1>2. PICK at \in Targets(a, places), f \in Resolve(a, N) :
        /\ Upsert(a, at) /\ AddTags(a, f)
        /\ Relink(Range(at), {l \in Range(at) \X Range(f) :
             \E p \in places : l[1] = at[p] /\ \E n \in document[p] : l[2] = f[n]})
  BY DEF Import
<1> DEFINE S == Range(at)
<1> HIDE DEF places, N
<1>3. /\ S \in SUBSET Environment
      /\ \A e \in S : row[e].owner \in {None, a} /\ row'[e].owner = a
      /\ \A e \in Environment : e \notin S => row'[e] = row[e]
  BY <1>1, <1>2, Targeted
<1>4. /\ Names(tag', a) = Names(tag, a) \cup N
      /\ \A b \in Account : b # a => Names(tag', b) = Names(tag, b)
  BY <1>1, <1>2, ResolvedNames
<1>5. \A t \in Tag : tag[t].live => tag'[t] = tag[t]
  BY <1>1, <1>2, Resolved
<1>6. ASSUME NEW e \in Environment, e \notin S PROVE Worn(tag', link', e) = Worn(tag, link, e)
  <2>1. \A t \in Tag : <<e, t>> \in link' <=> <<e, t>> \in link
    BY <1>2, <1>6 DEF Relink
  <2> QED
    BY <1>5, <2>1, WornStays
<1>7. \A e \in Environment :
        Worn(tag', link', e) \subseteq Name /\ Worn(tag', link', e) \subseteq Names(tag', row'[e].owner)
  BY WornByOwnerNext
<1> HIDE DEF S
<1>8. \A e \in S : Worn(tag', link', e) \subseteq Names(tag', a)
  BY <1>3, <1>7
<1>9. /\ \A e \in Environment : e \notin S => row'[e].owner = row[e].owner
      /\ \A e \in Environment : e \notin S => Worn(tag', link', e) = Worn(tag, link, e)
      /\ \A e \in Environment : Worn(tag', link', e) \subseteq Name
  BY <1>3, <1>6, <1>7
<1> QED
  BY <1>1, <1>3, <1>4, <1>8, <1>9, Writes

\* A transfer hands over the environments with what they wear.
LEMMA TransferHandsOver ==
  ASSUME TagsInv, TagsInv', NEW a \in Account, NEW b \in Account, TransferResources(a, b)
  PROVE  Catalogue!HandOver(a, b)
<1> DEFINE moved == {k \in link : row[k[1]].owner = a}
<1>0. PICK names \in SUBSET Name : \E f \in Resolve(b, names) :
        /\ names = {tag[l[2]].name : l \in moved}
        /\ AddTags(b, f) /\ used' = used \cup Range(f)
        /\ link' = {l \in link : row[l[1]].owner # a} \cup
             {<<l[1], f[tag[l[2]].name]>> : l \in moved}
  BY Transferred
<1>1. PICK f \in Resolve(b, names) :
        /\ names = {tag[l[2]].name : l \in moved}
        /\ AddTags(b, f) /\ used' = used \cup Range(f)
        /\ link' = {l \in link : row[l[1]].owner # a} \cup
             {<<l[1], f[tag[l[2]].name]>> : l \in moved}
  BY <1>0
<1>2. /\ Names(tag', b) = Names(tag, b) \cup names
      /\ \A c \in Account : c # b => Names(tag', c) = Names(tag, c)
  BY <1>1, ResolvedNames
<1>3. /\ \A n \in names : f[n] \in Tag /\ tag'[f[n]] = [owner |-> b, name |-> n, live |-> TRUE]
      /\ \A t \in Tag : tag[t].live => tag'[t] = tag[t]
  BY <1>1, Resolved
<1>4. ASSUME NEW n \in names PROVE f[n] \in Tag /\ tag'[f[n]].name = n
  <2>1. f[n] \in Tag /\ tag'[f[n]] = [owner |-> b, name |-> n, live |-> TRUE]
    BY <1>3
  <2> QED
    BY <2>1
<1>5. link \in SUBSET (Environment \X Tag)
  BY DEF TagsInv, TypeOK
<1>6. ASSUME NEW e \in Environment, row[e].owner # a
      PROVE  Worn(tag', link', e) = Worn(tag, link, e)
  <2>1. \A t \in Tag : <<e, t>> \in link' <=> <<e, t>> \in link
    BY <1>1, <1>6
  <2> QED
    BY <1>3, <2>1, WornStays
<1>7. ASSUME NEW e \in Environment, row[e].owner = a, NEW t \in Tag, <<e, t>> \in link
      PROVE  tag[t].name \in names /\ <<e, f[tag[t].name]>> \in link'
  <2> DEFINE l == <<e, t>>
  <2>1. l \in moved /\ l[1] = e /\ l[2] = t
    BY <1>7
  <2> HIDE DEF l, moved
  <2>2. tag[l[2]].name \in names /\ <<l[1], f[tag[l[2]].name]>> \in link'
    BY <1>1, <2>1
  <2> QED
    BY <2>1, <2>2
<1>8. ASSUME NEW e \in Environment, row[e].owner = a, NEW t \in Tag, <<e, t>> \in link'
      PROVE  \E s \in Tag : <<e, s>> \in link /\ t = f[tag[s].name] /\ tag[s].name \in names
  <2>1. PICK l \in moved : <<e, t>> = <<l[1], f[tag[l[2]].name]>>
    BY <1>1, <1>8
  <2>2. l = <<e, l[2]>> /\ l[2] \in Tag /\ l \in link
    BY <1>5, <2>1
  <2>3. tag[l[2]].name \in names
    BY <1>7, <1>8, <2>2
  <2> QED
    BY <2>1, <2>2, <2>3
<1>9. ASSUME NEW e \in Environment, row[e].owner = a
      PROVE  Worn(tag', link', e) = Worn(tag, link, e)
  <2>1. ASSUME NEW k \in Worn(tag, link, e) PROVE k \in Worn(tag', link', e)
    <3>1. PICK t \in Tag : <<e, t>> \in link /\ tag[t].name = k
      BY <2>1, WornIs
    <3>2. k \in names /\ <<e, f[k]>> \in link'
      BY <1>7, <1>9, <3>1
    <3> QED
      BY <1>4, <3>2, WornIs
  <2>2. ASSUME NEW k \in Worn(tag', link', e) PROVE k \in Worn(tag, link, e)
    <3>1. PICK t \in Tag : <<e, t>> \in link' /\ tag'[t].name = k
      BY <2>2, WornIs
    <3>2. PICK s \in Tag : <<e, s>> \in link /\ t = f[tag[s].name] /\ tag[s].name \in names
      BY <1>8, <1>9, <3>1
    <3>3. tag[s].name = k
      BY <1>4, <3>1, <3>2
    <3> QED
      BY <3>2, <3>3, WornIs
  <2> QED
    BY <2>1, <2>2
<1>10. names = UNION {WornBy[e] : e \in Catalogue!Of(a)}
  <2>1. \A e \in Environment : e \in Catalogue!Of(a) <=> row[e].owner = a
    BY Mapping DEF Catalogue!Of
  <2>2. ASSUME NEW k \in names
        PROVE  \E e \in Environment : row[e].owner = a /\ k \in Worn(tag, link, e)
    <3>1. PICK l \in link : row[l[1]].owner = a /\ k = tag[l[2]].name
      BY <1>1, <2>2
    <3>2. l = <<l[1], l[2]>> /\ l[1] \in Environment /\ l[2] \in Tag
      BY <1>5
    <3>3. <<l[1], l[2]>> \in link
      BY <3>2
    <3> HIDE DEF moved
    <3>4. k \in Worn(tag, link, l[1])
      BY <3>1, <3>2, <3>3, WornIs
    <3> QED
      BY <3>1, <3>2, <3>4
  <2>3. ASSUME NEW e \in Environment, row[e].owner = a, NEW k \in Worn(tag, link, e) PROVE k \in names
    <3>1. PICK t \in Tag : <<e, t>> \in link /\ tag[t].name = k
      BY <2>3, WornIs
    <3> QED
      BY <1>7, <2>3, <3>1
  <2>4. \A e \in Environment : WornBy[e] = Worn(tag, link, e)
    BY Mapping
  <2>5. Catalogue!Of(a) \subseteq Environment
    BY DEF Catalogue!Of
  <2> QED
    BY <2>1, <2>2, <2>3, <2>4, <2>5
<1>11. NamesOf' = [NamesOf EXCEPT ![b] = @ \cup UNION {WornBy[e] : e \in Catalogue!Of(a)}]
  <2>1. NamesOf' = [NamesOf EXCEPT ![b] = @ \cup names]
    BY <1>2, Mapping
  <2> QED
    BY <1>10, <2>1
<1>12. OwnerOf' = [e \in Environment |-> IF OwnerOf[e] = a THEN b ELSE OwnerOf[e]]
  <2>1. \A e \in Environment : row'[e].owner = IF row[e].owner = a THEN b ELSE row[e].owner
    BY TransferMoves
  <2> QED
    BY <2>1, Mapping
<1>13. WornBy' = WornBy
  BY <1>6, <1>9, Mapping
<1> QED
  BY <1>11, <1>12, <1>13 DEF Catalogue!HandOver

\* An environment goes, with what it wears.
LEMMA DeleteEnvironmentRemoves ==
  ASSUME TagsInv, TagsInv', NEW e \in Environment, DeleteEnvironment(e)
  PROVE  Catalogue!Remove(e)
<1>1. row' = [row EXCEPT ![e] = NoRow] /\ link' = {l \in link : l[1] # e} /\ tag' = tag
  BY DEF DeleteEnvironment
<1>2. row \in [Environment -> Row]
  BY DEF TagsInv, TypeOK
<1>3. row'[e].owner = None /\ \A g \in Environment : g # e => row'[g].owner = row[g].owner
  BY <1>1, <1>2 DEF NoRow
<1>4. ASSUME NEW g \in Environment, g # e PROVE Worn(tag', link', g) = Worn(tag, link, g)
  <2>1. \A t \in Tag : <<g, t>> \in link' <=> <<g, t>> \in link
    BY <1>1, <1>4
  <2> QED
    BY <1>1, <2>1, WornStays
<1>5. Worn(tag', link', e) = {}
  BY <1>1 DEF Worn
<1>6. NamesOf' = NamesOf
  BY <1>1, Mapping
<1>7. OwnerOf' = [OwnerOf EXCEPT ![e] = None]
  BY <1>3, Mapping
<1>8. WornBy' = [WornBy EXCEPT ![e] = {}]
  BY <1>4, <1>5, Mapping
<1> QED
  BY <1>6, <1>7, <1>8 DEF Catalogue!Remove

\* An account goes: it has no environment, so that nobody wears its names.
LEMMA DeleteUserForgets ==
  ASSUME TagsInv, TagsInv', NEW a \in Account, DeleteUser(a)
  PROVE  Catalogue!Forget(a)
<1>1. /\ Owned(a) = {} /\ link' = {l \in link : tag[l[2]].owner # a} /\ row' = row
      /\ tag' = [t \in Tag |-> IF tag[t].owner = a THEN NoTag ELSE tag[t]]
  BY DEF DeleteUser
<1>2. /\ \A t \in Tag : tag[t].owner = a => tag'[t] = NoTag
      /\ \A t \in Tag : tag[t].owner # a => tag'[t] = tag[t]
  BY <1>1
<1>3. \A e \in Environment : row[e].owner # a
  BY <1>1 DEF Owned
<1>4. link' = link
  <2>1. \A l \in link : tag[l[2]].owner # a
    <3>1. \A l \in link : l[1] \in Environment
      BY DEF TagsInv, TypeOK
    <3>2. \A l \in link : tag[l[2]].owner = row[l[1]].owner
      BY DEF TagsInv, LinksAgree
    <3> QED
      BY <1>3, <3>1, <3>2
  <2> QED
    BY <1>1, <2>1
<1>5. ASSUME NEW e \in Environment PROVE Worn(tag', link', e) = Worn(tag, link, e)
  <2>1. \A t \in Tag : <<e, t>> \in link => tag'[t] = tag[t]
    BY <1>2, <1>3 DEF TagsInv, LinksAgree
  <2>2. ASSUME NEW n \in Worn(tag', link', e) PROVE n \in Worn(tag, link, e)
    <3>1. PICK t \in Tag : <<e, t>> \in link' /\ tag'[t].name = n
      BY <2>2, WornIs
    <3> QED
      BY <1>4, <2>1, <3>1, WornIs
  <2>3. ASSUME NEW n \in Worn(tag, link, e) PROVE n \in Worn(tag', link', e)
    <3>1. PICK t \in Tag : <<e, t>> \in link /\ tag[t].name = n
      BY <2>3, WornIs
    <3> QED
      BY <1>4, <2>1, <3>1, WornIs
  <2> QED
    BY <2>2, <2>3
<1>6. NoTag.owner = None /\ ~NoTag.live /\ a # None
  BY NoneAssumption DEF NoTag
<1>7. Names(tag', a) = {}
  <2>1. \A n : n \notin Names(tag', a)
    BY <1>2, <1>6, NameOf
  <2> QED
    BY <2>1
<1>8. ASSUME NEW b \in Account, b # a PROVE Names(tag', b) = Names(tag, b)
  <2>1. b # None
    BY NoneAssumption
  <2>2. \A n : n \in Names(tag', b) <=> n \in Names(tag, b)
    BY <1>2, <1>6, <1>8, <2>1, NameOf
  <2> QED
    BY <2>2
<1>9. NamesOf' = [NamesOf EXCEPT ![a] = {}]
  BY <1>7, <1>8, Mapping
<1>10. OwnerOf' = OwnerOf
  BY <1>1, Mapping
<1>11. WornBy' = WornBy
  BY <1>5, Mapping
<1>12. Catalogue!Of(a) = {}
  BY <1>3, Mapping DEF Catalogue!Of
<1> QED
  BY <1>9, <1>10, <1>11, <1>12 DEF Catalogue!Forget

\* Initially there is nothing.
LEMMA InitIsEmpty == Init => Catalogue!Init
BY DEF Init, Catalogue!Init, NamesOf, OwnerOf, WornBy, Live, NoRow, NoTag

\* Every step is one of the catalogue's, or none.
LEMMA StepImplements ==
  TagsInv /\ TagsInv' /\ [Next]_vars => [Catalogue!Next]_<<NamesOf, OwnerOf, WornBy>>
<1> SUFFICES ASSUME TagsInv, TagsInv', [Next]_vars
             PROVE  Catalogue!Next \/ UNCHANGED <<NamesOf, OwnerOf, WornBy>>
  OBVIOUS
<1>1. CASE \E a \in Account, n \in Name : CreateResourceTag(a, n)
  BY <1>1, CreateTagWrites DEF Catalogue!Next
<1>2. CASE \E t \in Tag : DeleteResourceTag(t)
  <2>1. \E a \in Account, m \in Name : Catalogue!Drop(a, m)
    BY <1>2, DeleteTagDrops
  <2> QED
    BY <2>1 DEF Catalogue!Next
<1>3. CASE \E t \in Tag, n \in Name : UpdateResourceTag(t, n)
  <2>1. \/ UNCHANGED <<NamesOf, OwnerOf, WornBy>>
        \/ \E a \in Account, m \in Name, n \in Name : Catalogue!Rename(a, m, n)
    BY <1>3, UpdateTagRenames
  <2> QED
    BY <2>1 DEF Catalogue!Next
<1>4. CASE \E a \in Account, p \in Place, T \in SUBSET Tag : CreateEnvironmentWithTags(a, p, T)
  BY <1>4, CreateEnvironmentWrites DEF Catalogue!Next
<1>5. CASE \E r \in Request : Refuse(r) \/ \E kind \in {"edit", "edit tags", "tags"},
             e \in Environment, p \in Place, T \in SUBSET Tag : Begin(r, kind, e, p, T)
  <2>1. UNCHANGED <<users, row, tag, link, used>>
    BY <1>5, RequestKeeps
  <2>2. /\ \A a \in Account : Names(tag', a) = Names(tag, a)
        /\ \A e \in Environment : row'[e].owner = row[e].owner
        /\ \A e \in Environment : Worn(tag', link', e) = Worn(tag, link, e)
    BY <2>1
  <2> QED
    BY <2>2, Stutters
<1>6. CASE \E r \in Request : UpdateEnvironmentWithTags(r) \/ ReplaceEnvironmentTags(r)
  <2>1. \/ UNCHANGED <<NamesOf, OwnerOf, WornBy>>
        \/ \E a \in Account : Catalogue!Write(a)
    BY <1>6, EditWritesOrStutters
  <2> QED
    BY <2>1 DEF Catalogue!Next
<1>7. CASE \E a \in Account, document \in Documents : Import(a, document)
  BY <1>7, ImportWrites DEF Catalogue!Next
<1>8. CASE \E a, b \in Account : TransferResources(a, b)
  BY <1>8, TransferHandsOver DEF Catalogue!Next
<1>9. CASE \E e \in Environment : DeleteEnvironment(e)
  BY <1>9, DeleteEnvironmentRemoves DEF Catalogue!Next
<1>10. CASE \E a \in Account : DeleteUser(a)
  BY <1>10, DeleteUserForgets DEF Catalogue!Next
<1>11. CASE UNCHANGED vars
  BY <1>11 DEF vars, NamesOf, OwnerOf, WornBy, Live
<1> QED
  BY <1>1, <1>2, <1>3, <1>4, <1>5, <1>6, <1>7, <1>8, <1>9, <1>10, <1>11 DEF Next

\* Links, soft deletion and equivalent tags implement names that are worn, for
\* every set of accounts, environments, tags, names and requests.
THEOREM ImplementsCatalogue == Spec => CatalogueSpec
<1>1. Init => Catalogue!Init
  BY InitIsEmpty
<1>2. TagsInv /\ TagsInv' /\ [Next]_vars => [Catalogue!Next]_<<NamesOf, OwnerOf, WornBy>>
  BY StepImplements
<1> QED
  BY <1>1, <1>2, TagsInvariant, PTL DEF Spec, CatalogueSpec, Catalogue!Spec

=============================================================================
