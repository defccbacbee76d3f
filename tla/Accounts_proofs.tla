--------------------------- MODULE Accounts_proofs ---------------------------
(***************************************************************************)
(* Safety of Accounts for every set of accounts, tokens, addresses and     *)
(* requests, and every limit.                                              *)
(*                                                                         *)
(* AccountsInv is split by what a step changes: the rows, the requests,    *)
(* and the sessions that are outdated.  The throttle has an invariant of   *)
(* its own, ThrottleCounts, which counts the requests in flight.           *)
(***************************************************************************)
EXTENDS Accounts, FiniteSetTheorems, TLAPS

USE RootAssumption, TriesAssumption, KeyAssumption, NoneAssumption DEF None

RowsInv ==
  /\ users \subseteq known /\ known \subseteq User
  /\ enabled \subseteq users /\ temporary \subseteq users /\ owns \subseteq users
  /\ session \in [Session -> users \union {None}]
  /\ outdated \subseteq Session /\ cut \subseteq User
  /\ Root \in users \intersect enabled

LimitsInv ==
  /\ throttle \in [Key -> [count: 0..Tries, blocked: BOOLEAN]]
  /\ guesses \in [Key -> Nat]

\* What is known of a request.
Sound(x) ==
  /\ x \in [pc: {"idle", "verify", "fail", "clear", "clearip", "open", "cutoff", "erase"}
                  \union Personal \union Administrative,
            actor: User \union {None}, target: User \union {None},
            from: Address \union {None}]
  /\ x.pc \in {"verify", "fail", "clear", "clearip", "open"} => x.actor \in User /\ x.from \in Address
  /\ x.pc \in Personal \union Administrative \union {"cutoff", "erase"} => x.target \in User
  /\ x.pc \in {"disable", "cutoff", "delete", "erase"} => x.target # Root

RequestsInv ==
  /\ req = [r \in Request |-> req[r]]
  /\ \A r \in Request : Sound(req[r])

AllInv == RowsInv /\ LimitsInv /\ RequestsInv /\ OutdatedIsCounted

\* The four parts are the invariant.
LEMMA Parts == AccountsInv <=> RowsInv /\ LimitsInv /\ RequestsInv /\ OutdatedIsCounted
<1>1. AccountsInv => RowsInv /\ LimitsInv /\ RequestsInv /\ OutdatedIsCounted
  <2> SUFFICES ASSUME AccountsInv PROVE RowsInv /\ LimitsInv /\ RequestsInv /\ OutdatedIsCounted
    OBVIOUS
  <2> USE DEF AccountsInv
  <2>1. RowsInv
    BY DEF TypeOK, RowsInv, NothingOrphaned, RootIsSafe
  <2>2. LimitsInv /\ OutdatedIsCounted
    BY DEF TypeOK, LimitsInv
  <2>3. RequestsInv
    BY DEF TypeOK, RequestsInv, Sound, RequestsKnow, RootIsSafe
  <2> QED
    BY <2>1, <2>2, <2>3
<1>2. RowsInv /\ LimitsInv /\ RequestsInv /\ OutdatedIsCounted => AccountsInv
  <2> SUFFICES ASSUME RowsInv, LimitsInv, RequestsInv, OutdatedIsCounted PROVE AccountsInv
    OBVIOUS
  <2>1. TypeOK
    BY DEF TypeOK, RowsInv, LimitsInv, RequestsInv, Sound
  <2>2. RequestsKnow /\ RootIsSafe
    BY DEF RequestsKnow, RootIsSafe, RowsInv, RequestsInv, Sound
  <2>3. NothingOrphaned
    BY DEF NothingOrphaned, RowsInv
  <2> QED
    BY <2>1, <2>2, <2>3 DEF AccountsInv
<1> QED
  BY <1>1, <1>2

-----------------------------------------------------------------------------
(***************************************************************************)
(* What a step does to the requests and to the sessions.                   *)
(***************************************************************************)
\* A request moves on, or is over.
LEMMA RequestMoves ==
  ASSUME RequestsInv, NEW r \in Request, NEW x, Sound(x), req' = [req EXCEPT ![r] = x]
  PROVE  /\ RequestsInv'
         /\ req'[r] = x /\ \A q \in Request \ {r} : req'[q] = req[q]
  BY DEF RequestsInv, Sound

\* A handler that does nothing knows nothing.
LEMMA IdleIsSound == Sound(Idle)
  BY DEF Sound, Idle, Personal, Administrative

\* Who is being disabled still is, when another request moves.
LEMMA DisablingStays ==
  ASSUME NEW r \in Request, req[r].pc # "cutoff",
         \A q \in Request \ {r} : req'[q] = req[q],
         NEW u, u \in cut => u \in cut', Disabling(u)
  PROVE  Disabling(u)'
  BY DEF Disabling, At

\* Sessions that are removed are not outdated, the others stay as they were.
LEMMA RemoveKeeps ==
  ASSUME RowsInv, NEW S \in SUBSET Session, Remove(S)
  PROVE  /\ session' \in [Session -> users \union {None}]
         /\ outdated' = outdated \ S
         /\ \A s \in Session \ S : session'[s] = session[s]
         /\ \A s \in S : session'[s] = None
  BY DEF RowsInv, Remove

\* The initial state satisfies the invariant.
LEMMA InitAccounts == Init => AccountsInv
<1> SUFFICES ASSUME Init PROVE AccountsInv
  OBVIOUS
<1>1. RowsInv /\ LimitsInv /\ OutdatedIsCounted
  BY DEF Init, RowsInv, LimitsInv, OutdatedIsCounted, Open
<1>2. RequestsInv
  BY IdleIsSound DEF Init, RequestsInv
<1> QED
  BY <1>1, <1>2, Parts

\* A step that only moves a request, or counts.
LEMMA OnlyMoves ==
  ASSUME AllInv, NEW r \in Request, NEW x, Sound(x), req[r].pc # "cutoff",
         req' = [req EXCEPT ![r] = x], UNCHANGED <<accounts, logins>>, LimitsInv'
  PROVE  AllInv'
<1> USE DEF AllInv, accounts, logins
<1>1. RowsInv'
  BY DEF RowsInv
<1>2. RequestsInv' /\ \A q \in Request \ {r} : req'[q] = req[q]
  BY RequestMoves
<1>3. OutdatedIsCounted'
  BY <1>2, DisablingStays DEF OutdatedIsCounted
<1> QED
  BY <1>1, <1>2, <1>3

\* Deleting the sessions of an account deletes its outdated ones; those of
\* others are still counted.
LEMMA SessionsGo ==
  ASSUME AllInv, NEW u \in User, DeleteUserSessions(u),
         \A v \in users \ {u} : v \in users' /\ (Disabling(v) => Disabling(v)')
  PROVE  /\ OutdatedIsCounted'
         /\ session' \in [Session -> (users \ {u}) \union {None}]
         /\ outdated' \subseteq Session /\ cut' \subseteq User
<1> USE DEF AllInv, DeleteUserSessions
<1>1. SessionsOf(u) \in SUBSET Session
  BY DEF SessionsOf
<1>2. /\ session' \in [Session -> users \union {None}]
      /\ outdated' = outdated \ SessionsOf(u)
      /\ \A s \in Session \ SessionsOf(u) : session'[s] = session[s]
      /\ \A s \in SessionsOf(u) : session'[s] = None
  BY <1>1, RemoveKeeps
<1>3. \A s \in Session : session'[s] # u
  BY <1>2 DEF SessionsOf
<1>4. OutdatedIsCounted'
  <2> SUFFICES ASSUME NEW s \in outdated'
               PROVE  \E v \in users' : session'[s] = v /\ Disabling(v)'
    BY DEF OutdatedIsCounted
  <2>1. s \in outdated /\ s \in Session /\ session'[s] = session[s] /\ session[s] # u
    BY <1>2 DEF RowsInv, SessionsOf
  <2>2. PICK v \in users \ {u} : session[s] = v /\ Disabling(v)
    BY <2>1 DEF OutdatedIsCounted
  <2> QED
    BY <2>1, <2>2
<1> QED
  BY <1>2, <1>3, <1>4 DEF RowsInv

-----------------------------------------------------------------------------
(***************************************************************************)
(* Logins.                                                                 *)
(***************************************************************************)
\* A login that is let in, decided or counted changes no account.
LEMMA LoginKeeps ==
  ASSUME AllInv, NEW r \in Request,
         \/ \E u \in User, a \in Address : Login(r, u, a)
         \/ Verify(r) \/ RecordLoginFailure(r) \/ ClearLoginThrottle(r)
  PROVE  AllInv'
<1>0. Sound(req[r]) /\ LimitsInv
  BY DEF AllInv, RequestsInv
<1>1. CASE \E u \in User, a \in Address : Login(r, u, a)
  <2>1. PICK u \in User, a \in Address : Login(r, u, a)
    BY <1>1
  <2> DEFINE x == [pc |-> "verify", actor |-> u, target |-> None, from |-> a]
  <2>2. Sound(x)
    BY DEF Sound, Personal, Administrative
  <2>3. /\ req[r].pc # "cutoff" /\ req' = [req EXCEPT ![r] = x]
        /\ UNCHANGED <<accounts, logins, limits>>
    BY <2>1 DEF Login, Knock, At
  <2>4. LimitsInv'
    BY <1>0, <2>3 DEF LimitsInv, limits
  <2> QED
    BY <2>2, <2>3, <2>4, OnlyMoves
<1>2. CASE Verify(r)
  <2>1. PICK pc \in {"clear", "fail"} : GoTo(r, pc)
    BY <1>2 DEF Verify
  <2> DEFINE x == [req[r] EXCEPT !.pc = pc]
  <2>2. /\ req[r].pc = "verify" /\ req' = [req EXCEPT ![r] = x]
        /\ UNCHANGED <<accounts, logins, limits>>
    BY <1>2, <2>1 DEF Verify, At, GoTo
  <2>3. Sound(x)
    BY <1>0, <2>2 DEF Sound, Personal, Administrative
  <2>4. LimitsInv'
    BY <1>0, <2>2 DEF LimitsInv, limits
  <2> QED
    BY <2>2, <2>3, <2>4, OnlyMoves
<1>3. CASE RecordLoginFailure(r)
  <2>1. /\ req[r].pc = "fail" /\ req' = [req EXCEPT ![r] = Idle]
        /\ UNCHANGED <<accounts, logins>>
    BY <1>3 DEF RecordLoginFailure, At, Done
  <2>2. PICK over \in SUBSET Keys(r) :
         /\ throttle' = [k \in Key |->
              IF k \in over         THEN Failure(0)
              ELSE IF k \in Keys(r) THEN Failure(throttle[k].count) ELSE throttle[k]]
         /\ guesses' = [k \in Key |->
              IF k \in over         THEN 1
              ELSE IF k \in Keys(r) THEN guesses[k] + 1 ELSE guesses[k]]
    BY <1>3 DEF RecordLoginFailure
  <2>3. \A n \in 0..Tries : Failure(n) \in [count: 0..Tries, blocked: BOOLEAN]
    BY DEF Failure
  <2>4. LimitsInv'
    BY <1>0, <2>2, <2>3 DEF LimitsInv
  <2> QED
    BY <2>1, <2>4, IdleIsSound, OnlyMoves
<1>4. CASE ClearLoginThrottle(r)
  <2>1. PICK pc \in {"clearip", "open"}, K \in {{req[r].actor}, {req[r].from}} :
          /\ req[r].pc \in {"clear", "clearip"} /\ Forget(K) /\ GoTo(r, pc)
          /\ UNCHANGED <<accounts, logins>>
    BY <1>4 DEF ClearLoginThrottle, At
  <2> DEFINE x == [req[r] EXCEPT !.pc = pc]
  <2>2. Sound(x) /\ req' = [req EXCEPT ![r] = x]
    BY <1>0, <2>1 DEF Sound, Personal, Administrative, GoTo
  <2>3. LimitsInv'
    BY <1>0, <2>1 DEF LimitsInv, Forget, Open
  <2> QED
    BY <2>1, <2>2, <2>3, OnlyMoves
<1> QED
  BY <1>1, <1>2, <1>3, <1>4

\* A session is opened only for an account that is there, and no token that
\* is free is outdated.
LEMMA CreateSessionKeeps ==
  ASSUME AllInv, NEW r \in Request, CreateSession(r)
  PROVE  AllInv'
<1> USE DEF AllInv
<1>1. /\ req[r].pc = "open" /\ req[r].actor \in users /\ req' = [req EXCEPT ![r] = Idle]
      /\ UNCHANGED <<accounts, outdated, cut, limits>>
  BY DEF CreateSession, InsertSession, At, Done
<1>2. PICK t \in Session : /\ session[t] = None
                           /\ session' = [session EXCEPT ![t] = req[r].actor]
  BY DEF CreateSession, InsertSession
<1>3. RequestsInv' /\ \A q \in Request \ {r} : req'[q] = req[q]
  BY <1>1, IdleIsSound, RequestMoves
<1>4. RowsInv' /\ LimitsInv'
  BY <1>1, <1>2 DEF RowsInv, LimitsInv, accounts, limits
<1>5. OutdatedIsCounted'
  <2> SUFFICES ASSUME NEW s \in outdated
               PROVE  \E v \in users : session'[s] = v /\ Disabling(v)'
    BY <1>1 DEF OutdatedIsCounted, accounts
  <2>1. PICK v \in users : s \in Session /\ session[s] = v /\ Disabling(v)
    BY DEF OutdatedIsCounted, RowsInv
  <2>2. s # t /\ session'[s] = session[s]
    BY <1>2, <2>1 DEF RowsInv
  <2> QED
    BY <1>1, <1>3, <2>1, <2>2, DisablingStays
<1> QED
  BY <1>3, <1>4, <1>5

-----------------------------------------------------------------------------
(***************************************************************************)
(* What follows the middleware.                                            *)
(***************************************************************************)
\* Nobody gets to disable or delete the initial administrator.
LEMMA AuthenticateKeeps ==
  ASSUME AllInv, NEW r \in Request, NEW s \in Session, NEW u \in User,
         NEW op \in Personal \union Administrative, Authenticate(r, s, op, u)
  PROVE  AllInv'
<1> DEFINE x == [pc |-> op, actor |-> None, target |-> u, from |-> None]
<1>1. /\ req[r].pc = "idle" /\ req' = [req EXCEPT ![r] = x]
      /\ UNCHANGED <<accounts, logins, limits>>
      /\ session[s] \in enabled /\ Permitted(op, session[s], u)
  BY DEF Authenticate, At, Usable
<1>2. session[s] \in User /\ LimitsInv
  BY <1>1 DEF AllInv, RowsInv
<1>3. op \in {"disable", "delete"} => u # Root
  BY <1>1 DEF Permitted, Protects, Personal
<1>4. Sound(x)
  BY <1>2, <1>3 DEF Sound, Personal, Administrative
<1>5. LimitsInv'
  BY <1>1, <1>2 DEF LimitsInv, limits
<1> QED
  BY <1>1, <1>4, <1>5, OnlyMoves

\* Counting the resources changes nothing.
LEMMA CountBusinessKeeps ==
  ASSUME AllInv, NEW r \in Request, CountBusiness(r)
  PROVE  AllInv'
<1> DEFINE x == [req[r] EXCEPT !.pc = "erase"]
<1>0. Sound(req[r]) /\ LimitsInv
  BY DEF AllInv, RequestsInv
<1>1. /\ req[r].pc = "delete" /\ req' = [req EXCEPT ![r] = x]
      /\ UNCHANGED <<accounts, logins, limits>>
  BY DEF CountBusiness, At, GoTo
<1>2. Sound(x)
  BY <1>0, <1>1 DEF Sound, Personal, Administrative
<1>3. LimitsInv'
  BY <1>0, <1>1 DEF LimitsInv, limits
<1> QED
  BY <1>1, <1>2, <1>3, OnlyMoves

\* A request that ends, after it deleted the sessions of one account.
LEMMA EndsWithSessions ==
  ASSUME AllInv, NEW r \in Request, NEW u \in User,
         DeleteUserSessions(u), Done(r), UNCHANGED limits,
         req[r].pc # "cutoff" \/ req[r].target = u,
         users \ {u} \subseteq users'
  PROVE  /\ OutdatedIsCounted' /\ RequestsInv' /\ LimitsInv'
         /\ outdated' \subseteq Session /\ cut' \subseteq User
         /\ session' \in [Session -> (users \ {u}) \union {None}]
<1>1. RequestsInv' /\ \A q \in Request \ {r} : req'[q] = req[q]
  BY IdleIsSound, RequestMoves DEF AllInv, Done
<1>2. ASSUME NEW v \in users \ {u} PROVE v \in users' /\ (Disabling(v) => Disabling(v)')
  <2>1. v \in cut => v \in cut'
    BY <1>2 DEF DeleteUserSessions
  <2> QED
    BY <1>1, <1>2, <2>1 DEF Disabling, At
<1>3. LimitsInv'
  BY DEF AllInv, LimitsInv, limits
<1> QED
  BY <1>1, <1>2, <1>3, SessionsGo

\* Passwords, revocations and transfers end with the sessions of one account.
LEMMA RevokingKeeps ==
  ASSUME AllInv, NEW r \in Request,
         ChangePassword(r) \/ ResetPassword(r) \/ RevokeSessions(r) \/ TransferResources(r)
  PROVE  AllInv'
<1>1. PICK u \in users :
        /\ DeleteUserSessions(u) /\ Done(r) /\ UNCHANGED limits
        /\ req[r].pc # "cutoff"
        /\ UNCHANGED <<users, known, enabled>>
        /\ temporary' \subseteq users /\ owns' \subseteq users
  <2>1. CASE ChangePassword(r)
    BY <2>1 DEF ChangePassword, UpdatePassword, At, AllInv, RowsInv
  <2>2. CASE ResetPassword(r)
    BY <2>2 DEF ResetPassword, UpdatePassword, At, AllInv, RowsInv
  <2>3. CASE RevokeSessions(r)
    BY <2>3 DEF RevokeSessions, At, accounts, AllInv, RowsInv
  <2>4. CASE TransferResources(r)
    BY <2>4 DEF TransferResources, At, AllInv, RowsInv
  <2> QED
    BY <2>1, <2>2, <2>3, <2>4
<1>2. u \in User /\ users \subseteq known /\ known \subseteq User
  BY DEF AllInv, RowsInv
<1>3. /\ OutdatedIsCounted' /\ RequestsInv' /\ LimitsInv'
      /\ outdated' \subseteq Session /\ cut' \subseteq User
      /\ session' \in [Session -> (users \ {u}) \union {None}]
  BY <1>1, <1>2, EndsWithSessions
<1>4. RowsInv'
  BY <1>1, <1>2, <1>3 DEF AllInv, RowsInv
<1> QED
  BY <1>3, <1>4 DEF AllInv

\* The account that is deleted owns nothing, and its sessions go with it; it
\* is not the initial administrator.
LEMMA EraseKeeps ==
  ASSUME AllInv, NEW r \in Request, Erase(r)
  PROVE  AllInv'
<1> DEFINE u == req[r].target
<1>1. /\ u \in users \ owns /\ req[r].pc = "erase"
      /\ users' = users \ {u} /\ enabled' = enabled \ {u} /\ temporary' = temporary \ {u}
      /\ DeleteUserSessions(u) /\ Done(r) /\ UNCHANGED <<known, owns, limits>>
  BY DEF Erase, At
<1>2. u \in User /\ u # Root
  BY <1>1 DEF AllInv, RowsInv, RequestsInv, Sound
<1>3. /\ OutdatedIsCounted' /\ RequestsInv' /\ LimitsInv'
      /\ outdated' \subseteq Session /\ cut' \subseteq User
      /\ session' \in [Session -> (users \ {u}) \union {None}]
  BY <1>1, <1>2, EndsWithSessions DEF limits
<1>4. RowsInv'
  BY <1>1, <1>2, <1>3 DEF AllInv, RowsInv
<1> QED
  BY <1>3, <1>4 DEF AllInv

\* The sessions an account had when it was disabled are outdated, and the
\* request that disabled it has yet to delete them.
LEMMA DisableKeeps ==
  ASSUME AllInv, NEW r \in Request, Disable(r)
  PROVE  AllInv'
<1> DEFINE u == req[r].target
<1>0. Sound(req[r]) /\ req = [q \in Request |-> req[q]]
  BY DEF AllInv, RequestsInv
<1>1. CASE At(r, "disable") /\ SwitchOff(r) /\ GoTo(r, "cutoff")
  <2> DEFINE x == [req[r] EXCEPT !.pc = "cutoff"]
  <2>1. /\ req[r].pc = "disable" /\ u \in users /\ enabled' = enabled \ {u}
        /\ outdated' = outdated \union SessionsOf(u) /\ req' = [req EXCEPT ![r] = x]
        /\ UNCHANGED <<users, known, temporary, owns, session, cut, limits>>
    BY <1>1 DEF SwitchOff, At, GoTo
  <2>2. Sound(x) /\ u # Root
    BY <1>0, <2>1 DEF Sound, Personal, Administrative
  <2>3. RequestsInv' /\ req'[r] = x /\ \A q \in Request \ {r} : req'[q] = req[q]
    BY <2>1, <2>2, RequestMoves DEF AllInv
  <2>4. RowsInv' /\ LimitsInv'
    BY <2>1, <2>2 DEF AllInv, RowsInv, LimitsInv, SessionsOf, limits
  <2>5. Disabling(u)'
    BY <1>0, <2>3 DEF Disabling, At, Sound
  <2>6. ASSUME NEW s \in outdated'
        PROVE  \E v \in users' : session'[s] = v /\ Disabling(v)'
    <3>1. CASE s \in SessionsOf(u)
      BY <2>1, <2>5, <3>1 DEF SessionsOf
    <3>2. CASE s \in outdated
      <4>1. PICK v \in users : session[s] = v /\ Disabling(v)
        BY <3>2 DEF AllInv, OutdatedIsCounted
      <4> QED
        BY <2>1, <2>3, <4>1, DisablingStays
    <3> QED
      BY <2>1, <2>6, <3>1, <3>2
  <2> QED
    BY <2>3, <2>4, <2>6 DEF AllInv, OutdatedIsCounted
<1>2. CASE At(r, "cutoff") /\ CutOff(r) /\ Done(r)
  <2>1. /\ DeleteUserSessions(u) /\ Done(r) /\ UNCHANGED <<accounts, limits>> /\ u \in User
    BY <1>0, <1>2 DEF CutOff, At, Sound
  <2>2. /\ OutdatedIsCounted' /\ RequestsInv' /\ LimitsInv'
        /\ outdated' \subseteq Session /\ cut' \subseteq User
        /\ session' \in [Session -> (users \ {u}) \union {None}]
    BY <2>1, EndsWithSessions DEF accounts
  <2>3. RowsInv'
    BY <2>1, <2>2 DEF AllInv, RowsInv, accounts
  <2> QED
    BY <2>2, <2>3 DEF AllInv
<1> QED
  BY <1>1, <1>2 DEF Disable

\* Accounts are enabled and created, resources created and deleted: sessions
\* are not touched.
LEMMA RowsChange ==
  ASSUME AllInv, UNCHANGED <<logins, limits>>, RequestsInv', RowsInv', users \subseteq users',
         \A v \in users : Disabling(v) => Disabling(v)'
  PROVE  AllInv'
<1>1. LimitsInv'
  BY DEF AllInv, LimitsInv, limits
<1>2. OutdatedIsCounted'
  BY DEF AllInv, OutdatedIsCounted, logins
<1> QED
  BY <1>1, <1>2 DEF AllInv

\* None of these is a step of disabling.
LEMMA EntersKeeps ==
  ASSUME AllInv, NEW r \in Request,
         Enable(r) \/ CreateUser(r) \/ CreateResource(r)
  PROVE  AllInv'
<1>1. req[r].pc # "cutoff" /\ req' = [req EXCEPT ![r] = Idle] /\ UNCHANGED <<logins, limits>>
  BY DEF Enable, CreateUser, CreateResource, At, Done
<1>2. RequestsInv' /\ \A q \in Request \ {r} : req'[q] = req[q]
  BY <1>1, IdleIsSound, RequestMoves DEF AllInv
<1>3. RowsInv' /\ users \subseteq users'
  <2>1. CASE Enable(r)
    BY <1>1, <2>1 DEF Enable, AllInv, RowsInv, logins
  <2>2. CASE CreateUser(r)
    BY <1>1, <2>2 DEF CreateUser, AllInv, RowsInv, logins
  <2>3. CASE CreateResource(r)
    BY <1>1, <2>3 DEF CreateResource, AllInv, RowsInv, logins
  <2> QED
    BY <2>1, <2>2, <2>3
<1>4. \A v \in users : Disabling(v) => Disabling(v)'
  BY <1>1, <1>2, DisablingStays DEF logins
<1> QED
  BY <1>1, <1>2, <1>3, <1>4, RowsChange

\* A request that is cut short while it disables leaves its account counted.
LEMMA AbandonKeeps ==
  ASSUME AllInv, NEW r \in Request, Abandon(r)
  PROVE  AllInv'
<1>0. Sound(req[r])
  BY DEF AllInv, RequestsInv
<1>1. /\ req' = [req EXCEPT ![r] = Idle] /\ UNCHANGED <<accounts, session, outdated, limits>>
      /\ cut' = IF req[r].pc = "cutoff" THEN cut \union ({req[r].target} \intersect users) ELSE cut
  BY DEF Abandon, At, Done
<1>2. RequestsInv' /\ \A q \in Request \ {r} : req'[q] = req[q]
  BY <1>1, IdleIsSound, RequestMoves DEF AllInv
<1>3. RowsInv' /\ LimitsInv'
  BY <1>1 DEF AllInv, RowsInv, LimitsInv, accounts, limits
<1>4. ASSUME NEW v \in users, Disabling(v) PROVE Disabling(v)'
  BY <1>1, <1>2, <1>4 DEF Disabling, At
<1>5. OutdatedIsCounted'
  BY <1>1, <1>4 DEF AllInv, OutdatedIsCounted, accounts
<1> QED
  BY <1>2, <1>3, <1>5 DEF AllInv

\* A session that ends, by a logout or by its time, is outdated no more.
LEMMA SessionEndKeeps ==
  ASSUME AllInv, NEW t \in Session, RevokeSession(t) \/ Expire(t)
  PROVE  AllInv'
<1>1. Remove({t}) /\ UNCHANGED <<accounts, cut, limits, req>>
  BY DEF RevokeSession, Expire
<1>2. /\ session' \in [Session -> users \union {None}]
      /\ outdated' = outdated \ {t}
      /\ \A s \in Session \ {t} : session'[s] = session[s]
  BY <1>1, RemoveKeeps DEF AllInv
<1>3. RowsInv' /\ LimitsInv' /\ RequestsInv'
  BY <1>1, <1>2 DEF AllInv, RowsInv, LimitsInv, RequestsInv, Sound, accounts, limits
<1>4. \A v : Disabling(v) => Disabling(v)'
  BY <1>1 DEF Disabling, At
<1>5. OutdatedIsCounted'
  BY <1>1, <1>2, <1>4 DEF AllInv, OutdatedIsCounted, RowsInv, accounts
<1> QED
  BY <1>3, <1>5 DEF AllInv

\* What no request does: resources are deleted, limits end, nothing happens.
LEMMA OutsideKeeps ==
  ASSUME AllInv,
         \/ \E u \in User : DeleteResources(u)
         \/ \E k \in Key : Unblock(k) \/ DeleteLoginThrottlesBefore(k)
         \/ UNCHANGED vars
  PROVE  AllInv'
<1>1. /\ UNCHANGED <<users, known, enabled, temporary, logins, req>> /\ owns' \subseteq owns
      /\ LimitsInv'
  <2>1. CASE \E u \in User : DeleteResources(u)
    BY <2>1 DEF DeleteResources, AllInv, LimitsInv, limits
  <2>2. CASE \E k \in Key : Unblock(k)
    <3>1. PICK k \in Key : Unblock(k)
      BY <2>2
    <3> DEFINE open == [throttle[k] EXCEPT !.blocked = FALSE]
    <3>2. throttle' = [throttle EXCEPT ![k] = open] /\ guesses' = [guesses EXCEPT ![k] = 0]
      BY <3>1 DEF Unblock
    <3>3. LimitsInv'
      BY <3>2 DEF AllInv, LimitsInv
    <3> QED
      BY <3>1, <3>3 DEF Unblock, accounts
  <2>3. CASE \E k \in Key : DeleteLoginThrottlesBefore(k)
    BY <2>3 DEF DeleteLoginThrottlesBefore, Forget, Open, AllInv, LimitsInv, accounts
  <2>4. CASE UNCHANGED vars
    BY <2>4 DEF vars, accounts, limits, AllInv, LimitsInv
  <2> QED
    BY <2>1, <2>2, <2>3, <2>4
<1>2. RowsInv' /\ RequestsInv'
  BY <1>1 DEF AllInv, RowsInv, RequestsInv, Sound, logins
<1>3. \A v : Disabling(v) => Disabling(v)'
  BY <1>1 DEF Disabling, At, logins
<1>4. OutdatedIsCounted'
  BY <1>1, <1>3 DEF AllInv, OutdatedIsCounted, logins
<1> QED
  BY <1>1, <1>2, <1>4 DEF AllInv

\* Every step keeps the invariant.
LEMMA StepKeeps ==
  ASSUME AllInv, [Next]_vars
  PROVE  AllInv'
<1>1. ASSUME NEW r \in Request, Handler(r) PROVE AllInv'
  <2> USE DEF Handler
  <2>1. CASE \/ \E u \in User, a \in Address : Login(r, u, a)
             \/ Verify(r) \/ RecordLoginFailure(r) \/ ClearLoginThrottle(r)
    BY <2>1, LoginKeeps
  <2>2. CASE \E s \in Session, u \in User, op \in Personal \union Administrative :
               Authenticate(r, s, op, u)
    BY <2>2, AuthenticateKeeps
  <2>3. CASE CreateSession(r) \/ CountBusiness(r) \/ Erase(r) \/ Disable(r) \/ Abandon(r)
    BY <2>3, CreateSessionKeeps, CountBusinessKeeps, EraseKeeps, DisableKeeps, AbandonKeeps
  <2>4. CASE ChangePassword(r) \/ ResetPassword(r) \/ RevokeSessions(r) \/ TransferResources(r)
    BY <2>4, RevokingKeeps
  <2>5. CASE Enable(r) \/ CreateUser(r) \/ CreateResource(r)
    BY <2>5, EntersKeeps
  <2> QED
    BY <1>1, <2>1, <2>2, <2>3, <2>4, <2>5
<1>2. ASSUME NEW s \in Session, RevokeSession(s) \/ Expire(s) PROVE AllInv'
  BY <1>2, SessionEndKeeps
<1>3. ASSUME \/ \E u \in User : DeleteResources(u)
             \/ \E k \in Key : Unblock(k) \/ DeleteLoginThrottlesBefore(k)
             \/ UNCHANGED vars
      PROVE  AllInv'
  BY <1>3, OutsideKeeps
<1> QED
  BY <1>1, <1>2, <1>3 DEF Next

-----------------------------------------------------------------------------
(***************************************************************************)
(* The throttle.                                                           *)
(***************************************************************************)
\* The requests in flight are finitely many, and one of them leaves room.
LEMMA InFlightCounted ==
  ASSUME NEW k
  PROVE  /\ IsFiniteSet(InFlight(k)) /\ Cardinality(InFlight(k)) \in Nat
         /\ Cardinality(Request) \in Nat
         /\ Cardinality(InFlight(k)) <= Cardinality(Request)
<1>1. InFlight(k) \in SUBSET Request
  BY DEF InFlight
<1> QED
  BY <1>1, FS_Subset, FS_CardinalityType, RequestAssumption

\* The same, after a step.
LEMMA InFlightCountedNext ==
  ASSUME NEW k
  PROVE  Cardinality(InFlight(k)') \in Nat
<1>1. InFlight(k)' \in SUBSET Request
  BY DEF InFlight
<1> QED
  BY <1>1, FS_Subset, FS_CardinalityType, RequestAssumption

\* When no request is in flight that was not before, there are not more.
LEMMA NoMoreInFlight ==
  ASSUME NEW k, InFlight(k)' \subseteq InFlight(k)
  PROVE  Cardinality(InFlight(k)') <= Cardinality(InFlight(k))
  BY InFlightCounted, FS_Subset

\* When one of them is over, there is one less.
LEMMA OneLessInFlight ==
  ASSUME NEW k, NEW r \in InFlight(k), InFlight(k)' \subseteq InFlight(k) \ {r}
  PROVE  Cardinality(InFlight(k)') + 1 <= Cardinality(InFlight(k))
<1>1. /\ IsFiniteSet(InFlight(k) \ {r})
      /\ Cardinality(InFlight(k) \ {r}) = Cardinality(InFlight(k)) - 1
  BY InFlightCounted, FS_RemoveElement
<1>2. Cardinality(InFlight(k)') <= Cardinality(InFlight(k) \ {r})
  BY <1>1, FS_Subset
<1> QED
  BY <1>1, <1>2, InFlightCounted, InFlightCountedNext

\* A request that moves, from what is not in flight to what is not, or within
\* or out of what is, adds none.
LEMMA MovesOutOfFlight ==
  ASSUME RequestsInv, NEW r \in Request, NEW x, NEW k, req' = [req EXCEPT ![r] = x],
         x.pc \in {"verify", "fail"} =>
           req[r].pc \in {"verify", "fail"} /\ x.actor = req[r].actor /\ x.from = req[r].from
  PROVE  InFlight(k)' \subseteq InFlight(k)
<1>1. req'[r] = x /\ \A q \in Request \ {r} : req'[q] = req[q]
  BY DEF RequestsInv
<1> QED
  BY <1>1 DEF InFlight, Keys

\* Unless a key is counted or a request comes in, its part of the invariant
\* stays: requests in flight only get fewer.
LEMMA FewerInFlight ==
  ASSUME LimitsInv, ThrottleCounts, UNCHANGED limits,
         \A k \in Key : InFlight(k)' \subseteq InFlight(k)
  PROVE  ThrottleCounts'
<1> SUFFICES ASSUME NEW k \in Key, throttle[k].blocked
             PROVE  guesses[k] + Cardinality(InFlight(k)') < Tries + Cardinality(Request)
  BY DEF ThrottleCounts, limits
<1>1. guesses[k] \in Nat /\ guesses[k] + Cardinality(InFlight(k)) < Tries + Cardinality(Request)
  BY DEF ThrottleCounts, LimitsInv
<1>2. Cardinality(InFlight(k)') <= Cardinality(InFlight(k))
  BY NoMoreInFlight
<1> QED
  BY <1>1, <1>2, InFlightCounted, InFlightCountedNext

\* LoginWithContext lets in whom neither the name nor the address blocks: the
\* keys that are blocked have no request more.
LEMMA LoginCounts ==
  ASSUME AllInv, ThrottleCounts, NEW r \in Request, NEW u \in User, NEW a \in Address,
         Login(r, u, a)
  PROVE  ThrottleCounts'
<1> DEFINE x == [pc |-> "verify", actor |-> u, target |-> None, from |-> a]
<1>1. /\ req' = [req EXCEPT ![r] = x] /\ UNCHANGED limits
      /\ ~throttle[u].blocked /\ ~throttle[a].blocked
  BY DEF Login, Knock
<1>2. req'[r] = x /\ \A q \in Request \ {r} : req'[q] = req[q]
  BY <1>1 DEF AllInv, RequestsInv
<1>3. ASSUME NEW k \in Key, throttle[k].blocked PROVE InFlight(k)' \subseteq InFlight(k)
  <2>1. k # u /\ k # a
    BY <1>1, <1>3
  <2> QED
    BY <1>2, <2>1 DEF InFlight, Keys
<1> SUFFICES ASSUME NEW k \in Key, throttle[k].blocked
             PROVE  guesses[k] + Cardinality(InFlight(k)') < Tries + Cardinality(Request)
  BY <1>1 DEF ThrottleCounts, limits
<1>4. guesses[k] \in Nat /\ guesses[k] + Cardinality(InFlight(k)) < Tries + Cardinality(Request)
  BY DEF ThrottleCounts, AllInv, LimitsInv
<1>5. Cardinality(InFlight(k)') <= Cardinality(InFlight(k))
  BY <1>3, NoMoreInFlight
<1> QED
  BY <1>4, <1>5, InFlightCounted, InFlightCountedNext

\* What RecordLoginFailure makes of a count: it blocks at Tries.
LEMMA FailureCounts ==
  ASSUME NEW n \in 0..Tries
  PROVE  /\ n + 1 < Tries => ~Failure(n).blocked /\ Failure(n).count = n + 1
         /\ n + 1 >= Tries => Failure(n).blocked /\ Failure(n).count = Tries
<1> DEFINE m == IF n < Tries THEN n + 1 ELSE Tries
<1>1. Failure(n) = [count |-> m, blocked |-> m = Tries]
  BY DEF Failure
<1>2. CASE n + 1 < Tries
  <2>1. m = n + 1 /\ (m = Tries) = FALSE
    BY <1>2, TriesAssumption
  <2>2. Failure(n) = [count |-> n + 1, blocked |-> FALSE]
    BY <1>1, <2>1
  <2> QED
    BY <1>2, <2>2
<1>3. CASE ~(n + 1 < Tries)
  <2>1. m = Tries /\ (m = Tries) = TRUE
    BY <1>3, TriesAssumption
  <2>2. Failure(n) = [count |-> Tries, blocked |-> TRUE]
    BY <1>1, <2>1
  <2> QED
    BY <1>3, <2>2, TriesAssumption
<1> QED
  BY <1>2, <1>3

\* A failure is counted for both keys, and its request is over: a key that it
\* blocks had less than Tries, one that was blocked has one request less.
LEMMA FailureKeepsCounts ==
  ASSUME AllInv, ThrottleCounts, NEW r \in Request, RecordLoginFailure(r)
  PROVE  ThrottleCounts'
<1>1. req[r].pc = "fail" /\ req' = [req EXCEPT ![r] = Idle]
  BY DEF RecordLoginFailure, At, Done
<1>2. PICK over \in SUBSET Keys(r) :
        /\ throttle' = [k \in Key |->
             IF k \in over         THEN Failure(0)
             ELSE IF k \in Keys(r) THEN Failure(throttle[k].count) ELSE throttle[k]]
        /\ guesses' = [k \in Key |->
             IF k \in over         THEN 1
             ELSE IF k \in Keys(r) THEN guesses[k] + 1 ELSE guesses[k]]
  BY DEF RecordLoginFailure
<1>3. req'[r] = Idle /\ \A q \in Request \ {r} : req'[q] = req[q]
  BY <1>1 DEF AllInv, RequestsInv
<1>4. ASSUME NEW k PROVE InFlight(k)' \subseteq InFlight(k) \ {r}
  BY <1>3 DEF InFlight, Keys, Idle
<1> SUFFICES ASSUME NEW k \in Key
             PROVE  IF throttle'[k].blocked
                    THEN /\ throttle'[k].count = Tries
                         /\ guesses'[k] + Cardinality(InFlight(k)') < Tries + Cardinality(Request)
                    ELSE /\ guesses'[k] < Tries
                         /\ throttle'[k].count < Tries => guesses'[k] <= throttle'[k].count
  BY DEF ThrottleCounts
<1> DEFINE before == Cardinality(InFlight(k))
           after  == Cardinality(InFlight(k)')
           all    == Cardinality(Request)
<1>5. before \in Nat /\ after \in Nat /\ all \in Nat /\ before <= all /\ after <= before
  BY <1>4, InFlightCounted, InFlightCountedNext, NoMoreInFlight
<1>6. /\ guesses[k] \in Nat /\ throttle[k].count \in 0..Tries /\ Tries \in Nat \ {0}
      /\ IF throttle[k].blocked
         THEN throttle[k].count = Tries /\ guesses[k] + before < Tries + all
         ELSE /\ guesses[k] < Tries
              /\ throttle[k].count < Tries => guesses[k] <= throttle[k].count
  BY DEF AllInv, LimitsInv, ThrottleCounts
<1>7. CASE k \notin Keys(r)
  <2>1. throttle'[k] = throttle[k] /\ guesses'[k] = guesses[k]
    BY <1>2, <1>7
  <2> HIDE DEF before, after, all
  <2>2. guesses[k] + before < Tries + all => guesses[k] + after < Tries + all
    BY <1>5, <1>6
  <2> QED
    BY <1>6, <2>1, <2>2 DEF after, all
<1>8. CASE k \in Keys(r)
  <2>1. after + 1 <= before
    <3>1. r \in InFlight(k)
      BY <1>1, <1>8 DEF InFlight
    <3> QED
      BY <1>4, <3>1, OneLessInFlight
  <2> HIDE DEF before, after, all
  <2>2. CASE k \in over
    <3>1. throttle'[k] = Failure(0) /\ guesses'[k] = 1
      BY <1>2, <2>2
    <3>2. 1 + after < Tries + all
      BY <1>5, <1>6, <2>1
    <3>3. CASE Tries = 1
      <4>1. throttle'[k].blocked /\ throttle'[k].count = Tries
        BY <3>1, <3>3, FailureCounts
      <4> QED
        BY <3>1, <3>2, <4>1 DEF after, all
    <3>4. CASE Tries > 1
      <4>1. ~throttle'[k].blocked /\ throttle'[k].count = 1
        BY <3>1, <3>4, FailureCounts
      <4> QED
        BY <3>1, <3>4, <4>1
    <3> QED
      BY <1>6, <3>3, <3>4
  <2>3. CASE k \notin over
    <3>1. throttle'[k] = Failure(throttle[k].count) /\ guesses'[k] = guesses[k] + 1
      BY <1>2, <1>8, <2>3
    <3>2. CASE throttle[k].count + 1 < Tries
      <4>1. ~throttle'[k].blocked /\ throttle'[k].count = throttle[k].count + 1
        BY <1>6, <3>1, <3>2, FailureCounts
      <4>2. ~throttle[k].blocked /\ guesses[k] <= throttle[k].count
        BY <1>6, <3>2
      <4> QED
        BY <1>6, <3>1, <3>2, <4>1, <4>2
    <3>3. CASE throttle[k].count + 1 >= Tries
      <4>1. throttle'[k].blocked /\ throttle'[k].count = Tries
        BY <1>6, <3>1, <3>3, FailureCounts
      <4>2. guesses[k] + 1 + after < Tries + all
        BY <1>5, <1>6, <2>1
      <4> QED
        BY <3>1, <4>1, <4>2 DEF after, all
    <3> QED
      BY <1>6, <3>2, <3>3
  <2> QED
    BY <2>2, <2>3
<1> QED
  BY <1>7, <1>8

\* A key that is forgotten or whose block is over is free, with no guess.
LEMMA FreeKeepsCounts ==
  ASSUME AllInv, ThrottleCounts, NEW K,
         \A k \in Key \intersect K : ~throttle'[k].blocked /\ guesses'[k] = 0
                                       /\ throttle'[k].count \in Nat,
         \A k \in Key \ K : throttle'[k] = throttle[k] /\ guesses'[k] = guesses[k],
         \A k \in Key : InFlight(k)' \subseteq InFlight(k)
  PROVE  ThrottleCounts'
<1> SUFFICES ASSUME NEW k \in Key
             PROVE  IF throttle'[k].blocked
                    THEN /\ throttle'[k].count = Tries
                         /\ guesses'[k] + Cardinality(InFlight(k)') < Tries + Cardinality(Request)
                    ELSE /\ guesses'[k] < Tries
                         /\ throttle'[k].count < Tries => guesses'[k] <= throttle'[k].count
  BY DEF ThrottleCounts
<1>1. CASE k \in K
  BY <1>1
<1>2. CASE k \notin K
  <2>1. throttle'[k] = throttle[k] /\ guesses'[k] = guesses[k] /\ guesses[k] \in Nat
    BY <1>2 DEF AllInv, LimitsInv
  <2>2. Cardinality(InFlight(k)') <= Cardinality(InFlight(k))
    BY NoMoreInFlight
  <2>3. guesses[k] + Cardinality(InFlight(k)) < Tries + Cardinality(Request) =>
          guesses[k] + Cardinality(InFlight(k)') < Tries + Cardinality(Request)
    BY <2>1, <2>2, InFlightCounted, InFlightCountedNext
  <2> QED
    BY <2>1, <2>3 DEF ThrottleCounts
<1> QED
  BY <1>1, <1>2

\* ClearLoginThrottle, DeleteLoginThrottlesBefore and the end of a block.
LEMMA FreeingKeepsCounts ==
  ASSUME AllInv, ThrottleCounts,
         \/ \E r \in Request : ClearLoginThrottle(r)
         \/ \E k \in Key : Unblock(k) \/ DeleteLoginThrottlesBefore(k)
  PROVE  ThrottleCounts'
<1>1. ASSUME NEW K, Forget(K), \A k \in Key : InFlight(k)' \subseteq InFlight(k)
      PROVE  ThrottleCounts'
  <2>1. \A k \in Key \intersect K : ~throttle'[k].blocked /\ guesses'[k] = 0
                                      /\ throttle'[k].count \in Nat
    BY <1>1 DEF Forget, Open
  <2>2. \A k \in Key \ K : throttle'[k] = throttle[k] /\ guesses'[k] = guesses[k]
    BY <1>1 DEF Forget
  <2> QED
    BY <1>1, <2>1, <2>2, FreeKeepsCounts
<1>2. ASSUME NEW r \in Request, ClearLoginThrottle(r) PROVE ThrottleCounts'
  <2>1. PICK pc \in {"clearip", "open"}, K \in {{req[r].actor}, {req[r].from}} :
          Forget(K) /\ GoTo(r, pc)
    BY <1>2 DEF ClearLoginThrottle
  <2>2. Sound(req[r])
    BY DEF AllInv, RequestsInv
  <2> DEFINE x == [req[r] EXCEPT !.pc = pc]
  <2>3. req' = [req EXCEPT ![r] = x] /\ x.pc = pc
    BY <2>1, <2>2 DEF GoTo, Sound
  <2>4. ASSUME NEW k \in Key PROVE InFlight(k)' \subseteq InFlight(k)
    <3>1. RequestsInv /\ x.pc \notin {"verify", "fail"}
      BY <2>1, <2>3 DEF AllInv
    <3> HIDE DEF x
    <3> QED
      BY <2>3, <3>1, MovesOutOfFlight
  <2> QED
    BY <1>1, <2>1, <2>4
<1>3. ASSUME NEW k \in Key, DeleteLoginThrottlesBefore(k) PROVE ThrottleCounts'
  <2>1. Forget({k}) /\ \A l \in Key : InFlight(l)' \subseteq InFlight(l)
    BY <1>3 DEF DeleteLoginThrottlesBefore, InFlight, Keys
  <2> QED
    BY <1>1, <2>1
<1>4. ASSUME NEW k \in Key, Unblock(k) PROVE ThrottleCounts'
  <2>1. PICK n \in Nat : throttle[k] \in [count: {n}, blocked: BOOLEAN]
    BY DEF AllInv, LimitsInv
  <2>2. throttle' = [throttle EXCEPT ![k] = [throttle[k] EXCEPT !.blocked = FALSE]]
        /\ guesses' = [guesses EXCEPT ![k] = 0] /\ UNCHANGED req
    BY <1>4 DEF Unblock
  <2>3. throttle'[k] = [throttle[k] EXCEPT !.blocked = FALSE] /\ guesses'[k] = 0
    BY <2>2 DEF AllInv, LimitsInv
  <2>4. ~throttle'[k].blocked /\ throttle'[k].count \in Nat
    BY <2>1, <2>3
  <2>5. \A l \in Key \ {k} : throttle'[l] = throttle[l] /\ guesses'[l] = guesses[l]
    BY <2>2 DEF AllInv, LimitsInv
  <2>6. \A l \in Key : InFlight(l)' \subseteq InFlight(l)
    BY <2>2 DEF InFlight, Keys
  <2> QED
    BY <2>3, <2>4, <2>5, <2>6, FreeKeepsCounts
<1> QED
  BY <1>2, <1>3, <1>4

\* A request that moves in none of these ways leaves the counts as they are.
LEMMA MovesKeepCounts ==
  ASSUME AllInv, ThrottleCounts, UNCHANGED limits, NEW r \in Request,
         \E x : /\ req' = [req EXCEPT ![r] = x]
                /\ x.pc \in {"verify", "fail"} =>
                     /\ req[r].pc \in {"verify", "fail"}
                     /\ x.actor = req[r].actor /\ x.from = req[r].from
  PROVE  ThrottleCounts'
<1>0. RequestsInv
  BY DEF AllInv
<1> PICK x : /\ req' = [req EXCEPT ![r] = x]
             /\ x.pc \in {"verify", "fail"} =>
                  /\ req[r].pc \in {"verify", "fail"}
                  /\ x.actor = req[r].actor /\ x.from = req[r].from
  OBVIOUS
<1>1. ASSUME NEW k \in Key PROVE InFlight(k)' \subseteq InFlight(k)
  BY <1>0, MovesOutOfFlight
<1> QED
  BY <1>1, FewerInFlight DEF AllInv

\* Whatever else a handler does, it is not guessing, or no longer.
LEMMA OthersKeepCounts ==
  ASSUME AllInv, ThrottleCounts, NEW r \in Request,
         \/ Verify(r) \/ CreateSession(r)
         \/ \E s \in Session, u \in User, op \in Personal \union Administrative :
              Authenticate(r, s, op, u)
         \/ ChangePassword(r) \/ ResetPassword(r)
         \/ Disable(r) \/ Enable(r) \/ RevokeSessions(r)
         \/ CreateUser(r) \/ CountBusiness(r) \/ Erase(r)
         \/ CreateResource(r) \/ TransferResources(r) \/ Abandon(r)
  PROVE  ThrottleCounts'
<1> DEFINE Moved(x) == /\ req' = [req EXCEPT ![r] = x]
                       /\ x.pc \in {"verify", "fail"} =>
                            /\ req[r].pc \in {"verify", "fail"}
                            /\ x.actor = req[r].actor /\ x.from = req[r].from
<1>0. Sound(req[r])
  BY DEF AllInv, RequestsInv
<1>1. ASSUME Done(r) PROVE \E x : Moved(x)
  <2>1. Moved(Idle)
    BY <1>1 DEF Done, Idle
  <2> QED
    BY <2>1
<1>2. ASSUME NEW pc, pc \notin {"verify", "fail"}, GoTo(r, pc) PROVE \E x : Moved(x)
  <2> DEFINE x == [req[r] EXCEPT !.pc = pc]
  <2>1. x.pc = pc
    BY <1>0 DEF Sound
  <2>2. Moved(x)
    BY <1>2, <2>1 DEF GoTo
  <2> QED
    BY <2>2
<1>3. CASE Verify(r)
  <2>1. PICK pc \in {"clear", "fail"} : GoTo(r, pc)
    BY <1>3 DEF Verify
  <2> DEFINE x == [req[r] EXCEPT !.pc = pc]
  <2>2. req[r].pc = "verify" /\ x.actor = req[r].actor /\ x.from = req[r].from /\ UNCHANGED limits
    BY <1>0, <1>3 DEF Verify, At, Sound
  <2>3. Moved(x)
    BY <2>1, <2>2 DEF GoTo
  <2> QED
    BY <2>2, <2>3, MovesKeepCounts
<1>4. CASE \E s \in Session, u \in User, op \in Personal \union Administrative :
             Authenticate(r, s, op, u)
  <2>1. PICK s \in Session, u \in User, op \in Personal \union Administrative :
          Authenticate(r, s, op, u)
    BY <1>4
  <2> DEFINE x == [pc |-> op, actor |-> None, target |-> u, from |-> None]
  <2>2. Moved(x) /\ UNCHANGED limits
    BY <2>1 DEF Authenticate, Personal, Administrative
  <2> QED
    BY <2>2, MovesKeepCounts
<1>5. CASE Disable(r)
  <2>1. UNCHANGED limits /\ (GoTo(r, "cutoff") \/ Done(r))
    BY <1>5 DEF Disable, SwitchOff, CutOff
  <2> QED
    BY <1>1, <1>2, <2>1, MovesKeepCounts
<1>6. CASE CountBusiness(r)
  <2>1. UNCHANGED limits /\ GoTo(r, "erase")
    BY <1>6 DEF CountBusiness
  <2> QED
    BY <1>2, <2>1, MovesKeepCounts
<1>7. CASE \/ CreateSession(r) \/ ChangePassword(r) \/ ResetPassword(r) \/ Enable(r)
           \/ RevokeSessions(r) \/ CreateUser(r) \/ Erase(r) \/ CreateResource(r)
           \/ TransferResources(r) \/ Abandon(r)
  <2>1. UNCHANGED limits /\ Done(r)
    BY <1>7 DEF CreateSession, InsertSession, ChangePassword, ResetPassword, UpdatePassword,
                Enable, RevokeSessions, CreateUser, Erase, CreateResource, TransferResources,
                Abandon
  <2> QED
    BY <1>1, <2>1, MovesKeepCounts
<1> QED
  BY <1>3, <1>4, <1>5, <1>6, <1>7

\* Every step keeps the throttle's part.
LEMMA StepKeepsCounts ==
  ASSUME AllInv, ThrottleCounts, [Next]_vars
  PROVE  ThrottleCounts'
<1>1. ASSUME NEW r \in Request, Handler(r) PROVE ThrottleCounts'
  <2> USE DEF Handler
  <2>1. CASE \E u \in User, a \in Address : Login(r, u, a)
    BY <2>1, LoginCounts
  <2>2. CASE RecordLoginFailure(r)
    BY <2>2, FailureKeepsCounts
  <2>3. CASE ClearLoginThrottle(r)
    BY <2>3, FreeingKeepsCounts
  <2> QED
    BY <1>1, <2>1, <2>2, <2>3, OthersKeepCounts
<1>2. ASSUME UNCHANGED <<limits, req>> PROVE ThrottleCounts'
  <2>1. \A k \in Key : InFlight(k)' \subseteq InFlight(k)
    BY <1>2 DEF InFlight, Keys
  <2> QED
    BY <1>2, <2>1, FewerInFlight DEF AllInv
<1>3. ASSUME \/ \E s \in Session : RevokeSession(s) \/ Expire(s)
             \/ \E u \in User : DeleteResources(u)
             \/ UNCHANGED vars
      PROVE  ThrottleCounts'
  BY <1>2, <1>3 DEF RevokeSession, Expire, DeleteResources, vars
<1>4. ASSUME \E k \in Key : Unblock(k) \/ DeleteLoginThrottlesBefore(k) PROVE ThrottleCounts'
  BY <1>4, FreeingKeepsCounts
<1> QED
  BY <1>1, <1>3, <1>4 DEF Next

-----------------------------------------------------------------------------
\* The invariant holds for every number of accounts, tokens, requests at once
\* and addresses, and every limit.
THEOREM AccountsInvariant == Spec => []AccountsInv
<1>1. Init => AccountsInv
  BY InitAccounts
<1>2. AccountsInv /\ [Next]_vars => AccountsInv'
  <2> SUFFICES ASSUME AccountsInv, [Next]_vars PROVE AccountsInv'
    OBVIOUS
  <2>1. AllInv'
    BY Parts, StepKeeps DEF AllInv
  <2>2. (AccountsInv <=> RowsInv /\ LimitsInv /\ RequestsInv /\ OutdatedIsCounted)'
    BY Parts, PTL
  <2> QED
    BY <2>1, <2>2 DEF AllInv
<1> QED
  BY <1>1, <1>2, PTL DEF Spec

\* Rows, sessions, limits and requests keep their types.
THEOREM TypeCorrect == Spec => []TypeOK
<1>1. AccountsInv => TypeOK
  BY DEF AccountsInv
<1> QED
  BY <1>1, AccountsInvariant, PTL

\* UpdateEnabled and DeleteUser leave an enabled administrator: however many
\* of them disable and delete each other at once, the initial one is there.
THEOREM AdministratorStays == Spec => []AdministratorRemains
<1>1. AccountsInv => AdministratorRemains
  BY DEF AccountsInv, RootIsSafe, AdministratorRemains
<1> QED
  BY <1>1, AccountsInvariant, PTL

\* DeleteUser orphans nothing, whatever came between its count and its
\* deletion, and a login that ends after it opens no session.
THEOREM NothingIsOrphaned == Spec => []NothingOrphaned
<1>1. AccountsInv => NothingOrphaned
  BY DEF AccountsInv
<1> QED
  BY <1>1, AccountsInvariant, PTL

\* Once UpdateEnabled is over, no session from before it can be used again,
\* not by enabling the account and not by another request for the same account.
THEOREM OutdatedStaysUseless == Spec => []OutdatedIsUseless
<1>1. AccountsInv => OutdatedIsUseless
  BY DEF AccountsInv, OutdatedIsCounted, OutdatedIsUseless
<1> QED
  BY <1>1, AccountsInvariant, PTL
\* However many requests guess at once, each gets one try beyond the limit at
\* most: LoginWithContext reads the throttle, RecordLoginFailure counts later.
THEOREM GuessesAreBounded == Spec => []GuessesBounded
<1>1. Init => ThrottleCounts
  BY DEF Init, ThrottleCounts, Open
<1>2. AccountsInv /\ ThrottleCounts /\ [Next]_vars => ThrottleCounts'
  BY Parts, StepKeepsCounts DEF AllInv
<1>3. AccountsInv /\ ThrottleCounts => GuessesBounded
  <2> SUFFICES ASSUME AccountsInv, ThrottleCounts, NEW k \in Key
               PROVE  guesses[k] < Tries + Cardinality(Request)
    BY DEF GuessesBounded
  <2>1. guesses[k] \in Nat
    BY Parts DEF LimitsInv
  <2> QED
    BY <2>1, InFlightCounted DEF ThrottleCounts
<1> QED
  BY <1>1, <1>2, <1>3, AccountsInvariant, PTL DEF Spec
=============================================================================
