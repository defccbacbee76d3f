------------------------------ MODULE Accounts ------------------------------
(***************************************************************************)
(* application/auth.go over store/auth.go and store/admin.go: logins and   *)
(* their throttle, sessions, password changes, and the administration of   *)
(* accounts.                                                               *)
(*                                                                         *)
(* A request is a handler: the login, or what follows once authMiddleware  *)
(* let it in.  Between two of its statements anything else may run, and it *)
(* may end at any of them: the client goes away, the store fails, the      *)
(* process dies.  A row that is only read again to name the target in the  *)
(* audit trail is not read here.                                           *)
(***************************************************************************)
EXTENDS Naturals, FiniteSets

CONSTANTS
  User,        \* identifiers of accounts; each is given out once
  Admins,      \* those with the role admin: a role never changes
  Root,        \* the initial administrator
  Session,     \* tokens; one is drawn that has no row
  Address,     \* source IPs
  Request,
  Guessed,     \* bound: the names that are tried with a wrong password
  Tries        \* the failure that starts to block: 5

ASSUME RootAssumption  == Root \in Admins /\ Admins \subseteq User
ASSUME TriesAssumption == Tries \in Nat \ {0}
ASSUME KeyAssumption   == User \intersect Address = {}
ASSUME NoneAssumption  == "none" \notin User
ASSUME RequestAssumption == IsFiniteSet(Request)

VARIABLES
  users, known,   \* rows; identifiers given out so far
  enabled, temporary, \* columns enabled and must_change_password
  owns,           \* accounts with a package or an environment
  session,        \* table sessions: token to account, rows not yet past expires_at
  throttle,       \* table login_throttles
  req,
  guesses,        \* history: failures since a key was last free again
  outdated, cut   \* history: see SwitchOff

accounts == <<users, known, enabled, temporary, owns>>
logins   == <<session, outdated, cut>>
limits   == <<throttle, guesses>>
vars     == <<accounts, logins, limits, req>>

None == "none"
Idle == [pc |-> "idle", actor |-> None, target |-> None, from |-> None]
Key  == User \union Address
Open == [count |-> 0, blocked |-> FALSE]

Init ==
  /\ users \in {U \in SUBSET User : Root \in U} /\ known = users
  /\ enabled = users /\ temporary = users /\ owns = {}
  /\ session = [s \in Session |-> None]
  /\ throttle = [k \in Key |-> Open] /\ guesses = [k \in Key |-> 0]
  /\ req = [r \in Request |-> Idle]
  /\ outdated = {} /\ cut = {}

SessionsOf(u) == {s \in Session : session[s] = u}
Usable(s)     == session[s] \in enabled
At(r, pc)     == req[r].pc = pc
GoTo(r, pc)   == req' = [req EXCEPT ![r].pc = pc]
Done(r)       == req' = [req EXCEPT ![r] = Idle]

\* A token that has no row says nothing any more.
Remove(S) ==
  /\ session' = [s \in Session |-> IF s \in S THEN None ELSE session[s]]
  /\ outdated' = outdated \ S

DeleteUserSessions(u) == Remove(SessionsOf(u)) /\ cut' = cut \ {u}

-----------------------------------------------------------------------------
(***************************************************************************)
(* LoginWithContext.                                                       *)
(***************************************************************************)
\* LoginThrottleUntil for the name and the address.  (Mutation: for the name.)
Knock(r, u, a, keys) ==
  /\ At(r, "idle")
  /\ \A k \in keys : ~throttle[k].blocked
  /\ req' = [req EXCEPT ![r] = [pc |-> "verify", actor |-> u, target |-> None, from |-> a]]
  /\ UNCHANGED <<accounts, logins, limits>>
KnockByName(r, u, a) == Knock(r, u, a, {u})
Login(r, u, a)       == Knock(r, u, a, {u, a})

\* The password is right or wrong; a disabled account counts as a failure.
Verify(r) ==
  /\ At(r, "verify")
  /\ \/ req[r].actor \in users \intersect enabled /\ GoTo(r, "clear")
     \/ req[r].actor \in Guessed \union (users \ enabled) /\ GoTo(r, "fail")
  /\ UNCHANGED <<accounts, logins, limits>>

Keys(r) == {req[r].actor, req[r].from}

\* Counts beyond Tries block alike.
Failure(count) ==
  LET n == IF count < Tries THEN count + 1 ELSE Tries
  IN  [count |-> n, blocked |-> n = Tries]

\* One transaction for both keys.  A row whose window is over, by the time
\* the request came in, starts anew.
RecordLoginFailure(r) ==
  /\ At(r, "fail")
  /\ \E over \in SUBSET Keys(r) :
       /\ throttle' = [k \in Key |->
            IF k \in over         THEN Failure(0)
            ELSE IF k \in Keys(r) THEN Failure(throttle[k].count) ELSE throttle[k]]
       /\ guesses' = [k \in Key |->
            IF k \in over         THEN 1
            ELSE IF k \in Keys(r) THEN guesses[k] + 1 ELSE guesses[k]]
  /\ Done(r)
  /\ UNCHANGED <<accounts, logins>>

Forget(K) ==
  /\ throttle' = [k \in Key |-> IF k \in K THEN Open ELSE throttle[k]]
  /\ guesses' = [k \in Key |-> IF k \in K THEN 0 ELSE guesses[k]]

\* One statement for each key.  (DeleteExpiredSessions, which follows, removes
\* what nobody reads any more.)
ClearLoginThrottle(r) ==
  /\ \/ At(r, "clear") /\ Forget({req[r].actor}) /\ GoTo(r, "clearip")
     \/ At(r, "clearip") /\ Forget({req[r].from}) /\ GoTo(r, "open")
  /\ UNCHANGED <<accounts, logins>>

\* sessions.user_id refers to users.  (Mutation: it does not.)
InsertSession(r, U) ==
  /\ At(r, "open")
  /\ req[r].actor \in U
  /\ \E s \in Session : /\ session[s] = None
                        /\ session' = [session EXCEPT ![s] = req[r].actor]
  /\ Done(r)
  /\ UNCHANGED <<accounts, outdated, cut, limits>>
InsertUnchecked(r) == InsertSession(r, User)
CreateSession(r)   == InsertSession(r, users)

-----------------------------------------------------------------------------
(***************************************************************************)
(* authMiddleware, requireAdmin and what may be asked of whom: from here   *)
(* on the request works with the account as it was read.  Roles and the    *)
(* initial administrator never change, so the handlers' questions about    *)
(* these are put here, too, and nothing is asked of the actor later.       *)
(***************************************************************************)
Personal       == {"password", "create"}
Administrative == {"reset", "disable", "enable", "revoke", "delete", "transfer", "invite", "create"}

\* (Mutation: the initial administrator is like others.)
ProtectsActor(op, actor) == IF op \in {"disable", "delete", "revoke"} THEN {actor} ELSE {}

Protects(op, actor) ==
  CASE op \in {"disable", "delete"} -> {Root, actor}
    [] op = "revoke"                -> {actor}
    [] OTHER                        -> {}

Permitted(op, actor, target) ==
  \/ op \in Personal /\ target = actor
  \/ /\ op \in Administrative /\ actor \in Admins
     /\ target \notin Protects(op, actor)
     /\ op = "invite" => target = actor        \* it has no target
     /\ op = "create" => target \in enabled

Authenticate(r, s, op, target) ==
  /\ At(r, "idle")
  /\ Usable(s)
  /\ session[s] \in temporary => op = "password"
  /\ Permitted(op, session[s], target)
  /\ req' = [req EXCEPT ![r] = [pc |-> op, actor |-> None, target |-> target, from |-> None]]
  /\ UNCHANGED <<accounts, logins, limits>>

\* UpdateUserPasswordAndRevokeSessions, one transaction.  Passwords are left
\* out, so is the comparison with the current one.
UpdatePassword(r, u, change) ==
  /\ u \in users
  /\ temporary' = IF change THEN temporary \union {u} ELSE temporary \ {u}
  /\ DeleteUserSessions(u)
  /\ Done(r)
  /\ UNCHANGED <<users, known, enabled, owns, limits>>
ChangePassword(r) == At(r, "password") /\ UpdatePassword(r, req[r].target, FALSE)
ResetPassword(r)  ==
  At(r, "reset") /\ \E change \in BOOLEAN : UpdatePassword(r, req[r].target, change)

-----------------------------------------------------------------------------
(***************************************************************************)
(* UpdateEnabled takes two statements.  outdated are the sessions there    *)
(* were when their account was disabled; cut are the accounts for which    *)
(* the second statement never came.                                        *)
(***************************************************************************)
SwitchOff(r) ==
  /\ req[r].target \in users
  /\ enabled' = enabled \ {req[r].target}
  /\ outdated' = outdated \union SessionsOf(req[r].target)
  /\ UNCHANGED <<users, known, temporary, owns, session, cut, limits>>

CutOff(r) == DeleteUserSessions(req[r].target) /\ UNCHANGED <<accounts, limits>>

\* (Mutation: the order is reversed.)
DisableReversed(r) ==
  \/ At(r, "disable") /\ CutOff(r) /\ GoTo(r, "cutoff")
  \/ At(r, "cutoff") /\ SwitchOff(r) /\ Done(r)
Disable(r) ==
  \/ At(r, "disable") /\ SwitchOff(r) /\ GoTo(r, "cutoff")
  \/ At(r, "cutoff") /\ CutOff(r) /\ Done(r)

Enable(r) ==
  /\ At(r, "enable")
  /\ req[r].target \in users
  /\ enabled' = enabled \union {req[r].target}
  /\ Done(r)
  /\ UNCHANGED <<users, known, temporary, owns, logins, limits>>

RevokeSessions(r) ==
  /\ At(r, "revoke")
  /\ req[r].target \in users
  /\ DeleteUserSessions(req[r].target)
  /\ Done(r)
  /\ UNCHANGED <<accounts, limits>>

\* One's own, or as an administrator; with a temporary password, to log out.
RevokeSession(s) ==
  /\ session[s] # None
  /\ \E t \in Session : /\ Usable(t)
                        /\ session[t] \in {session[s]} \union Admins
                        /\ session[t] \in temporary => t = s
  /\ Remove({s})
  /\ UNCHANGED <<accounts, cut, limits, req>>

-----------------------------------------------------------------------------
(***************************************************************************)
(* Accounts and what they own.                                             *)
(***************************************************************************)
CreateUser(r) ==
  /\ At(r, "invite")
  /\ \E u \in User \ known :
       /\ users' = users \union {u} /\ known' = known \union {u}
       /\ enabled' = enabled \union {u} /\ temporary' = temporary \union {u}
  /\ Done(r)
  /\ UNCHANGED <<owns, logins, limits>>

\* DeleteUser: the resources are counted, later the row is deleted, which a
\* resource prevents and sessions follow (ON DELETE CASCADE).
CountBusiness(r) ==
  /\ At(r, "delete")
  /\ req[r].target \in users \ owns
  /\ GoTo(r, "erase")
  /\ UNCHANGED <<accounts, logins, limits>>

Erase(r) ==
  LET u == req[r].target IN
  /\ At(r, "erase")
  /\ u \in users \ owns
  /\ users' = users \ {u} /\ enabled' = enabled \ {u} /\ temporary' = temporary \ {u}
  /\ DeleteUserSessions(u)
  /\ Done(r)
  /\ UNCHANGED <<known, owns, limits>>

\* An environment or a package; the row refers to its owner.
CreateResource(r) ==
  /\ At(r, "create")
  /\ req[r].target \in users
  /\ owns' = owns \union {req[r].target}
  /\ Done(r)
  /\ UNCHANGED <<users, known, enabled, temporary, logins, limits>>

DeleteResources(u) ==
  /\ u \in owns
  /\ owns' = owns \ {u}
  /\ UNCHANGED <<users, known, enabled, temporary, logins, limits, req>>

TransferResources(r) ==
  LET s == req[r].target IN
  /\ At(r, "transfer")
  /\ s \in users
  /\ \E t \in (users \intersect enabled) \ {s} :
       owns' = IF s \in owns THEN (owns \ {s}) \union {t} ELSE owns
  /\ DeleteUserSessions(s)
  /\ Done(r)
  /\ UNCHANGED <<users, known, enabled, temporary, limits>>

-----------------------------------------------------------------------------
\* A request is refused, its client goes away, the store fails, DP dies.
Abandon(r) ==
  /\ ~At(r, "idle")
  /\ Done(r)
  /\ cut' = IF At(r, "cutoff") THEN cut \union ({req[r].target} \intersect users) ELSE cut
  /\ UNCHANGED <<accounts, session, outdated, limits>>

\* Time passes.  An expired row is read by nobody.
Expire(s) ==
  /\ session[s] # None
  /\ Remove({s})
  /\ UNCHANGED <<accounts, cut, limits, req>>

Unblock(k) ==
  /\ throttle[k].blocked
  /\ throttle' = [throttle EXCEPT ![k].blocked = FALSE]
  /\ guesses' = [guesses EXCEPT ![k] = 0]
  /\ UNCHANGED <<accounts, logins, req>>

DeleteLoginThrottlesBefore(k) ==
  /\ throttle[k].count > 0 /\ ~throttle[k].blocked
  /\ Forget({k})
  /\ UNCHANGED <<accounts, logins, req>>

Handler(r) ==
  \/ \E u \in User, a \in Address : Login(r, u, a)
  \/ Verify(r) \/ RecordLoginFailure(r) \/ ClearLoginThrottle(r) \/ CreateSession(r)
  \/ \E s \in Session, u \in User, op \in Personal \union Administrative :
        Authenticate(r, s, op, u)
  \/ ChangePassword(r) \/ ResetPassword(r)
  \/ Disable(r) \/ Enable(r) \/ RevokeSessions(r)
  \/ CreateUser(r) \/ CountBusiness(r) \/ Erase(r)
  \/ CreateResource(r) \/ TransferResources(r)
  \/ Abandon(r)

Next ==
  \/ \E r \in Request : Handler(r)
  \/ \E s \in Session : RevokeSession(s) \/ Expire(s)
  \/ \E u \in User : DeleteResources(u)
  \/ \E k \in Key : Unblock(k) \/ DeleteLoginThrottlesBefore(k)

Spec == Init /\ [][Next]_vars

-----------------------------------------------------------------------------
\* Every variable has its type: users and what refers to it, sessions,
\* login_throttles, the handlers.
TypeOK ==
  /\ users \subseteq known /\ known \subseteq User
  /\ enabled \subseteq users /\ temporary \subseteq users /\ owns \subseteq User
  /\ session \in [Session -> User \union {None}]
  /\ outdated \subseteq Session /\ cut \subseteq User
  /\ throttle \in [Key -> [count: 0..Tries, blocked: BOOLEAN]]
  /\ guesses \in [Key -> Nat]
  /\ req \in [Request -> [pc: {"idle", "verify", "fail", "clear", "clearip", "open",
                                "cutoff", "erase"}
                              \union Personal \union Administrative,
                          actor: User \union {None}, target: User \union {None},
                          from: Address \union {None}]]

\* However administrators disable and delete each other, somebody is left who
\* can administer (docs/architecture.md 6.1: the initial administrator).
AdministratorRemains == users \intersect enabled \intersect Admins # {}

\* No session and no resource belongs to an account that is gone, whatever ran
\* between the count of its resources, or a verified login, and the deletion.
NothingOrphaned ==
  /\ owns \subseteq users
  /\ \A s \in Session : session[s] \in users \union {None}

\* A session from before its account was disabled cannot be used, also not once
\* the account is enabled again, unless the disabling is not over or was cut
\* short (docs/architecture.md 6.2: disabling deletes the sessions).
Disabling(u) == u \in cut \/ \E r \in Request : At(r, "cutoff") /\ req[r].target = u

OutdatedIsUseless ==
  \A s \in outdated : Usable(s) => Disabling(session[s])

\* Wrong passwords for a name, and from an address, between two free periods:
\* the throttle is read before and written after a password is verified, so
\* requests in parallel get one try each beyond the limit, and no more.
GuessesBounded == \A k \in Key : guesses[k] < Tries + Cardinality(Request)

-----------------------------------------------------------------------------
(***************************************************************************)
(* The inductive invariant (proofs are in Accounts_proofs): nobody is      *)
(* about to disable or delete the initial administrator, and a session     *)
(* that is outdated is there only while a request has yet to delete it.    *)
(***************************************************************************)
RootIsSafe ==
  /\ Root \in users \intersect enabled
  /\ \A r \in Request : req[r].pc \in {"disable", "cutoff", "delete", "erase"} => req[r].target # Root

OutdatedIsCounted ==
  \A s \in outdated : \E u \in users : session[s] = u /\ Disabling(u)

RequestsKnow ==
  \A r \in Request :
    /\ req[r].pc \in {"verify", "fail", "clear", "clearip", "open"} =>
         req[r].actor \in User /\ req[r].from \in Address
    /\ req[r].pc \in Personal \union Administrative \union {"cutoff", "erase"} => req[r].target \in User

AccountsInv ==
  TypeOK /\ RequestsKnow /\ RootIsSafe /\ NothingOrphaned /\ OutdatedIsCounted

\* The throttle as it was read still lets the requests in flight guess: while a
\* key is free less than Tries were counted since it was last free again, and
\* once it is blocked each request in flight has one more guess, but the one
\* that blocked it is over.
InFlight(k) == {r \in Request : req[r].pc \in {"verify", "fail"} /\ k \in Keys(r)}

ThrottleCounts ==
  \A k \in Key :
    IF throttle[k].blocked
    THEN /\ throttle[k].count = Tries
         /\ guesses[k] + Cardinality(InFlight(k)) < Tries + Cardinality(Request)
    ELSE /\ guesses[k] < Tries
         /\ throttle[k].count < Tries => guesses[k] <= throttle[k].count
=============================================================================
