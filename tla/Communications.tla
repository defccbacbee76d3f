--------------------------- MODULE Communications ---------------------------
(***************************************************************************)
(* application/communications.go over store/communications.go, and what a  *)
(* browser shows of it (web/src/realtime).  One thread between an account  *)
(* and the administrators: threads share nothing but the hub.              *)
(*                                                                         *)
(* A handler commits its transaction, reads the result back, lists the     *)
(* accounts to tell, and publishes.  The event carries no content; the     *)
(* browser reads everything again.                                         *)
(***************************************************************************)
EXTENDS RealtimeHub, Sequences

CONSTANTS
  Admins,
  Target,       \* the account the thread is with
  Request,
  MaxMessages,  \* bound: messages of the thread
  Switched      \* bound: the accounts that are disabled and enabled again

ASSUME PartyAssumption == Admins \subseteq Account /\ Target \in Account \ Admins
ASSUME SwitchedAssumption == Switched \subseteq Account
ASSUME MaxAssumption   == MaxMessages \in Nat

VARIABLES
  status,       \* of the thread, "none" before it is created
  timeline,     \* types of its messages
  unread,       \* recipients whose read_at is NULL: message and account
  enabled,      \* accounts
  req,
  fetch,        \* the browser's reading: "read" is answered, "old" outdated since
  loaded,       \* the browser has something to show, be it stale
  stale,        \* it shows less than was committed
  lost          \* history: what would have said so came to nothing

thread == <<status, timeline, unread>>
view   == <<fetch, loaded, stale, lost>>
vars   == <<hubVars, thread, enabled, req, view>>

Party == Admins \union {Target}
Idle  == [pc |-> "idle", to |-> {}]

Init ==
  /\ HubInit /\ owner \in [Connection -> Party]
  /\ status = "none" /\ timeline = <<>> /\ unread = {}
  /\ enabled = Account
  /\ req = [r \in Request |-> Idle]
  /\ fetch = [c \in Connection |-> "asked"] /\ loaded = [c \in Connection |-> FALSE]
  /\ stale = [c \in Connection |-> FALSE] /\ lost = [c \in Connection |-> FALSE]

At(r, pc) == req[r].pc = pc

-----------------------------------------------------------------------------
(***************************************************************************)
(* The transactions.  The caller was let in before, and nothing asks again *)
(* whether the account is still enabled: who may call is any account that  *)
(* has the role.                                                           *)
(***************************************************************************)
\* Who sees the difference at once: the accounts the caller names, and the
\* administrators.
Committed(r, affected) ==
  LET seen(c) == owner[c] \in affected \union (Admins \intersect enabled) IN
  /\ At(r, "idle")
  /\ req' = [req EXCEPT ![r] = [pc |-> "users", to |-> affected]]
  /\ stale' = [c \in Connection |-> stale[c] \/ seen(c)]
  /\ fetch' = [c \in Connection |-> IF seen(c) /\ fetch[c] = "read" THEN "old" ELSE fetch[c]]
  /\ UNCHANGED <<hubVars, enabled, loaded, lost>>

\* A message is unread by its recipients.
Insert(type, recipients, before) ==
  /\ Len(timeline) < MaxMessages
  /\ timeline' = Append(timeline, type)
  /\ unread' = before \union {<<Len(timeline) + 1, u>> : u \in recipients}

CreateCommunication(r) ==
  /\ status = "none" /\ Target \in enabled
  /\ status' = "open" /\ Insert("admin_message", {Target}, unread)
  /\ Committed(r, {Target})

UnreadWithout(u) == {x \in unread : x[2] # u}

MarkCommunicationRead(r, u) ==
  /\ status # "none"
  /\ unread' = UnreadWithout(u)
  /\ UNCHANGED <<status, timeline>>
  /\ Committed(r, {u})

\* A reply has read what it replies to.  (Mutations: it has not; the status is
\* not asked.)
Send(r, u, open, before) ==
  /\ status \in open
  /\ IF u \in Admins
     THEN Insert("admin_message", {Target}, unread)
     ELSE Insert("user_receipt", Admins \intersect enabled, before)
  /\ UNCHANGED status
  /\ Committed(r, {Target})
SendUnread(r, u)               == Send(r, u, {"open"}, unread)
SendAlways(r, u)               == Send(r, u, {"open", "closed"}, UnreadWithout(Target))
SendCommunicationMessage(r, u) == Send(r, u, {"open"}, UnreadWithout(Target))

ChangeCommunicationState(r) ==
  /\ \/ /\ status = "open" /\ status' = "closed"
        /\ Insert("system_closed", {Target}, unread)
     \/ /\ status = "closed" /\ status' = "open"
        /\ Insert("system_reopened", {Target}, unread)
  /\ Committed(r, {Target})

-----------------------------------------------------------------------------
(***************************************************************************)
(* publish, after the commit.                                              *)
(***************************************************************************)
Lose(S) == lost' = [c \in Connection |-> lost[c] \/ (stale[c] /\ c \in S)]

\* When it fails, the accounts the caller named are told.
ListUsers(r) ==
  /\ At(r, "users")
  /\ \/ /\ req' = [req EXCEPT ![r].pc = "publish", ![r].to = @ \union (Admins \intersect enabled)]
        /\ UNCHANGED lost
     \/ /\ req' = [req EXCEPT ![r].pc = "publish"]
        /\ Lose({c \in Connection : owner[c] \notin req[r].to})
  /\ UNCHANGED <<hubVars, thread, enabled, fetch, loaded, stale>>

PublishEvent(r) ==
  /\ At(r, "publish")
  /\ Publish(req[r].to)
  /\ req' = [req EXCEPT ![r] = Idle]
  /\ UNCHANGED <<thread, enabled, view>>

\* What was committed cannot be read back, and nobody is told.
Untold(r) ==
  /\ At(r, "users")
  /\ Lose(Connection)
  /\ req' = [req EXCEPT ![r] = Idle]
  /\ UNCHANGED <<hubVars, thread, enabled, fetch, loaded, stale>>

-----------------------------------------------------------------------------
(***************************************************************************)
(* The browser.  Invalidating a query that is being read reads it anew if  *)
(* it has been read before; its first reading goes on, and its answer      *)
(* counts as valid, which loses an event when it was given before.         *)
(***************************************************************************)
Spent(c) == ~loaded[c] /\ fetch[c] # "none"
Late(c)  == Spent(c) /\ fetch[c] = "old"

\* (Mutation: any reading that is under way goes on.)
AskUnlessAsked(c) == fetch' = IF fetch[c] = "none" THEN [fetch EXCEPT ![c] = "asked"] ELSE fetch
Ask(c)            == fetch' = IF Spent(c) THEN fetch ELSE [fetch EXCEPT ![c] = "asked"]

Sync(c) ==
  /\ SendSync(c)
  /\ Ask(c) /\ lost' = [lost EXCEPT ![c] = Late(c)]
  /\ UNCHANGED <<thread, enabled, req, loaded, stale>>

CommunicationChanged(c) ==
  /\ Forward(c)
  /\ Ask(c) /\ lost' = [lost EXCEPT ![c] = @ \/ Late(c)]
  /\ UNCHANGED <<thread, enabled, req, loaded, stale>>

OtherStep(c) ==
  /\ Connect(c) \/ Subscribe(c) \/ Leave(c) \/ Done(c) \/ Heartbeat(c) \/ Close(c)
  /\ UNCHANGED <<thread, enabled, req, view>>

\* The stream opens, the tab comes to the front, or 30 seconds are over.
Synchronize(c) ==
  /\ Ask(c)
  /\ UNCHANGED <<hubVars, thread, enabled, req, loaded, stale, lost>>

\* Another thread or list, not read before, is opened.
Select(c) ==
  /\ fetch' = [fetch EXCEPT ![c] = "asked"] /\ loaded' = [loaded EXCEPT ![c] = FALSE]
  /\ UNCHANGED <<hubVars, thread, enabled, req, stale, lost>>

\* GetCommunication, ListCommunications, CommunicationSummary.
GetCommunication(c) ==
  /\ session[c] /\ fetch[c] = "asked"
  /\ fetch' = [fetch EXCEPT ![c] = "read"]
  /\ UNCHANGED <<hubVars, thread, enabled, req, loaded, stale, lost>>

Show(c) ==
  /\ fetch[c] \in {"read", "old"}
  /\ fetch' = [fetch EXCEPT ![c] = "none"] /\ loaded' = [loaded EXCEPT ![c] = TRUE]
  /\ IF fetch[c] = "read"
     THEN stale' = [stale EXCEPT ![c] = FALSE] /\ lost' = [lost EXCEPT ![c] = FALSE]
     ELSE UNCHANGED <<stale, lost>>
  /\ UNCHANGED <<hubVars, thread, enabled, req>>

\* The reading, or its answer, does not arrive.
ReadFails(c) ==
  /\ fetch[c] # "none"
  /\ fetch' = [fetch EXCEPT ![c] = "none"]
  /\ lost' = [lost EXCEPT ![c] = @ \/ stale[c]]
  /\ UNCHANGED <<hubVars, thread, enabled, req, loaded, stale>>

-----------------------------------------------------------------------------
(***************************************************************************)
(* Accounts and the process.                                               *)
(***************************************************************************)
Disable(u) ==
  /\ u \in enabled
  /\ enabled' = enabled \ {u}
  /\ Revoke({c \in Connection : owner[c] = u})
  /\ UNCHANGED <<thread, req, view>>

Enable(u) ==
  /\ u \notin enabled
  /\ enabled' = enabled \union {u}
  /\ UNCHANGED <<hubVars, thread, req, view>>

\* A logout, or the session's time is over.
EndSession(c) == session[c] /\ Revoke({c}) /\ UNCHANGED <<thread, enabled, req, view>>

LogIn(c) == owner[c] \in enabled /\ Login(c) /\ UNCHANGED <<thread, enabled, req, view>>

Crash ==
  /\ Die
  /\ req' = [r \in Request |-> Idle]
  /\ UNCHANGED <<thread, enabled, view>>

Handler(r) ==
  \/ CreateCommunication(r) \/ ChangeCommunicationState(r)
  \/ \E u \in Party : MarkCommunicationRead(r, u) \/ SendCommunicationMessage(r, u)
  \/ ListUsers(r) \/ PublishEvent(r) \/ Untold(r)

Browser(c) ==
  \/ Sync(c) \/ CommunicationChanged(c) \/ OtherStep(c)
  \/ Synchronize(c) \/ Select(c)
  \/ GetCommunication(c) \/ Show(c) \/ ReadFails(c)

Next ==
  \/ \E r \in Request : Handler(r)
  \/ \E c \in Connection : Browser(c) \/ EndSession(c) \/ LogIn(c)
  \/ \E u \in Switched : Disable(u) \/ Enable(u)
  \/ Crash

\* A goroutine that can go on does; a client that does not read for ever is
\* cut off by the network.
Proceed(c) ==
  \/ OtherStep(c) /\ stage[c] \in {"opening", "returning"}
  \/ Sync(c)
  \/ (Heartbeat(c) \/ Done(c)) /\ UNCHANGED <<thread, enabled, req, view>>

Fairness == \A c \in Connection : WF_vars(Proceed(c))

Spec == Init /\ [][Next]_vars /\ Fairness

-----------------------------------------------------------------------------
\* Types of the thread, the handlers and the browser, beside those of the hub.
TypeOK ==
  /\ HubTypeOK
  /\ status \in {"none", "open", "closed"}
  /\ timeline \in Seq({"admin_message", "user_receipt", "system_closed", "system_reopened"})
  /\ unread \subseteq (1..Len(timeline)) \X Party
  /\ enabled \subseteq Account
  /\ req \in [Request -> [pc: {"idle", "users", "publish"}, to: SUBSET Party]]
  /\ fetch \in [Connection -> {"none", "asked", "read", "old"}]
  /\ loaded \in [Connection -> BOOLEAN]
  /\ stale \in [Connection -> BOOLEAN] /\ lost \in [Connection -> BOOLEAN]

\* Replies and a closing that run at once leave one legal order: after a
\* closing comes nothing but a reopening (docs/architecture.md 6.12).
TimelineLegal ==
  /\ \A i \in 1..(Len(timeline) - 1) :
       timeline[i] = "system_closed" <=> timeline[i + 1] = "system_reopened"
  /\ status = "closed" <=> timeline # <<>> /\ timeline[Len(timeline)] = "system_closed"

\* Whoever replied has nothing unread from before the reply, whatever was sent
\* to him while he wrote.
ReplyReads ==
  \A x \in unread : x[2] = Target =>
    \A j \in (x[1] + 1)..Len(timeline) : timeline[j] # "user_receipt"

\* A tab that is connected and shows less than was committed is reading, or
\* an event is on its way to it, or its stream is about to end (and to begin
\* anew with a sync), unless a loss is known: the event was not published, a
\* reading failed, or the event came while the outdated answer to a first reading
\* was on its way.  Any other change between the subscription and the first
\* reading, between a reading and its answer, or into a full buffer is told
\* (docs/architecture.md 6.13).
Telling(r, u) ==
  \/ At(r, "users") /\ u \in req[r].to \union Admins
  \/ At(r, "publish") /\ u \in req[r].to

StaleIsAnnounced ==
  \A c \in Connection :
    stage[c] = "live" /\ session[c] /\ stale[c] =>
      \/ fetch[c] \in {"asked", "read"}
      \/ events[c] > 0
      \/ c \notin subscribed
      \/ lost[c]
      \/ \E r \in Request : Telling(r, owner[c])

\* A stream ends after its session has, or after the hub has dropped it
\* (docs/architecture.md 6.13: within one heartbeat).
StreamsEnd ==
  \A c \in Connection :
    stage[c] = "live" /\ (~session[c] \/ closed[c] > 0) ~> stage[c] = "off"

-----------------------------------------------------------------------------
(***************************************************************************)
(* The inductive invariant (proofs are in Communications_proofs).  A       *)
(* session that is usable belongs to an account that is enabled: this is   *)
(* why an administrator who has to be told is among those that ListUsers   *)
(* finds later.                                                            *)
(***************************************************************************)
SessionsAreOfEnabled == \A c \in Connection : session[c] => owner[c] \in enabled

CommunicationsInv ==
  TypeOK /\ owner \in [Connection -> Party] /\ SessionsAreOfEnabled
  /\ ClosedOnce /\ TimelineLegal /\ ReplyReads /\ StaleIsAnnounced
=============================================================================
