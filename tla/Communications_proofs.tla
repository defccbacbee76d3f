------------------------ MODULE Communications_proofs ------------------------
(***************************************************************************)
(* Safety of Communications for every set of accounts, tabs and handlers,  *)
(* every buffer and every length of the thread.                            *)
(*                                                                         *)
(* The invariant falls into three: the hub and its streams, the thread,    *)
(* and what the tabs show.                                                 *)
(***************************************************************************)
EXTENDS Communications, TLAPS

USE BufferAssumption, PartyAssumption, SwitchedAssumption, MaxAssumption

HubInv == HubTypeOK /\ ClosedOnce

Message == {"admin_message", "user_receipt", "system_closed", "system_reopened"}

ThreadInv ==
  /\ status \in {"none", "open", "closed"}
  /\ timeline \in Seq(Message)
  /\ unread \subseteq (1..Len(timeline)) \X Party
  /\ TimelineLegal /\ ReplyReads

ViewInv ==
  /\ owner \in [Connection -> Party] /\ enabled \subseteq Account
  /\ req \in [Request -> [pc: {"idle", "users", "publish"}, to: SUBSET Party]]
  /\ fetch \in [Connection -> {"none", "asked", "read", "old"}]
  /\ loaded \in [Connection -> BOOLEAN]
  /\ stale \in [Connection -> BOOLEAN] /\ lost \in [Connection -> BOOLEAN]
  /\ SessionsAreOfEnabled /\ StaleIsAnnounced

AllInv == HubInv /\ ThreadInv /\ ViewInv

\* The three parts are the invariant.
LEMMA Parts == CommunicationsInv <=> AllInv
  BY DEF CommunicationsInv, AllInv, HubInv, ThreadInv, ViewInv, TypeOK, Message

\* The initial state satisfies the invariant.
LEMMA InitCommunications == Init => AllInv
<1> SUFFICES ASSUME Init PROVE AllInv
  OBVIOUS
<1> USE DEF Init, HubInit
<1>1. HubInv
  BY DEF HubInv, HubTypeOK, ClosedOnce
<1>2. ThreadInv
  <2>1. timeline \in Seq(Message) /\ Len(timeline) = 0
    OBVIOUS
  <2> QED
    BY <2>1 DEF ThreadInv, TimelineLegal, ReplyReads
<1>3. ViewInv
  BY DEF ViewInv, SessionsAreOfEnabled, StaleIsAnnounced, Party, Idle
<1> QED
  BY <1>1, <1>2, <1>3 DEF AllInv

-----------------------------------------------------------------------------
(***************************************************************************)
(* The hub.                                                                *)
(***************************************************************************)
\* A stream's own steps close its subscription at most once.
LEMMA StreamKeepsHub ==
  ASSUME HubInv, NEW c \in Connection,
         \/ Connect(c) \/ Subscribe(c) \/ SendSync(c) \/ Forward(c) \/ Leave(c)
         \/ Done(c) \/ Heartbeat(c) \/ Close(c)
  PROVE  HubInv'
<1> USE DEF HubInv, HubTypeOK, ClosedOnce, Move, hub
<1>1. CASE Connect(c)
  BY <1>1 DEF Connect
<1>2. CASE Subscribe(c)
  BY <1>2 DEF Subscribe
<1>3. CASE SendSync(c) \/ Leave(c) \/ Done(c) \/ Heartbeat(c)
  BY <1>3 DEF SendSync, Leave, Done, Heartbeat
<1>4. CASE Forward(c)
  BY <1>4 DEF Forward
<1>5. CASE Close(c)
  BY <1>5 DEF Close, Unsubscribe
<1> QED
  BY <1>1, <1>2, <1>3, <1>4, <1>5

\* Publish removes whom it closes.
LEMMA PublishKeepsHub ==
  ASSUME HubInv, NEW to, Publish(to)
  PROVE  HubInv'
  BY DEF HubInv, HubTypeOK, ClosedOnce, Publish

\* Sessions begin and end, and the process dies.
LEMMA OutsideKeepsHub ==
  ASSUME HubInv, (\E S : Revoke(S)) \/ (\E c \in Connection : Login(c)) \/ Die
                 \/ UNCHANGED hubVars
  PROVE  HubInv'
<1> USE DEF HubInv, HubTypeOK, ClosedOnce, hub
<1>1. ASSUME NEW S, Revoke(S) PROVE HubInv'
  BY <1>1 DEF Revoke
<1>2. ASSUME NEW c \in Connection, Login(c) PROVE HubInv'
  BY <1>2 DEF Login
<1>3. CASE Die
  BY <1>3 DEF Die
<1>4. CASE UNCHANGED hubVars
  BY <1>4 DEF hubVars
<1> QED
  BY <1>1, <1>2, <1>3, <1>4

-----------------------------------------------------------------------------
(***************************************************************************)
(* The thread.                                                             *)
(***************************************************************************)
\* The four transactions.  An event changes the hub and the views only.
Transaction(r) ==
  \/ CreateCommunication(r) \/ ChangeCommunicationState(r)
  \/ \E u \in Party : MarkCommunicationRead(r, u) \/ SendCommunicationMessage(r, u)

\* One more message keeps the order, when it is the legal one.
LEMMA InsertKeeps ==
  ASSUME ThreadInv, NEW type \in Message, NEW R \in SUBSET Party, NEW before \in SUBSET unread,
         Insert(type, R, before), status' \in {"none", "open", "closed"},
         status = "closed" <=> type = "system_reopened",
         status' = "closed" <=> type = "system_closed",
         type = "user_receipt" => Target \notin R /\ \A x \in before : x[2] # Target
  PROVE  ThreadInv'
<1> DEFINE n == Len(timeline)
<1>1. /\ n \in Nat /\ timeline' = Append(timeline, type)
      /\ unread' = before \union {<<n + 1, u>> : u \in R}
  BY DEF ThreadInv, Insert
<1>2. /\ timeline' \in Seq(Message) /\ Len(timeline') = n + 1 /\ timeline'[n + 1] = type
      /\ \A i \in 1..n : timeline'[i] = timeline[i]
  BY <1>1 DEF ThreadInv
<1>3. unread' \subseteq (1..Len(timeline')) \X Party
  BY <1>1, <1>2 DEF ThreadInv
<1>4. TimelineLegal'
  <2>1. status = "closed" <=> n > 0 /\ timeline[n] = "system_closed"
    BY <1>1 DEF ThreadInv, TimelineLegal
  <2>2. status' = "closed" <=> timeline' # <<>> /\ timeline'[Len(timeline')] = "system_closed"
    BY <1>1, <1>2
  <2>3. ASSUME NEW i \in 1..(Len(timeline') - 1)
        PROVE  timeline'[i] = "system_closed" <=> timeline'[i + 1] = "system_reopened"
    <3>1. CASE i = n
      BY <1>1, <1>2, <2>1, <2>3, <3>1
    <3>2. CASE i < n
      <4>1. i \in 1..(n - 1) /\ i \in 1..n /\ i + 1 \in 1..n
        BY <1>1, <1>2, <2>3, <3>2
      <4> QED
        BY <1>2, <4>1 DEF ThreadInv, TimelineLegal
    <3> QED
      BY <1>1, <1>2, <2>3, <3>1, <3>2
  <2> QED
    BY <2>2, <2>3 DEF TimelineLegal
<1>5. ReplyReads'
  <2> SUFFICES ASSUME NEW x \in unread', x[2] = Target,
                      NEW j \in (x[1] + 1)..Len(timeline')
               PROVE  timeline'[j] # "user_receipt"
    BY DEF ReplyReads
  <2>1. CASE x \in before
    <3>1. x \in (1..n) \X Party /\ x \in unread
      BY <2>1 DEF ThreadInv
    <3>2. j \in (x[1] + 1)..n \/ j = n + 1
      BY <1>1, <1>2, <3>1
    <3>3. CASE j = n + 1
      BY <1>2, <2>1, <3>3
    <3>4. CASE j \in (x[1] + 1)..n
      <4>1. j \in 1..n
        BY <1>1, <3>1, <3>4
      <4> QED
        BY <1>2, <3>1, <3>4, <4>1 DEF ThreadInv, ReplyReads
    <3> QED
      BY <3>2, <3>3, <3>4
  <2>2. CASE \E u \in R : x = <<n + 1, u>>
    BY <1>1, <1>2, <2>2
  <2> QED
    BY <1>1, <2>1, <2>2
<1> QED
  BY <1>2, <1>3, <1>4, <1>5 DEF ThreadInv

\* A transaction leaves a legal thread.
LEMMA TransactionKeepsThread ==
  ASSUME ThreadInv, NEW r \in Request, Transaction(r)
  PROVE  ThreadInv'
<1> USE DEF Message
<1>1. CASE CreateCommunication(r)
  <2>1. /\ status = "none" /\ status' = "open" /\ Insert("admin_message", {Target}, unread)
    BY <1>1 DEF CreateCommunication
  <2> QED
    BY <2>1, InsertKeeps DEF Party
<1>2. CASE ChangeCommunicationState(r)
  <2>1. \/ /\ status = "open" /\ status' = "closed" /\ Insert("system_closed", {Target}, unread)
        \/ /\ status = "closed" /\ status' = "open" /\ Insert("system_reopened", {Target}, unread)
    BY <1>2 DEF ChangeCommunicationState
  <2> QED
    BY <2>1, InsertKeeps DEF Party
<1>3. ASSUME NEW u \in Party, MarkCommunicationRead(r, u) PROVE ThreadInv'
  <2>1. unread' \subseteq unread /\ UNCHANGED <<status, timeline>>
    BY <1>3 DEF MarkCommunicationRead, UnreadWithout
  <2> QED
    BY <2>1 DEF ThreadInv, TimelineLegal, ReplyReads
<1>4. ASSUME NEW u \in Party, SendCommunicationMessage(r, u) PROVE ThreadInv'
  <2>1. /\ status = "open" /\ status' = "open"
        /\ \/ Insert("admin_message", {Target}, unread)
           \/ Insert("user_receipt", Admins \intersect enabled, UnreadWithout(Target))
    BY <1>4 DEF SendCommunicationMessage, Send
  <2>2. /\ UnreadWithout(Target) \in SUBSET unread
        /\ \A x \in UnreadWithout(Target) : x[2] # Target
        /\ Target \notin Admins /\ Admins \intersect enabled \in SUBSET Party
    BY DEF UnreadWithout, Party
  <2> QED
    BY <2>1, <2>2, InsertKeeps DEF Party
<1> QED
  BY <1>1, <1>2, <1>3, <1>4 DEF Transaction

-----------------------------------------------------------------------------
(***************************************************************************)
(* What the tabs show.  Said of each tab:                                  *)
(***************************************************************************)
Announced(c) ==
  stage[c] = "live" /\ session[c] /\ stale[c] =>
    \/ fetch[c] \in {"asked", "read"} \/ events[c] > 0 \/ c \notin subscribed \/ lost[c]
    \/ \E r \in Request : Telling(r, owner[c])

ViewTypes ==
  /\ owner \in [Connection -> Party] /\ enabled \subseteq Account
  /\ req \in [Request -> [pc: {"idle", "users", "publish"}, to: SUBSET Party]]
  /\ fetch \in [Connection -> {"none", "asked", "read", "old"}]
  /\ loaded \in [Connection -> BOOLEAN]
  /\ stale \in [Connection -> BOOLEAN] /\ lost \in [Connection -> BOOLEAN]

\* A handler that tells somebody and does not move goes on telling.
LEMMA StillTelling ==
  ASSUME NEW q \in Request, NEW u, Telling(q, u), req'[q] = req[q]
  PROVE  Telling(q, u)'
  BY DEF Telling, At

\* Whoever sees the difference at a commit is told by the handler that
\* committed.
LEMMA CommittedKeepsView ==
  ASSUME AllInv, NEW r \in Request, NEW affected \in SUBSET Party, Committed(r, affected)
  PROVE  ViewInv'
<1> USE DEF AllInv, HubInv, HubTypeOK, hubVars, hub
<1>1. ViewTypes /\ SessionsAreOfEnabled
  BY DEF ViewInv, ViewTypes
<1>2. ViewTypes'
  BY <1>1 DEF ViewTypes, Committed
<1>3. SessionsAreOfEnabled'
  BY <1>1 DEF SessionsAreOfEnabled, Committed
<1>4. ASSUME NEW c \in Connection PROVE Announced(c)'
  <2>1. CASE owner[c] \in affected \union (Admins \intersect enabled)
    <3>1. /\ req'[r] = [pc |-> "users", to |-> affected]
          /\ owner' = owner
      BY <1>1 DEF Committed, ViewTypes
    <3>2. Telling(r, owner[c])'
      BY <2>1, <3>1 DEF Telling, At
    <3> QED
      BY <3>2 DEF Announced
  <2>2. CASE owner[c] \notin affected \union (Admins \intersect enabled)
    <3>1. /\ stale'[c] = stale[c] /\ fetch'[c] = fetch[c]
          /\ UNCHANGED <<owner, session, stage, subscribed, events, lost>>
      BY <1>1, <2>2 DEF Committed, ViewTypes
    <3>2. ASSUME NEW q \in Request, Telling(q, owner[c]) PROVE Telling(q, owner[c])'
      <4>1. q # r
        BY <3>2 DEF Committed, Telling, At
      <4>2. req'[q] = req[q]
        BY <1>1, <4>1 DEF Committed, ViewTypes
      <4> QED
        BY <3>1, <3>2, <4>2, StillTelling
    <3>3. Announced(c)
      BY DEF ViewInv, StaleIsAnnounced, Announced
    <3> QED
      BY <3>1, <3>2, <3>3 DEF Announced
  <2> QED
    BY <2>1, <2>2
<1> QED
  BY <1>2, <1>3, <1>4 DEF ViewInv, ViewTypes, StaleIsAnnounced, Announced

\* Every transaction is one.
LEMMA TransactionKeepsView ==
  ASSUME AllInv, NEW r \in Request, Transaction(r)
  PROVE  ViewInv'
<1>1. \E a \in SUBSET Party : Committed(r, a)
  BY DEF Transaction, CreateCommunication, ChangeCommunicationState, MarkCommunicationRead,
         SendCommunicationMessage, Send, Party
<1> QED
  BY <1>1, CommittedKeepsView

\* Publication, listed first: an administrator who can hold a session is found.
LEMMA ListUsersKeepsView ==
  ASSUME AllInv, NEW r \in Request, ListUsers(r)
  PROVE  ViewInv'
<1> USE DEF AllInv, HubInv, HubTypeOK, hubVars, hub
<1> DEFINE found == req[r].to \union (Admins \intersect enabled)
<1>1. ViewTypes /\ SessionsAreOfEnabled /\ req[r].to \in SUBSET Party /\ req[r].pc = "users"
  BY DEF ViewInv, ViewTypes, ListUsers, At
<1>2. /\ UNCHANGED <<owner, session, stage, subscribed, events, enabled, fetch, loaded, stale>>
      /\ \A q \in Request : q # r => req'[q] = req[q]
  BY <1>1 DEF ListUsers, ViewTypes
<1>3. \/ req'[r] = [pc |-> "publish", to |-> found] /\ UNCHANGED lost
      \/ /\ req'[r] = [pc |-> "publish", to |-> req[r].to]
         /\ Lose({c \in Connection : owner[c] \notin req[r].to})
  <2>0. req[r] = [pc |-> "users", to |-> req[r].to]
    BY <1>1 DEF ViewTypes
  <2>1. CASE /\ req' = [req EXCEPT ![r].pc = "publish", ![r].to = found]
             /\ UNCHANGED lost
    <3>1. req'[r] = [req[r] EXCEPT !.pc = "publish", !.to = found]
      BY <1>1, <2>1 DEF ViewTypes
    <3> HIDE DEF found
    <3>2. req'[r] = [pc |-> "publish", to |-> found]
      BY <2>0, <3>1
    <3> QED
      BY <2>1, <3>2
  <2>2. CASE /\ req' = [req EXCEPT ![r].pc = "publish"]
             /\ Lose({c \in Connection : owner[c] \notin req[r].to})
    <3>1. req'[r] = [req[r] EXCEPT !.pc = "publish"]
      BY <1>1, <2>2 DEF ViewTypes
    <3>2. req'[r] = [pc |-> "publish", to |-> req[r].to]
      BY <2>0, <3>1
    <3> QED
      BY <2>2, <3>2
  <2> QED
    BY <2>1, <2>2 DEF ListUsers
<1>4. found \in SUBSET Party /\ lost' \in [Connection -> BOOLEAN]
  BY <1>1, <1>3 DEF Party, Lose, ViewTypes
<1>5. req' \in [Request -> [pc: {"idle", "users", "publish"}, to: SUBSET Party]]
  <2>1. req'[r] \in [pc: {"idle", "users", "publish"}, to: SUBSET Party]
    BY <1>1, <1>3, <1>4
  <2>2. req' = [q \in Request |-> req'[q]]
    BY <1>1 DEF ListUsers, ViewTypes
  <2>3. \A q \in Request : req'[q] \in [pc: {"idle", "users", "publish"}, to: SUBSET Party]
    BY <1>1, <1>2, <2>1 DEF ViewTypes
  <2> QED
    BY <2>2, <2>3
<1>6. ViewTypes' /\ SessionsAreOfEnabled'
  BY <1>1, <1>2, <1>4, <1>5 DEF ViewTypes, SessionsAreOfEnabled
<1>7. ASSUME NEW c \in Connection PROVE Announced(c)'
  <2> SUFFICES ASSUME stage[c] = "live", session[c], stale[c], ~lost'[c],
                      ~(fetch[c] \in {"asked", "read"} \/ events[c] > 0 \/ c \notin subscribed)
               PROVE  \E q \in Request : Telling(q, owner[c])'
    BY <1>2 DEF Announced
  <2>1. ~lost[c]
    BY <1>1, <1>3 DEF Lose, ViewTypes
  <2>2. PICK q \in Request : Telling(q, owner[c])
    BY <2>1 DEF ViewInv, StaleIsAnnounced
  <2>3. CASE q # r
    BY <1>2, <2>2, <2>3, StillTelling
  <2>4. CASE q = r
    <3>1. owner[c] \in req[r].to \union Admins /\ owner[c] \in enabled
      BY <1>1, <2>2, <2>4 DEF Telling, At, SessionsAreOfEnabled
    <3>2. req'[r].pc = "publish" /\ owner[c] \in req'[r].to
      BY <1>1, <1>3, <3>1 DEF Lose, ViewTypes
    <3> QED
      BY <1>2, <3>2 DEF Telling, At
  <2> QED
    BY <2>3, <2>4
<1> QED
  BY <1>6, <1>7 DEF ViewInv, ViewTypes, StaleIsAnnounced, Announced

\* Whoever was to be told has an event, or is dropped by the hub.
LEMMA PublishKeepsView ==
  ASSUME AllInv, NEW r \in Request, PublishEvent(r)
  PROVE  ViewInv'
<1> USE DEF AllInv, HubInv, HubTypeOK, view
<1>1. ViewTypes /\ SessionsAreOfEnabled /\ req[r].pc = "publish"
  BY DEF ViewInv, ViewTypes, PublishEvent, At
<1>2. /\ UNCHANGED <<owner, session, stage, enabled, fetch, loaded, stale, lost>>
      /\ \A q \in Request : q # r => req'[q] = req[q]
      /\ req' \in [Request -> [pc: {"idle", "users", "publish"}, to: SUBSET Party]]
  BY <1>1 DEF PublishEvent, Publish, ViewTypes, Idle
<1>3. ViewTypes' /\ SessionsAreOfEnabled'
  BY <1>1, <1>2 DEF ViewTypes, SessionsAreOfEnabled
<1>4. ASSUME NEW c \in Connection
      PROVE  /\ events'[c] >= events[c]
             /\ c \notin subscribed => c \notin subscribed'
             /\ owner[c] \in req[r].to => events'[c] > 0 \/ c \notin subscribed'
  BY DEF PublishEvent, Publish
<1>5. ASSUME NEW c \in Connection PROVE Announced(c)'
  <2> SUFFICES ASSUME stage[c] = "live", session[c], stale[c], ~lost[c],
                      ~(fetch[c] \in {"asked", "read"} \/ events'[c] > 0 \/ c \notin subscribed')
               PROVE  \E q \in Request : Telling(q, owner[c])'
    BY <1>2 DEF Announced
  <2>1. ~(events[c] > 0) /\ c \in subscribed
    <3>1. events[c] \in Nat
      OBVIOUS
    <3>2. events'[c] \in Nat
      BY DEF PublishEvent, Publish
    <3> QED
      BY <1>4, <3>1, <3>2
  <2>2. PICK q \in Request : Telling(q, owner[c])
    BY <2>1 DEF ViewInv, StaleIsAnnounced
  <2>3. q # r
    BY <1>1, <1>4, <2>2 DEF Telling, At
  <2> QED
    BY <1>2, <2>2, <2>3, StillTelling
<1> QED
  BY <1>2, <1>3, <1>5 DEF ViewInv, ViewTypes, StaleIsAnnounced, Announced

\* An event that is not published is lost to whoever lacks it.
LEMMA UntoldKeepsView ==
  ASSUME AllInv, NEW r \in Request, Untold(r)
  PROVE  ViewInv'
<1> USE DEF AllInv, HubInv, HubTypeOK, hubVars, hub
<1>1. ViewTypes /\ SessionsAreOfEnabled
  BY DEF ViewInv, ViewTypes
<1>2. /\ UNCHANGED <<owner, session, stage, enabled, fetch, loaded, stale>>
      /\ lost' \in [Connection -> BOOLEAN]
      /\ \A c \in Connection : stale[c] => lost'[c]
      /\ req' \in [Request -> [pc: {"idle", "users", "publish"}, to: SUBSET Party]]
  BY <1>1 DEF Untold, Lose, ViewTypes, Idle
<1> QED
  BY <1>1, <1>2 DEF ViewInv, ViewTypes, StaleIsAnnounced, SessionsAreOfEnabled

\* What invalidating does to the reading of a tab: it begins anew, or goes on,
\* and then it is late when its answer was given before.
LEMMA Asked ==
  ASSUME AllInv, NEW c \in Connection, Ask(c)
  PROVE  /\ fetch' \in [Connection -> {"none", "asked", "read", "old"}]
         /\ \A d \in Connection \ {c} : fetch'[d] = fetch[d]
         /\ Late(c) \in BOOLEAN
         /\ \/ fetch'[c] \in {"asked", "read"}
            \/ Late(c) /\ fetch' = fetch /\ fetch[c] = "old"
<1>1. /\ fetch \in [Connection -> {"none", "asked", "read", "old"}]
      /\ loaded \in [Connection -> BOOLEAN]
  BY DEF AllInv, ViewInv
<1>2. CASE Spent(c)
  BY <1>1, <1>2 DEF Ask, Late, Spent
<1>3. CASE ~Spent(c)
  BY <1>1, <1>3 DEF Ask, Late
<1> QED
  BY <1>2, <1>3

\* A reading that is under way sees all there is unless its answer was given
\* before; such an answer leaves the tab as it was.
LEMMA BrowserKeepsView ==
  ASSUME AllInv, NEW c \in Connection, Browser(c)
  PROVE  ViewInv'
<1> USE DEF AllInv, HubInv, HubTypeOK, hubVars, hub, view
<1>1. ViewTypes /\ SessionsAreOfEnabled
  BY DEF ViewInv, ViewTypes
<1> DEFINE Invalidates == Sync(c) \/ CommunicationChanged(c) \/ Synchronize(c)
           Answers     == Select(c) \/ GetCommunication(c) \/ Show(c) \/ ReadFails(c)
<1>2. Invalidates \/ Answers \/ OtherStep(c)
  BY DEF Browser
<1>3. UNCHANGED <<owner, session, enabled, req>>
  BY DEF Browser, Sync, SendSync, CommunicationChanged, Forward, OtherStep, Connect,
         Subscribe, Leave, Done, Heartbeat, Close, Unsubscribe, Synchronize, Select,
         GetCommunication, Show, ReadFails
<1>4. /\ ViewTypes'
      /\ \A d \in Connection \ {c} :
           /\ stage'[d] = stage[d] /\ fetch'[d] = fetch[d] /\ events'[d] = events[d]
           /\ stale'[d] = stale[d] /\ lost'[d] = lost[d]
           /\ d \in subscribed' <=> d \in subscribed
      /\ \/ stage'[c] # "live" \/ fetch'[c] \in {"asked", "read"}
         \/ stale'[c] = FALSE \/ lost'[c]
         \/ /\ fetch[c] = "old"
            /\ UNCHANGED <<stage, events, subscribed, stale, lost>>
  <2> USE <1>1, <1>3 DEF ViewTypes, Move
  <2>1. CASE Invalidates
    <3>1. Ask(c) /\ UNCHANGED <<loaded, stale>>
      BY <2>1 DEF Sync, CommunicationChanged, Synchronize
    <3>2. \/ Sync(c) /\ lost' = [lost EXCEPT ![c] = Late(c)]
          \/ CommunicationChanged(c) /\ lost' = [lost EXCEPT ![c] = lost[c] \/ Late(c)]
          \/ Synchronize(c) /\ UNCHANGED <<stage, events, subscribed, lost>>
      BY <2>1 DEF Sync, CommunicationChanged, Synchronize
    <3>3. lost' \in [Connection -> BOOLEAN] /\ \A d \in Connection \ {c} : lost'[d] = lost[d]
      BY <3>1, <3>2, Asked
    <3>4. \A d \in Connection \ {c} :
            /\ stage'[d] = stage[d] /\ events'[d] = events[d]
            /\ d \in subscribed' <=> d \in subscribed
      BY <2>1 DEF Sync, SendSync, CommunicationChanged, Forward, Synchronize
    <3>5. \/ fetch'[c] \in {"asked", "read"} \/ lost'[c]
          \/ fetch[c] = "old" /\ UNCHANGED <<stage, events, subscribed, stale, lost>>
      BY <3>1, <3>2, Asked
    <3> QED
      BY <3>1, <3>3, <3>4, <3>5, Asked
  <2>2. CASE Select(c) \/ GetCommunication(c)
    <3>1. /\ fetch' \in [Connection -> {"none", "asked", "read", "old"}]
          /\ loaded' \in [Connection -> BOOLEAN]
          /\ fetch'[c] \in {"asked", "read"}
          /\ \A d \in Connection \ {c} : fetch'[d] = fetch[d]
      <4>1. CASE Select(c)
        BY <4>1 DEF Select
      <4>2. CASE GetCommunication(c)
        BY <4>2 DEF GetCommunication
      <4> QED
        BY <2>2, <4>1, <4>2
    <3>2. UNCHANGED <<stage, events, subscribed, stale, lost>>
      BY <2>2 DEF Select, GetCommunication
    <3> QED
      BY <3>1, <3>2
  <2>3. CASE Show(c)
    BY <2>3 DEF Show
  <2>4. CASE ReadFails(c)
    BY <2>4 DEF ReadFails
  <2>5. CASE OtherStep(c)
    <3>1. UNCHANGED <<fetch, loaded, stale, lost>>
      BY <2>5 DEF OtherStep
    <3>2. /\ stage'[c] # "live"
          /\ \A d \in Connection \ {c} :
               /\ stage'[d] = stage[d] /\ events'[d] = events[d]
               /\ d \in subscribed' <=> d \in subscribed
      BY <2>5 DEF OtherStep, Connect, Subscribe, Leave, Done, Heartbeat, Close, Unsubscribe
    <3> QED
      BY <3>1, <3>2
  <2> QED
    BY <1>2, <2>1, <2>2, <2>3, <2>4, <2>5
<1>5. ASSUME NEW d \in Connection PROVE Announced(d)'
  <2>1. Announced(d)
    BY DEF ViewInv, StaleIsAnnounced, Announced
  <2>2. \A q \in Request : Telling(q, owner[d]) => Telling(q, owner[d])'
    BY <1>3, StillTelling
  <2>3. CASE d # c
    BY <1>3, <1>4, <2>1, <2>2, <2>3 DEF Announced
  <2>4. CASE d = c
    BY <1>3, <1>4, <2>1, <2>2, <2>4 DEF Announced
  <2> QED
    BY <2>3, <2>4
<1> QED
  BY <1>1, <1>3, <1>4, <1>5 DEF ViewInv, ViewTypes, StaleIsAnnounced, SessionsAreOfEnabled, Announced

\* Sessions end with their accounts, and begin only with a tab that has no
\* stream.
LEMMA OutsideKeepsView ==
  ASSUME AllInv,
         \/ \E u \in Switched : Disable(u) \/ Enable(u)
         \/ \E c \in Connection : EndSession(c) \/ LogIn(c)
         \/ Crash \/ UNCHANGED vars
  PROVE  ViewInv'
<1> USE DEF AllInv, HubInv, HubTypeOK, hubVars, hub, view
<1>1. ViewTypes /\ SessionsAreOfEnabled /\ \A d \in Connection : Announced(d)
  BY DEF ViewInv, ViewTypes, StaleIsAnnounced, Announced
<1>2. ASSUME UNCHANGED <<owner, stage, hub, req, view>>, enabled' \subseteq Account,
             SessionsAreOfEnabled',
             \A d \in Connection : stage[d] = "live" /\ session'[d] => session[d]
      PROVE  ViewInv'
  <2>1. ASSUME NEW d \in Connection PROVE Announced(d)'
    <3>1. \A q \in Request : Telling(q, owner[d]) => Telling(q, owner[d])'
      BY <1>2, StillTelling
    <3> QED
      BY <1>1, <1>2, <3>1 DEF Announced
  <2> QED
    BY <1>1, <1>2, <2>1 DEF ViewInv, ViewTypes, StaleIsAnnounced, Announced
<1>3. ASSUME NEW u \in Switched, Disable(u) PROVE ViewInv'
  <2>1. SessionsAreOfEnabled'
    BY <1>1, <1>3 DEF Disable, Revoke, SessionsAreOfEnabled
  <2> QED
    BY <1>1, <1>2, <1>3, <2>1 DEF Disable, Revoke, ViewTypes
<1>4. ASSUME NEW u \in Switched, Enable(u) PROVE ViewInv'
  <2>1. SessionsAreOfEnabled'
    BY <1>1, <1>4 DEF Enable, SessionsAreOfEnabled
  <2> QED
    BY <1>1, <1>2, <1>4, <2>1 DEF Enable, ViewTypes
<1>5. ASSUME NEW c \in Connection, EndSession(c) PROVE ViewInv'
  <2>1. SessionsAreOfEnabled'
    BY <1>1, <1>5 DEF EndSession, Revoke, SessionsAreOfEnabled
  <2> QED
    BY <1>1, <1>2, <1>5, <2>1 DEF EndSession, Revoke, ViewTypes
<1>6. ASSUME NEW c \in Connection, LogIn(c) PROVE ViewInv'
  <2>1. SessionsAreOfEnabled'
    BY <1>1, <1>6 DEF LogIn, Login, SessionsAreOfEnabled
  <2> QED
    BY <1>1, <1>2, <1>6, <2>1 DEF LogIn, Login, ViewTypes
<1>7. CASE Crash
  BY <1>1, <1>7 DEF Crash, Die, Idle, ViewInv, ViewTypes, StaleIsAnnounced, SessionsAreOfEnabled
<1>8. CASE UNCHANGED vars
  <2>1. SessionsAreOfEnabled'
    BY <1>1, <1>8 DEF vars, SessionsAreOfEnabled
  <2> QED
    BY <1>1, <1>2, <1>8, <2>1 DEF vars, ViewTypes
<1> QED
  BY <1>3, <1>4, <1>5, <1>6, <1>7, <1>8

-----------------------------------------------------------------------------
(***************************************************************************)
(* Every step keeps the three.                                             *)
(***************************************************************************)
\* Only a transaction changes the thread.
LEMMA ThreadStays ==
  ASSUME ThreadInv, UNCHANGED thread
  PROVE  ThreadInv'
  BY DEF ThreadInv, TimelineLegal, ReplyReads, thread

\* One step of the specification.
LEMMA StepKeeps ==
  ASSUME AllInv, [Next]_vars
  PROVE  AllInv'
<1>1. HubInv /\ ThreadInv /\ ViewInv
  BY DEF AllInv
<1>2. ASSUME NEW r \in Request, Handler(r) PROVE AllInv'
  <2>1. CASE Transaction(r)
    <3>1. UNCHANGED hubVars
      BY <2>1 DEF Transaction, CreateCommunication, ChangeCommunicationState,
                  MarkCommunicationRead, SendCommunicationMessage, Send, Committed
    <3>2. HubInv'
      BY <1>1, <3>1, OutsideKeepsHub
    <3> QED
      BY <1>1, <2>1, <3>2, TransactionKeepsThread, TransactionKeepsView DEF AllInv
  <2>2. CASE ListUsers(r)
    <3>1. HubInv'
      BY <1>1, <2>2, OutsideKeepsHub DEF ListUsers
    <3>2. ThreadInv'
      BY <1>1, <2>2, ThreadStays DEF ListUsers
    <3> QED
      BY <2>2, <3>1, <3>2, ListUsersKeepsView DEF AllInv
  <2>3. CASE PublishEvent(r)
    <3>1. HubInv'
      BY <1>1, <2>3, PublishKeepsHub DEF PublishEvent
    <3>2. ThreadInv'
      BY <1>1, <2>3, ThreadStays DEF PublishEvent
    <3> QED
      BY <2>3, <3>1, <3>2, PublishKeepsView DEF AllInv
  <2>4. CASE Untold(r)
    <3>1. HubInv'
      BY <1>1, <2>4, OutsideKeepsHub DEF Untold
    <3>2. ThreadInv'
      BY <1>1, <2>4, ThreadStays DEF Untold
    <3> QED
      BY <2>4, <3>1, <3>2, UntoldKeepsView DEF AllInv
  <2> QED
    BY <1>2, <2>1, <2>2, <2>3, <2>4 DEF Handler, Transaction
<1>3. ASSUME NEW c \in Connection, Browser(c) PROVE AllInv'
  <2>1. HubInv'
    <3>1. CASE Sync(c) \/ CommunicationChanged(c) \/ OtherStep(c)
      BY <1>1, <3>1, StreamKeepsHub DEF Sync, CommunicationChanged, OtherStep
    <3>2. CASE Synchronize(c) \/ Select(c) \/ GetCommunication(c) \/ Show(c) \/ ReadFails(c)
      <4>1. UNCHANGED hubVars
        BY <3>2 DEF Synchronize, Select, GetCommunication, Show, ReadFails
      <4> QED
        BY <1>1, <4>1, OutsideKeepsHub
    <3> QED
      BY <1>3, <3>1, <3>2 DEF Browser
  <2>2. UNCHANGED thread
    BY <1>3 DEF Browser, Sync, CommunicationChanged, OtherStep, Synchronize, Select,
                GetCommunication, Show, ReadFails
  <2>3. ThreadInv'
    BY <1>1, <2>2, ThreadStays
  <2> QED
    BY <1>3, <2>1, <2>3, BrowserKeepsView DEF AllInv
<1>4. ASSUME \/ \E u \in Switched : Disable(u) \/ Enable(u)
             \/ \E c \in Connection : EndSession(c) \/ LogIn(c)
             \/ Crash \/ UNCHANGED vars
      PROVE  AllInv'
  <2>1. \/ \E S : Revoke(S)
        \/ \E c \in Connection : Login(c)
        \/ Die \/ UNCHANGED hubVars
    BY <1>4 DEF Disable, Enable, EndSession, LogIn, Crash, vars
  <2>2. HubInv'
    BY <1>1, <2>1, OutsideKeepsHub
  <2>3. UNCHANGED thread
    BY <1>4 DEF Disable, Enable, EndSession, LogIn, Crash, vars
  <2>4. ThreadInv'
    BY <1>1, <2>3, ThreadStays
  <2> QED
    BY <1>4, <2>2, <2>4, OutsideKeepsView DEF AllInv
<1> QED
  BY <1>2, <1>3, <1>4 DEF Next

\* The invariant of the specification.
THEOREM InvariantHolds == Spec => []CommunicationsInv
<1>1. CommunicationsInv /\ [Next]_vars => CommunicationsInv'
  <2> SUFFICES ASSUME CommunicationsInv, [Next]_vars PROVE CommunicationsInv'
    OBVIOUS
  <2>1. AllInv'
    BY Parts, StepKeeps
  <2> QED
    BY <2>1 DEF CommunicationsInv, AllInv, HubInv, ThreadInv, ViewInv, TypeOK, Message
<1>2. Init => CommunicationsInv
  BY InitCommunications, Parts
<1> QED
  BY <1>1, <1>2, PTL DEF Spec

\* Types of hub, thread, handlers and tabs.
THEOREM TypeCorrect == Spec => []TypeOK
<1>1. CommunicationsInv => TypeOK
  BY DEF CommunicationsInv
<1> QED
  BY <1>1, InvariantHolds, PTL

\* done of a subscription is never closed twice, whoever is first.
THEOREM NeverClosedTwice == Spec => []ClosedOnce
<1>1. CommunicationsInv => ClosedOnce
  BY DEF CommunicationsInv
<1> QED
  BY <1>1, InvariantHolds, PTL

\* After a closing comes a reopening, in every interleaving of the handlers.
THEOREM TimelineIsLegal == Spec => []TimelineLegal
<1>1. CommunicationsInv => TimelineLegal
  BY DEF CommunicationsInv
<1> QED
  BY <1>1, InvariantHolds, PTL

\* A reply leaves nothing unread that it replies to.
THEOREM RepliesRead == Spec => []ReplyReads
<1>1. CommunicationsInv => ReplyReads
  BY DEF CommunicationsInv
<1> QED
  BY <1>1, InvariantHolds, PTL

\* No connected tab shows less than was committed with nothing under way that
\* would tell it, unless the event was lost.
THEOREM StaleTabsAreTold == Spec => []StaleIsAnnounced
<1>1. CommunicationsInv => StaleIsAnnounced
  BY DEF CommunicationsInv
<1> QED
  BY <1>1, InvariantHolds, PTL
=============================================================================
