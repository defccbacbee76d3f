---------------------------- MODULE RealtimeHub ----------------------------
(***************************************************************************)
(* realtime/hub.go and the stream that reads it, httpapi/realtime_http.go. *)
(*                                                                         *)
(* Hub.mu makes Subscribe, Publish and unsubscribe one step each.  A       *)
(* connection is one EventSource of a browser tab with the session cookie  *)
(* it was opened with; its goroutine is a handler that subscribes, sends   *)
(* sync, forwards events, and unsubscribes when it returns.                *)
(***************************************************************************)
EXTENDS Naturals, FiniteSets

CONSTANTS
  Account,
  Connection,
  Buffer        \* bufferSize

ASSUME BufferAssumption == Buffer \in Nat \ {0}

VARIABLES
  owner,        \* whose connection it is
  session,      \* its session is still usable
  stage,        \* what its goroutine does
  subscribed,   \* Hub.subscribers
  events,       \* events in the channel of the subscription
  closed        \* how often done was closed: twice is a panic

hub     == <<subscribed, events, closed>>
hubVars == <<owner, session, stage, hub>>

HubInit ==
  /\ owner \in [Connection -> Account]
  /\ session = [c \in Connection |-> TRUE]
  /\ stage = [c \in Connection |-> "off"]
  /\ subscribed = {}
  /\ events = [c \in Connection |-> 0] /\ closed = [c \in Connection |-> 0]

Move(c, from, to) == stage[c] = from /\ stage' = [stage EXCEPT ![c] = to]

\* authMiddleware; EventSource reconnects by itself.
Connect(c) ==
  /\ session[c]
  /\ Move(c, "off", "opening")
  /\ UNCHANGED <<owner, session, hub>>

Subscribe(c) ==
  /\ Move(c, "opening", "subscribed")
  /\ subscribed' = subscribed \union {c}
  /\ events' = [events EXCEPT ![c] = 0]
  /\ closed' = [closed EXCEPT ![c] = 0]
  /\ UNCHANGED <<owner, session>>

\* The event sync: the client is to read everything again.
SendSync(c) == Move(c, "subscribed", "live") /\ UNCHANGED <<owner, session, hub>>

Forward(c) ==
  /\ stage[c] = "live" /\ events[c] > 0
  /\ events' = [events EXCEPT ![c] = @ - 1]
  /\ UNCHANGED <<owner, session, stage, subscribed, closed>>

\* The client is gone, a write failed.
Leave(c) ==
  /\ \/ Move(c, "subscribed", "returning")
     \/ Move(c, "live", "returning")
  /\ UNCHANGED <<owner, session, hub>>

Done(c) ==
  /\ closed[c] > 0
  /\ Move(c, "live", "returning")
  /\ UNCHANGED <<owner, session, hub>>

\* The session is looked up again.  (Mutation: it is not.)
HeartbeatOnly(c) == stage[c] = "live" /\ UNCHANGED hubVars
Heartbeat(c) ==
  /\ ~session[c]
  /\ Move(c, "live", "returning")
  /\ UNCHANGED <<owner, session, hub>>

\* unsubscribe, when the handler returns.  (Mutation: one that Publish has
\* removed is not looked for.)
Unsubscribe(c, found) ==
  /\ Move(c, "returning", "off")
  /\ subscribed' = subscribed \ {c}
  /\ closed' = IF found THEN [closed EXCEPT ![c] = @ + 1] ELSE closed
  /\ events' = [events EXCEPT ![c] = 0]
  /\ UNCHANGED <<owner, session>>
CloseAlways(c) == Unsubscribe(c, TRUE)
Close(c)       == Unsubscribe(c, c \in subscribed)

\* Nobody is waited for: a subscriber whose buffer is full is dropped.
Publish(to) ==
  LET heard == {c \in subscribed : owner[c] \in to}
      full  == {c \in heard : events[c] = Buffer}
  IN  /\ events' = [c \in Connection |-> IF c \in heard \ full THEN events[c] + 1 ELSE events[c]]
      /\ closed' = [c \in Connection |-> IF c \in full THEN closed[c] + 1 ELSE closed[c]]
      /\ subscribed' = subscribed \ full
      /\ UNCHANGED <<owner, session, stage>>

-----------------------------------------------------------------------------
\* What happens to sessions elsewhere: S end; a new login opens a new tab.
Revoke(S) ==
  /\ session' = [c \in Connection |-> session[c] /\ c \notin S]
  /\ UNCHANGED <<owner, stage, hub>>

Login(c) ==
  /\ stage[c] = "off" /\ ~session[c]
  /\ session' = [session EXCEPT ![c] = TRUE]
  /\ UNCHANGED <<owner, stage, hub>>

\* The process dies, and with it the hub and every stream.
Die ==
  /\ stage' = [c \in Connection |-> "off"]
  /\ subscribed' = {}
  /\ events' = [c \in Connection |-> 0] /\ closed' = [c \in Connection |-> 0]
  /\ UNCHANGED <<owner, session>>

-----------------------------------------------------------------------------
HubTypeOK ==
  /\ owner \in [Connection -> Account] /\ session \in [Connection -> BOOLEAN]
  /\ stage \in [Connection -> {"off", "opening", "subscribed", "live", "returning"}]
  /\ subscribed \subseteq Connection
  /\ events \in [Connection -> 0..Buffer] /\ closed \in [Connection -> Nat]

\* The channel done of a subscription is closed by a Publish that finds the
\* buffer full or by the stream that returns, whichever is first, and never by
\* both (a second close panics and takes the process down).
ClosedOnce == \A c \in Connection : closed[c] <= (IF c \in subscribed THEN 0 ELSE 1)
=============================================================================
