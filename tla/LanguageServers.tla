--------------------------- MODULE LanguageServers ---------------------------
(* The sessions of language servers: the hub that starts them and keeps them  *)
(* in Redis (LanguageServerSessionService), the ticket and the socket of the  *)
(* browser, and the execution service that runs a container for each          *)
(* (LanguageServerSessions).                                                  *)
(*                                                                            *)
(* Sessions are numbered in the order they are asked for. The hub runs the    *)
(* calls of a connection one after the other; sockets are requests of their   *)
(* own. The places of a room and those of the service are one number.         *)
EXTENDS Integers, FiniteSets

CONSTANTS
  Conn,
  MaxStarts,
  MaximumSessionsPerConnection,
  MaxPlaces,          \* containers the execution service runs at once
  MaxFailures         \* lost answers, failed requests, commands and launches

LanguageServerAssumption ==
  /\ {MaxStarts, MaximumSessionsPerConnection, MaxPlaces, MaxFailures} \subseteq Nat
  /\ "nobody" \notin Conn    \* nobody: who a session is for before it is asked for

VARIABLES
  up,          \* connections that are connected
  hub,         \* the call of a connection that is under way
  owner,       \* the connection a session was started for
  reserved,    \* sessions with a reservation in the set of their connection
  listed,      \* sessions in the set of their connection
  key,         \* sessions with metadata, lsp:session
  ticket,      \* sessions with a ticket, lsp:ticket
  proxy,       \* the browser's socket for a session
  toClose,     \* requests to close a session that are on their way
  stage,       \* how far the execution service is with a session
  places,      \* _slots and RoomSessionCapacity: places taken
  aged,        \* sessions older than thirty minutes
  lost,        \* history: sessions an answer or a request about was lost
  failures

redis == <<reserved, listed, key, ticket>>
vars == <<up, hub, owner, redis, proxy, toClose, stage, places, aged, lost, failures>>

Session == 1..MaxStarts
Idle == [at |-> "idle", s |-> 0]
started == Cardinality({s \in Session : owner[s] # "nobody"})
Of(c, sessions) == {s \in sessions : owner[s] = c}
MayFail == failures < MaxFailures /\ failures' = failures + 1

Init ==
  /\ up = Conn /\ hub = [c \in Conn |-> Idle] /\ owner = [s \in Session |-> "nobody"]
  /\ reserved = {} /\ listed = {} /\ key = {} /\ ticket = {} /\ proxy = [s \in Session |-> "none"]
  /\ toClose = {} /\ stage = [s \in Session |-> "none"] /\ places = 0 /\ aged = {} /\ lost = {} /\ failures = 0
-----------------------------------------------------------------------------
(* StartAsync *)

\* ReserveSession counts reservations and sessions.
Reserve(c) ==
  LET s == started + 1 IN
  /\ c \in up /\ hub[c] = Idle /\ s \in Session
  /\ Cardinality(Of(c, reserved)) + Cardinality(Of(c, listed)) < MaximumSessionsPerConnection
  /\ reserved' = reserved \cup {s} /\ owner' = [owner EXCEPT ![s] = c]
  /\ hub' = [hub EXCEPT ![c] = [at |-> "starting", s |-> s]] /\ stage' = [stage EXCEPT ![s] = "asked"]
  /\ UNCHANGED <<up, listed, key, ticket, proxy, toClose, places, aged, lost, failures>>

\* The service refuses, or its answer does not come: the session is not known.
StartFails(c) ==
  LET s == hub[c].s IN
  /\ hub[c].at = "starting" /\ hub' = [hub EXCEPT ![c] = Idle] /\ reserved' = reserved \ {s}
  /\ \/ stage[s] = "refused" /\ UNCHANGED <<lost, failures>>
     \/ stage[s] # "refused" /\ MayFail /\ lost' = lost \cup {s}
  /\ UNCHANGED <<up, owner, listed, key, ticket, proxy, toClose, stage, places, aged>>

\* The commands that publish the session, one after the other.
Unreserve(c) ==
  /\ hub[c].at = "starting" /\ stage[hub[c].s] \in {"live", "closing", "gone"}
  /\ reserved' = reserved \ {hub[c].s} /\ hub' = [hub EXCEPT ![c].at = "list"]
  /\ UNCHANGED <<up, owner, listed, key, ticket, proxy, toClose, stage, places, aged, lost, failures>>

List(c) ==
  /\ hub[c].at = "list" /\ listed' = listed \cup {hub[c].s} /\ hub' = [hub EXCEPT ![c].at = "key"]
  /\ UNCHANGED <<up, owner, reserved, key, ticket, proxy, toClose, stage, places, aged, lost, failures>>

SetKey(c) ==
  /\ hub[c].at = "key" /\ key' = key \cup {hub[c].s} /\ hub' = [hub EXCEPT ![c].at = "ticket"]
  /\ UNCHANGED <<up, owner, reserved, listed, ticket, proxy, toClose, stage, places, aged, lost, failures>>

SetTicket(c) ==
  /\ hub[c].at = "ticket" /\ ticket' = ticket \cup {hub[c].s} /\ hub' = [hub EXCEPT ![c] = Idle]
  /\ UNCHANGED <<up, owner, reserved, listed, key, proxy, toClose, stage, places, aged, lost, failures>>

\* A command fails: the session is taken off the set and closed. A reservation
\* stays, and so does the metadata.
PublishFails(c) ==
  LET s == hub[c].s IN
  /\ \/ hub[c].at = "starting" /\ stage[s] \in {"live", "closing", "gone"}
     \/ hub[c].at \in {"list", "key", "ticket"}
  /\ MayFail /\ listed' = listed \ {s} /\ toClose' = toClose \cup {s} /\ hub' = [hub EXCEPT ![c] = Idle]
  /\ UNCHANGED <<up, owner, reserved, key, ticket, proxy, stage, places, aged, lost>>
-----------------------------------------------------------------------------
(* ProxyAsync *)

\* A ticket is good for one socket and for a minute.
ConsumeTicket(s) ==
  /\ s \in ticket /\ ticket' = ticket \ {s}
  /\ \/ proxy' = [proxy EXCEPT ![s] = "consumed"]
     \/ UNCHANGED proxy
  /\ UNCHANGED <<up, hub, owner, reserved, listed, key, toClose, stage, places, aged, lost, failures>>

\* CloseSessionAsync: the metadata and the set, then the execution service.
CloseSession(s) ==
  /\ key' = key \ {s} /\ listed' = listed \ {s} /\ toClose' = toClose \cup {s}
  /\ UNCHANGED <<reserved, ticket>>

\* The metadata and the participant are looked up again.
CheckTicket(s) ==
  /\ proxy[s] = "consumed"
  /\ IF s \in key /\ owner[s] \in up
     THEN proxy' = [proxy EXCEPT ![s] = "joining"] /\ UNCHANGED <<redis, toClose>>
     ELSE proxy' = [proxy EXCEPT ![s] = "ended"] /\ CloseSession(s)
  /\ UNCHANGED <<up, hub, owner, stage, places, aged, lost, failures>>

\* TryConnect of the execution service, or an error that ends the socket.
JoinSockets(s) ==
  /\ proxy[s] = "joining"
  /\ IF stage[s] = "live" THEN proxy' = [proxy EXCEPT ![s] = "open"] /\ UNCHANGED <<redis, toClose>>
     ELSE proxy' = [proxy EXCEPT ![s] = "ended"] /\ CloseSession(s)
  /\ UNCHANGED <<up, hub, owner, stage, places, aged, lost, failures>>

\* Either end closes, or the thirty minutes are over: both services close.
EndSocket(s) ==
  /\ proxy[s] = "open" /\ proxy' = [proxy EXCEPT ![s] = "ended"] /\ CloseSession(s)
  /\ UNCHANGED <<up, hub, owner, stage, places, aged, lost, failures>>
-----------------------------------------------------------------------------
(* The end of a connection *)

Drop(c) ==
  /\ c \in up /\ up' = up \ {c}
  /\ UNCHANGED <<hub, owner, redis, proxy, toClose, stage, places, aged, lost, failures>>

\* A mutant of CloseConnectionSession: only the sets are cleared.
ForgetConnectionSession(c) ==
  /\ c \notin up /\ hub[c].at = "idle" /\ \E s \in Of(c, listed) : listed' = listed \ {s}
  /\ UNCHANGED <<up, hub, owner, reserved, key, ticket, proxy, toClose, stage, places, aged, lost, failures>>

\* OnDisconnected, when the call under way is over: the sessions of the set,
\* those without metadata only leave it.
CloseConnectionSession(c) ==
  /\ c \notin up /\ hub[c].at = "idle"
  /\ \E s \in Of(c, listed) :
       IF s \in key THEN CloseSession(s)
       ELSE listed' = listed \ {s} /\ UNCHANGED <<reserved, key, ticket, toClose>>
  /\ UNCHANGED <<up, hub, owner, proxy, stage, places, aged, lost, failures>>

DeleteConnection(c) ==
  /\ c \notin up /\ hub[c].at = "idle" /\ Of(c, listed) = {} /\ hub' = [hub EXCEPT ![c].at = "over"]
  /\ reserved' = reserved \ Of(c, reserved)
  /\ UNCHANGED <<up, owner, listed, key, ticket, proxy, toClose, stage, places, aged, lost, failures>>

\* Metadata lives thirty minutes.
ExpireKey(s) ==
  /\ s \in key \cap aged /\ key' = key \ {s}
  /\ UNCHANGED <<up, hub, owner, reserved, listed, ticket, proxy, toClose, stage, places, aged, lost, failures>>
-----------------------------------------------------------------------------
(* The execution service *)

Acquire(s) ==
  /\ stage[s] = "asked"
  /\ IF places < MaxPlaces THEN places' = places + 1 /\ stage' = [stage EXCEPT ![s] = "launching"]
     ELSE stage' = [stage EXCEPT ![s] = "refused"] /\ UNCHANGED places
  /\ UNCHANGED <<up, hub, owner, redis, proxy, toClose, aged, lost, failures>>

Launch(s) ==
  /\ stage[s] = "launching" /\ stage' = [stage EXCEPT ![s] = "live"]
  /\ UNCHANGED <<up, hub, owner, redis, proxy, toClose, places, aged, lost, failures>>

LaunchFails(s) ==
  /\ stage[s] = "launching" /\ MayFail /\ stage' = [stage EXCEPT ![s] = "refused"] /\ places' = places - 1
  /\ UNCHANGED <<up, hub, owner, redis, proxy, toClose, aged, lost>>

\* CloseAsync: who takes the session out of the table removes its container.
CloseAsync(s) == stage' = IF stage[s] = "live" THEN [stage EXCEPT ![s] = "closing"] ELSE stage

CloseRequest(s) ==
  /\ s \in toClose /\ toClose' = toClose \ {s}
  /\ \/ CloseAsync(s) /\ UNCHANGED <<lost, failures>>
     \/ UNCHANGED stage /\ MayFail /\ lost' = lost \cup {s}
  /\ UNCHANGED <<up, hub, owner, redis, proxy, places, aged>>

Remove(s) ==
  /\ stage[s] = "closing" /\ stage' = [stage EXCEPT ![s] = "gone"] /\ places' = places - 1
  /\ UNCHANGED <<up, hub, owner, redis, proxy, toClose, aged, lost, failures>>

Age(s) ==
  /\ stage[s] = "live" /\ s \notin aged /\ aged' = aged \cup {s}
  /\ UNCHANGED <<up, hub, owner, redis, proxy, toClose, stage, places, lost, failures>>

CleanupExpired(s) ==
  /\ s \in aged /\ stage[s] = "live" /\ CloseAsync(s)
  /\ UNCHANGED <<up, hub, owner, redis, proxy, toClose, places, aged, lost, failures>>
-----------------------------------------------------------------------------
Next ==
  \/ \E c \in Conn :
       Reserve(c) \/ StartFails(c) \/ Unreserve(c) \/ List(c) \/ SetKey(c) \/ SetTicket(c) \/ PublishFails(c)
       \/ Drop(c) \/ CloseConnectionSession(c) \/ DeleteConnection(c)
  \/ \E s \in Session :
       ConsumeTicket(s) \/ CheckTicket(s) \/ JoinSockets(s) \/ EndSocket(s) \/ ExpireKey(s)
       \/ Acquire(s) \/ Launch(s) \/ LaunchFails(s) \/ CloseRequest(s) \/ Remove(s) \/ Age(s) \/ CleanupExpired(s)

Spec == Init /\ [][Next]_vars
-----------------------------------------------------------------------------
(* Properties *)

\* The containers of a connection that no loss hides stay within its limit,
\* though what the limit counts is written in several commands, and taken off
\* by sockets that end on their own.
LiveWithinLimit ==
  \A c \in Conn :
    Cardinality({s \in Of(c, Session) : stage[s] \in {"launching", "live"} /\ s \notin lost \cup toClose})
      <= MaximumSessionsPerConnection

\* When the end of a connection is handled, none of its containers is left but
\* those past their thirty minutes, those about to be closed and those a lost
\* request or answer hides, at whatever command its sessions, tickets and
\* sockets were.
EndedConnectionsLeaveNothing ==
  \A s \in Session :
    stage[s] \in {"launching", "live"} /\ hub[owner[s]].at = "over" => s \in lost \cup aged \cup toClose

\* A connection holds its servers within the limit, and none after its end.
NoStrayServers == LiveWithinLimit /\ EndedConnectionsLeaveNothing
=============================================================================
