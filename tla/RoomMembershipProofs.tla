------------------------ MODULE RoomMembershipProofs ------------------------
(* Proofs about RoomMembership for any number of rooms, connections and members: *)
(* the limits, and, when admins act on members that are quiet (QuietTargets),    *)
(* that a kicked member has to ask and a demoted one stays demoted.              *)
(*                                                                               *)
(* What a hub method has read is part of the invariants: the stage it has reached *)
(* says what its member was granted, and which role it carries.                  *)
EXTENDS RoomMembership, FiniteSetTheorems, TLAPS

\* The hashes with fields in K and values in V.
Hash(K, V) == UNION {[S -> V] : S \in SUBSET K}

Links == {"new", "open", "lost", "closing", "closed"}
Stages == {"idle", "request", "ask", "admit", "enter", "joined", "save", "clear", "saveLeaving",
           "remove", "promote", "saveLock"}
Calls == [at : Stages \cup {"forget"}, known : BOOLEAN, role : Roles, flag : BOOLEAN,
          returning : BOOLEAN, others : SUBSET Conn, then : Stages]
Requests == [conn : Conn, approved : BOOLEAN]

CallTypes == call \in [Conn -> Calls]
PeopleTypes == participants \in [Room -> Hash(Conn, Roles)]
MemberTypes == members \in [Room -> Hash(Member, Records)]
RequestTypes == requests \in [Room -> Hash(Member, Requests)]
HistoryTypes == granted \in [Room -> SUBSET Member] /\ demoted \in [Room -> SUBSET Member]

Types ==
  /\ link \in [Conn -> Links] /\ connections \subseteq Conn /\ crashed \subseteq Conn
  /\ CallTypes /\ PeopleTypes /\ MemberTypes /\ RequestTypes /\ HistoryTypes

\* Where a call is: "forget" comes between two stages.
StageOf(state) == IF state.at = "forget" THEN state.then ELSE state.at
Stage(c) == StageOf(call[c])

-----------------------------------------------------------------------------
(* What a step does to one variable.                                             *)

\* The call of c gets to a stage, with a role.
Goes(c, stage, role) ==
  /\ CallTypes'
  /\ Stage(c)' = stage /\ call'[c].role = role
  /\ \A d \in Conn \ {c} : call'[d] = call[d]

\* Participants go, or none does.
Shrinks ==
  /\ PeopleTypes'
  /\ \A r \in Room :
       /\ DOMAIN participants'[r] \subseteq DOMAIN participants[r]
       /\ \A c \in DOMAIN participants'[r] : participants'[r][c] = participants[r][c]

\* One participant of a room comes or changes.
Seats(r, c, role) ==
  /\ PeopleTypes'
  /\ DOMAIN participants'[r] = DOMAIN participants[r] \cup {c}
  /\ participants'[r][c] = role
  /\ \A d \in DOMAIN participants[r] \ {c} : participants'[r][d] = participants[r][d]
  /\ \A s \in Room \ {r} : participants'[s] = participants[s]

\* Of the records of members at most the locks change.
Relocks ==
  /\ MemberTypes'
  /\ \A r \in Room :
       /\ DOMAIN members'[r] = DOMAIN members[r]
       /\ \A m \in DOMAIN members[r] :
            /\ members'[r][m].admin = members[r][m].admin
            /\ members'[r][m].revoked = members[r][m].revoked
            /\ members'[r][m].ask = members[r][m].ask

\* One record of a room comes or changes.
Writes(r, m, record) ==
  /\ MemberTypes'
  /\ DOMAIN members'[r] = DOMAIN members[r] \cup {m}
  /\ members'[r][m] = record
  /\ \A n \in DOMAIN members[r] \ {m} : members'[r][n] = members[r][n]
  /\ \A s \in Room \ {r} : members'[s] = members[s]

\* A pending request of a room changes.
Answers(r, m, request) ==
  /\ RequestTypes'
  /\ DOMAIN requests'[r] = DOMAIN requests[r]
  /\ requests'[r][m] = request
  /\ \A n \in DOMAIN requests[r] \ {m} : requests'[r][n] = requests[r][n]
  /\ \A s \in Room \ {r} : requests'[s] = requests[s]

\* No request becomes an approved one.
ApprovesNone ==
  /\ RequestTypes'
  /\ \A r \in Room : \A m \in DOMAIN requests'[r] :
       requests'[r][m].approved => m \in DOMAIN requests[r] /\ requests[r][m].approved

-----------------------------------------------------------------------------
(* Hashes                                                                        *)

LEMMA HashParts ==
  ASSUME NEW K, NEW V, NEW h \in Hash(K, V)
  PROVE  DOMAIN h \subseteq K /\ \A x \in DOMAIN h : h[x] \in V
<1>1. PICK S \in SUBSET K : h \in [S -> V]
  BY DEF Hash
<1> QED BY <1>1

LEMMA HashOf ==
  ASSUME NEW K, NEW V, NEW S \in SUBSET K, NEW h \in [S -> V]
  PROVE  h \in Hash(K, V)
BY DEF Hash

LEMMA HashEmpty == ASSUME NEW K, NEW V PROVE <<>> \in Hash(K, V) /\ DOMAIN <<>> = {}
<1>1. <<>> \in [{} -> V] /\ DOMAIN <<>> = {}
  OBVIOUS
<1> QED BY <1>1, HashOf

LEMMA HashSet ==
  ASSUME NEW K, NEW V, NEW h \in Hash(K, V), NEW k \in K, NEW v \in V
  PROVE  Set(h, k, v) \in Hash(K, V)
<1>1. DOMAIN h \cup {k} \in SUBSET K /\ \A x \in DOMAIN h : h[x] \in V
  BY HashParts
<1>2. Set(h, k, v) \in [DOMAIN h \cup {k} -> V]
  BY <1>1 DEF Set
<1> QED BY <1>1, <1>2, HashOf

LEMMA WithoutFields ==
  ASSUME NEW h, NEW gone
  PROVE  /\ DOMAIN Without(h, gone) = DOMAIN h \ gone
         /\ \A x \in DOMAIN h \ gone : Without(h, gone)[x] = h[x]
BY DEF Without, Restrict

LEMMA HashWithout ==
  ASSUME NEW K, NEW V, NEW h \in Hash(K, V), NEW gone
  PROVE  Without(h, gone) \in Hash(K, V)
<1>1. DOMAIN h \ gone \in SUBSET K /\ \A x \in DOMAIN h : h[x] \in V
  BY HashParts
<1>2. Without(h, gone) \in [DOMAIN h \ gone -> V]
  BY <1>1 DEF Without, Restrict
<1> QED BY <1>1, <1>2, HashOf

\* Changing a field that is there.
LEMMA HashExcept ==
  ASSUME NEW K, NEW V, NEW h \in Hash(K, V), NEW k \in DOMAIN h, NEW v \in V
  PROVE  /\ [h EXCEPT ![k] = v] \in Hash(K, V)
         /\ DOMAIN [h EXCEPT ![k] = v] = DOMAIN h /\ [h EXCEPT ![k] = v][k] = v
         /\ \A x \in DOMAIN h \ {k} : [h EXCEPT ![k] = v][x] = h[x]
<1>1. PICK S \in SUBSET K : h \in [S -> V]
  BY DEF Hash
<1>2. [h EXCEPT ![k] = v] \in [S -> V]
  BY <1>1
<1> QED BY <1>2, HashOf

-----------------------------------------------------------------------------
(* Calls                                                                         *)

LEMMA IdleTypes == Idle \in Calls /\ StageOf(Idle) = "idle" /\ Idle.role.admin = FALSE
BY DEF Idle, Calls, Stages, Roles, StageOf

LEMMA CallGoes ==
  ASSUME CallTypes, NEW c \in Conn, NEW state \in Calls, call' = [call EXCEPT ![c] = state]
  PROVE  Goes(c, StageOf(state), state.role)
BY DEF CallTypes, Goes, Stage

LEMMA LookedTypes ==
  ASSUME NEW state \in Calls, NEW nobody \in BOOLEAN, NEW next \in Stages
  PROVE  /\ Looked(state, nobody, next) \in Calls
         /\ StageOf(Looked(state, nobody, next)) = next
         /\ Looked(state, nobody, next).role = state.role
<1> DEFINE new == Looked(state, nobody, next)
<1>1. /\ new.at = IF nobody THEN "forget" ELSE next
      /\ new.then = IF nobody THEN next ELSE "idle"
      /\ new.role = state.role
  BY DEF Looked
<1>2. new \in Calls
  BY DEF Looked, Calls, Stages
<1>3. next # "forget" /\ "idle" \in Stages
  BY DEF Stages
<1> QED BY <1>1, <1>2, <1>3 DEF StageOf

\* A call that moves on without anything else.
LEMMA CallMoves ==
  ASSUME CallTypes, NEW c \in Conn, NEW next \in Stages, call' = [call EXCEPT ![c].at = next]
  PROVE  Goes(c, next, call[c].role)
<1> DEFINE new == [call[c] EXCEPT !.at = next]
<1>1. new \in Calls /\ new.at = next /\ new.role = call[c].role
  BY DEF CallTypes, Calls
<1>2. call' = [call EXCEPT ![c] = new]
  OBVIOUS
<1>3. StageOf(new) = next
  BY DEF StageOf, Stages
<1> QED BY <1>1, <1>3, CallGoes
-----------------------------------------------------------------------------
(* The effect of the updates of the model                                        *)

LEMMA PeopleShrink ==
  ASSUME PeopleTypes, NEW r \in Room, NEW gone,
         participants' = [participants EXCEPT ![r] = Without(@, gone)]
  PROVE  Shrinks /\ DOMAIN participants'[r] = DOMAIN participants[r] \ gone
<1>1. participants[r] \in Hash(Conn, Roles)
  BY DEF PeopleTypes
<1>2. /\ Without(participants[r], gone) \in Hash(Conn, Roles)
      /\ DOMAIN Without(participants[r], gone) = DOMAIN participants[r] \ gone
      /\ \A x \in DOMAIN participants[r] \ gone : Without(participants[r], gone)[x] = participants[r][x]
  BY <1>1, HashWithout DEF Without, Restrict
<1> QED BY <1>2 DEF PeopleTypes, Shrinks

LEMMA RemovedShrinks ==
  ASSUME PeopleTypes, NEW r \in Room, NEW gone, Removed(r, gone)
  PROVE  /\ Shrinks /\ connections' = connections \ gone
         /\ DOMAIN participants'[r] = DOMAIN participants[r] \ gone
BY PeopleShrink DEF Removed

LEMMA SeatsSet ==
  ASSUME PeopleTypes, NEW r \in Room, NEW c \in Conn, NEW role \in Roles,
         participants' = [participants EXCEPT ![r] = Set(@, c, role)]
  PROVE  Seats(r, c, role)
<1>1. participants[r] \in Hash(Conn, Roles)
  BY DEF PeopleTypes
<1> DEFINE h == Set(participants[r], c, role)
<1>2. h \in Hash(Conn, Roles)
  BY <1>1, HashSet
<1>3. /\ DOMAIN h = DOMAIN participants[r] \cup {c} /\ h[c] = role
      /\ \A x \in DOMAIN participants[r] \ {c} : h[x] = participants[r][x]
  BY DEF Set
<1>4. participants' = [participants EXCEPT ![r] = h]
  OBVIOUS
<1> QED BY <1>2, <1>3 DEF PeopleTypes, Seats

LEMMA SeatsExcept ==
  ASSUME PeopleTypes, NEW r \in Room, NEW c \in DOMAIN participants[r], NEW role \in Roles,
         participants' = [participants EXCEPT ![r][c] = role]
  PROVE  Seats(r, c, role) /\ c \in Conn
<1>1. participants[r] \in Hash(Conn, Roles)
  BY DEF PeopleTypes
<1> DEFINE h == [participants[r] EXCEPT ![c] = role]
<1>2. /\ h \in Hash(Conn, Roles) /\ DOMAIN h = DOMAIN participants[r] /\ h[c] = role
      /\ \A x \in DOMAIN participants[r] \ {c} : h[x] = participants[r][x]
  BY <1>1, HashExcept
<1>3. participants' = [participants EXCEPT ![r] = h]
  OBVIOUS
<1>4. c \in Conn
  BY <1>1, HashParts
<1> QED BY <1>2, <1>4 DEF PeopleTypes, Seats

LEMMA RoleTypes ==
  ASSUME PeopleTypes, NEW r \in Room, NEW c \in DOMAIN participants[r]
  PROVE  c \in Conn /\ participants[r][c] \in Roles
BY HashParts DEF PeopleTypes

LEMMA RecordTypes ==
  ASSUME MemberTypes, NEW r \in Room, NEW m \in DOMAIN members[r]
  PROVE  m \in Member /\ members[r][m] \in Records
BY HashParts DEF MemberTypes

LEMMA WritesSet ==
  ASSUME MemberTypes, NEW r \in Room, NEW m \in Member, NEW record \in Records,
         members' = [members EXCEPT ![r] = Set(members[r], m, record)]
  PROVE  Writes(r, m, record)
<1>1. members[r] \in Hash(Member, Records)
  BY DEF MemberTypes
<1> DEFINE h == Set(members[r], m, record)
<1>2. h \in Hash(Member, Records)
  BY <1>1, HashSet
<1>3. /\ DOMAIN h = DOMAIN members[r] \cup {m} /\ h[m] = record
      /\ \A x \in DOMAIN members[r] \ {m} : h[x] = members[r][x]
  BY DEF Set
<1>4. members' = [members EXCEPT ![r] = h]
  OBVIOUS
<1> QED BY <1>2, <1>3 DEF MemberTypes, Writes

LEMMA WritesExcept ==
  ASSUME MemberTypes, NEW r \in Room, NEW m \in DOMAIN members[r], NEW record \in Records,
         members' = [members EXCEPT ![r][m] = record]
  PROVE  Writes(r, m, record)
<1>1. members[r] \in Hash(Member, Records)
  BY DEF MemberTypes
<1> DEFINE h == [members[r] EXCEPT ![m] = record]
<1>2. /\ h \in Hash(Member, Records) /\ DOMAIN h = DOMAIN members[r] /\ h[m] = record
      /\ \A x \in DOMAIN members[r] \ {m} : h[x] = members[r][x]
  BY <1>1, HashExcept
<1>3. members' = [members EXCEPT ![r] = h]
  OBVIOUS
<1> QED BY <1>2 DEF MemberTypes, Writes

LEMMA WritesLock ==
  ASSUME MemberTypes, NEW r \in Room, NEW m \in DOMAIN members[r], NEW record \in Records,
         Writes(r, m, record), record.admin = members[r][m].admin,
         record.revoked = members[r][m].revoked, record.ask = members[r][m].ask
  PROVE  Relocks
BY DEF Writes, Relocks

LEMMA RememberedTypes ==
  ASSUME MemberTypes, NEW r \in Room, NEW m \in Member, NEW role \in Roles,
         members' = [members EXCEPT ![r] = Remembered(r, m, role)]
  PROVE  \E record \in Records :
           /\ Writes(r, m, record)
           /\ ~record.ask /\ record.admin = role.admin
           /\ m \in DOMAIN members[r] /\ members[r][m].revoked => record.revoked
<1> DEFINE record == [admin |-> role.admin, locked |-> role.locked /\ ~role.admin, ask |-> FALSE,
                      revoked |-> Has(members[r], m) /\ members[r][m].revoked]
<1>1. m \in DOMAIN members[r] => members[r][m].revoked \in BOOLEAN
  BY RecordTypes DEF Records
<1>2. record \in Records
  BY DEF Records, Roles
<1>3. Writes(r, m, record)
  BY <1>2, WritesSet DEF Remembered
<1> QED BY <1>2, <1>3 DEF Has

LEMMA RequestsShrink ==
  ASSUME RequestTypes, NEW r \in Room, NEW gone,
         requests' = [requests EXCEPT ![r] = Without(requests[r], gone)]
  PROVE  ApprovesNone /\ DOMAIN requests'[r] = DOMAIN requests[r] \ gone
<1>1. requests[r] \in Hash(Member, Requests)
  BY DEF RequestTypes
<1> DEFINE h == Without(requests[r], gone)
<1>2. /\ h \in Hash(Member, Requests) /\ DOMAIN h = DOMAIN requests[r] \ gone
      /\ \A x \in DOMAIN requests[r] \ gone : h[x] = requests[r][x]
  BY <1>1, HashWithout DEF Without, Restrict
<1> QED BY <1>2 DEF RequestTypes, ApprovesNone

LEMMA RequestCleared ==
  ASSUME RequestTypes, NEW c \in Conn, requests' = RequestsWithout(Home[c], c)
  PROVE  ApprovesNone
<1>1. Home[c] \in Room
  BY MembershipAssumption
<1>2. CASE requests' = requests
  BY <1>2 DEF RequestTypes, ApprovesNone
<1>3. CASE requests' = [requests EXCEPT ![Home[c]] = Without(requests[Home[c]], {MemberOf[c]})]
  BY <1>1, <1>3, RequestsShrink
<1> QED BY <1>2, <1>3 DEF RequestsWithout

\* A request is written: approved, it was approved before.
LEMMA RequestWritten ==
  ASSUME RequestTypes, NEW r \in Room, NEW m \in Member, NEW request \in Requests,
         requests' = [requests EXCEPT ![r] = Set(requests[r], m, request)],
         request.approved => m \in DOMAIN requests[r] /\ requests[r][m].approved
  PROVE  ApprovesNone
<1>1. requests[r] \in Hash(Member, Requests)
  BY DEF RequestTypes
<1> DEFINE h == Set(requests[r], m, request)
<1>2. h \in Hash(Member, Requests)
  BY <1>1, HashSet
<1>3. /\ DOMAIN h = DOMAIN requests[r] \cup {m} /\ h[m] = request
      /\ \A x \in DOMAIN requests[r] \ {m} : h[x] = requests[r][x]
  BY DEF Set
<1>4. requests' = [requests EXCEPT ![r] = h]
  OBVIOUS
<1> QED BY <1>2, <1>3 DEF RequestTypes, ApprovesNone

\* A field of a hash that is there, written with EXCEPT.
LEMMA RequestChanged ==
  ASSUME RequestTypes, NEW r \in Room, NEW m \in DOMAIN requests[r], NEW request \in Requests,
         requests' = [requests EXCEPT ![r][m] = request]
  PROVE  Answers(r, m, request)
<1>1. requests[r] \in Hash(Member, Requests)
  BY DEF RequestTypes
<1> DEFINE h == [requests[r] EXCEPT ![m] = request]
<1>2. /\ h \in Hash(Member, Requests) /\ DOMAIN h = DOMAIN requests[r] /\ h[m] = request
      /\ \A x \in DOMAIN requests[r] \ {m} : h[x] = requests[r][x]
  BY <1>1, HashExcept
<1>3. requests' = [requests EXCEPT ![r] = h]
  OBVIOUS
<1> QED BY <1>2 DEF RequestTypes, Answers

\* A request goes over to another connection.
LEMMA RequestMoved ==
  ASSUME RequestTypes, NEW r \in Room, NEW m \in DOMAIN requests[r], NEW c \in Conn,
         requests' = [requests EXCEPT ![r][m].conn = c]
  PROVE  ApprovesNone
<1>1. requests[r][m] \in Requests
  BY HashParts DEF RequestTypes
<1>2. PICK request \in Requests : /\ request.approved = requests[r][m].approved
                                  /\ requests' = [requests EXCEPT ![r][m] = request]
  <2> DEFINE moved == [requests[r][m] EXCEPT !.conn = c]
  <2>1. moved \in Requests /\ moved.approved = requests[r][m].approved
    BY <1>1 DEF Requests
  <2> QED BY <2>1
<1>3. Answers(r, m, request)
  BY <1>2, RequestChanged
<1> QED BY <1>3 DEF Answers, ApprovesNone

\* On whom an admin acts under QuietTargets.
LEMMA QuietStages ==
  ASSUME QuietTargets, NEW r \in Room, NEW m \in Member, NEW here, Quiet(r, m, here)
  PROVE  \A d \in Conn : MemberOf[d] = m =>
           Stage(d) = "idle" /\ (d \in here \/ d \notin DOMAIN participants[r])
BY DEF Quiet, Stage, StageOf, Has
-----------------------------------------------------------------------------
(* The inductive invariant                                                       *)

HomeOnly == \A r \in Room : \A c \in DOMAIN participants[r] : Home[c] = r

\* Only an open, lost or closing connection has a call under way, and whoever is
\* registered or in a room has connected.
Linked ==
  /\ \A c \in Conn : call[c].at # "idle" => link[c] \in {"open", "lost", "closing"}
  /\ \A c \in connections \cup crashed : link[c] # "new"
  /\ \A c \in crashed : link[c] = "closed"
  /\ \A r \in Room : \A c \in DOMAIN participants[r] : link[c] # "new"

\* Look has removed the participants that are gone, the caller among them.
EntersRegistered ==
  \A c \in Conn : Stage(c) = "enter" /\ c \in DOMAIN participants[Home[c]] => c \in connections

Limits ==
  /\ IsFiniteSet(connections) /\ Cardinality(connections \ crashed) <= MaxConnections
  /\ \A r \in Room : /\ IsFiniteSet(DOMAIN participants[r])
                     /\ Cardinality(DOMAIN participants[r]) <= MaxParticipants

\* What lets a member in without asking: its record, its request, a call that has
\* read one of them.
RecordsGranted ==
  \A r \in Room : \A m \in DOMAIN members[r] : ~members[r][m].ask => m \in granted[r]
ApprovalsGranted ==
  \A r \in Room : \A m \in DOMAIN requests[r] : requests[r][m].approved => m \in granted[r]
CallsGranted ==
  \A c \in Conn :
    Stage(c) \in {"admit", "enter", "save", "saveLeaving"} => MemberOf[c] \in granted[Home[c]]

\* A participant has a record unless its join is still under way or it is gone.
Recorded ==
  \A r \in Room : \A c \in DOMAIN participants[r] :
    link[c] = "open" => MemberOf[c] \in DOMAIN members[r] \/ Stage(c) \in {"joined", "save"}

Stripped(r) == demoted[r] \ {Creator[r]}

\* A demotion is remembered, and no call carries the role it took.
DemotedRecorded ==
  \A r \in Room : \A m \in Stripped(r) :
    m \in DOMAIN members[r] /\ members[r][m].revoked /\ ~members[r][m].admin
CallsDemoted ==
  \A c \in Conn :
    Stage(c) \in {"admit", "enter", "save", "saveLeaving"} /\ MemberOf[c] \in Stripped(Home[c])
      => ~call[c].role.admin

MembershipInv ==
  /\ Types /\ HomeOnly /\ Linked /\ EntersRegistered /\ Limits
  /\ QuietTargets =>
       /\ KickedMustAsk /\ RecordsGranted /\ ApprovalsGranted /\ CallsGranted
       /\ Recorded /\ DemotedRecorded /\ CallsDemoted /\ DemotedStaysDemoted

LEMMA Bounds == MaxParticipants \in Nat /\ MaxConnections \in Nat
BY MembershipAssumption

LEMMA MembershipInit == Init => MembershipInv
<1> SUFFICES ASSUME Init PROVE MembershipInv
  OBVIOUS
<1>1. \A r \in Room : DOMAIN participants[r] = {} /\ DOMAIN members[r] = {} /\ DOMAIN requests[r] = {}
  BY DEF Init
<1>2. Types
  BY HashEmpty, IdleTypes DEF Init, Types, CallTypes, PeopleTypes, MemberTypes, RequestTypes,
    HistoryTypes, Links
<1>3. \A c \in Conn : Stage(c) = "idle" /\ call[c].at = "idle"
  BY IdleTypes DEF Init, Stage, Idle
<1>4. Limits
  BY FS_EmptySet, MembershipAssumption DEF Init, Limits
<1>5. HomeOnly /\ Linked /\ EntersRegistered
  BY <1>3 DEF Init, HomeOnly, Linked, EntersRegistered
<1>6. KickedMustAsk /\ RecordsGranted /\ ApprovalsGranted /\ CallsGranted
  BY <1>1, <1>3 DEF KickedMustAsk, RecordsGranted, ApprovalsGranted, CallsGranted
<1>7. Recorded /\ DemotedRecorded /\ CallsDemoted /\ DemotedStaysDemoted
  BY <1>3 DEF Init, Recorded, Stripped, DemotedRecorded, CallsDemoted, DemotedStaysDemoted
<1> QED BY <1>2, <1>4, <1>5, <1>6, <1>7 DEF MembershipInv

\* Limits when participants and registrations only go.
LEMMA LimitsShrink ==
  ASSUME Limits, connections' \subseteq connections, crashed' = crashed,
         \A r \in Room : DOMAIN participants'[r] \subseteq DOMAIN participants[r]
  PROVE  Limits'
<1>1. IsFiniteSet(connections') /\ IsFiniteSet(connections \ crashed)
  BY FS_Subset DEF Limits
<1>2. Cardinality(connections' \ crashed) <= Cardinality(connections \ crashed)
  BY <1>1, FS_Subset
<1>3. /\ Cardinality(connections' \ crashed) \in Nat /\ Cardinality(connections \ crashed) \in Nat
      /\ MaxConnections \in Nat /\ MaxParticipants \in Nat
  BY <1>1, FS_Subset, FS_CardinalityType, MembershipAssumption
<1>4. ASSUME NEW r \in Room
      PROVE  /\ IsFiniteSet(DOMAIN participants'[r])
             /\ Cardinality(DOMAIN participants'[r]) <= MaxParticipants
  <2>1. /\ IsFiniteSet(DOMAIN participants'[r])
        /\ Cardinality(DOMAIN participants'[r]) <= Cardinality(DOMAIN participants[r])
    BY FS_Subset DEF Limits
  <2> QED BY <1>3, <2>1, FS_CardinalityType DEF Limits
<1> QED BY <1>1, <1>2, <1>3, <1>4 DEF Limits

\* Limits when one connection is registered.
LEMMA LimitsAdd ==
  ASSUME Limits, NEW c, c \notin crashed, crashed' = crashed, connections' = connections \cup {c},
         c \in connections \/ Cardinality(connections \ crashed) < MaxConnections
  PROVE  IsFiniteSet(connections') /\ Cardinality(connections' \ crashed') <= MaxConnections
<1>1. IsFiniteSet(connections \ crashed) /\ IsFiniteSet(connections')
  BY FS_Subset, FS_AddElement DEF Limits
<1>2. CASE c \in connections
  BY <1>2 DEF Limits
<1>3. CASE c \notin connections
  <2>1. connections' \ crashed' = (connections \ crashed) \cup {c} /\ c \notin connections \ crashed
    BY <1>3
  <2>2. Cardinality(connections' \ crashed') = Cardinality(connections \ crashed) + 1
    BY <1>1, <2>1, FS_AddElement
  <2>3. Cardinality(connections \ crashed) \in Nat /\ MaxConnections \in Nat
    BY <1>1, FS_CardinalityType, MembershipAssumption
  <2> QED BY <1>1, <2>2, <2>3
<1> QED BY <1>2, <1>3

-----------------------------------------------------------------------------
(* Every step keeps it                                                           *)

LEMMA KeptByLose ==
  ASSUME MembershipInv, NEW c \in Conn, Lose(c)
  PROVE  MembershipInv'
<1>1. Types /\ HomeOnly /\ Linked /\ EntersRegistered /\ Limits
  BY DEF MembershipInv
<1>2. QuietTargets => /\ KickedMustAsk /\ RecordsGranted /\ ApprovalsGranted /\ CallsGranted
                      /\ Recorded /\ DemotedRecorded /\ CallsDemoted /\ DemotedStaysDemoted
  BY DEF MembershipInv
<1>3. \A room \in Room : DOMAIN participants[room] \subseteq Conn
  BY <1>1, RoleTypes DEF Types
<1>4. \A conn \in Conn : Home[conn] \in Room /\ MemberOf[conn] \in Member
  BY MembershipAssumption
<1>5. UNCHANGED <<call, connections, crashed, participants, members, requests, granted, demoted>> /\ link[c] = "open"
  BY DEF Lose, stored
<1>6. link' = [link EXCEPT ![c] = "lost"]
  BY DEF Lose
<1>7. Types'
  BY <1>1, <1>5, <1>6 DEF Types, CallTypes, PeopleTypes, MemberTypes, RequestTypes, HistoryTypes, Links
<1>8. HomeOnly'
  BY <1>1, <1>5 DEF HomeOnly
<1>9. Linked'
  BY <1>1, <1>5, <1>6 DEF Linked
<1>10. EntersRegistered'
  BY <1>1, <1>5 DEF EntersRegistered, Stage
<1>11. Limits'
  BY <1>1, LimitsShrink, <1>5
<1>12. ASSUME QuietTargets PROVE KickedMustAsk'
  BY <1>2, <1>12, <1>5 DEF KickedMustAsk
<1>13. ASSUME QuietTargets PROVE RecordsGranted'
  BY <1>2, <1>13, <1>5 DEF RecordsGranted
<1>14. ASSUME QuietTargets PROVE ApprovalsGranted'
  BY <1>2, <1>14, <1>5 DEF ApprovalsGranted
<1>15. ASSUME QuietTargets PROVE CallsGranted'
  BY <1>2, <1>15, <1>5 DEF CallsGranted, Stage
<1>16. ASSUME QuietTargets PROVE Recorded'
  BY <1>2, <1>16, <1>5, <1>6 DEF Recorded, Stage
<1>17. ASSUME QuietTargets PROVE DemotedRecorded'
  BY <1>2, <1>17, <1>5 DEF DemotedRecorded, Stripped
<1>18. ASSUME QuietTargets PROVE CallsDemoted'
  BY <1>2, <1>18, <1>5 DEF CallsDemoted, Stripped, Stage
<1>19. ASSUME QuietTargets PROVE DemotedStaysDemoted'
  BY <1>2, <1>19, <1>5 DEF DemotedStaysDemoted
<1> QED BY <1>7, <1>8, <1>9, <1>10, <1>11, <1>12, <1>13, <1>14, <1>15, <1>16, <1>17, <1>18, <1>19 DEF
  MembershipInv

LEMMA KeptByLeaseExpires ==
  ASSUME MembershipInv, LeaseExpires
  PROVE  MembershipInv'
<1>1. Types /\ HomeOnly /\ Linked /\ EntersRegistered /\ Limits
  BY DEF MembershipInv
<1>2. QuietTargets => /\ KickedMustAsk /\ RecordsGranted /\ ApprovalsGranted /\ CallsGranted
                      /\ Recorded /\ DemotedRecorded /\ CallsDemoted /\ DemotedStaysDemoted
  BY DEF MembershipInv
<1>3. \A room \in Room : DOMAIN participants[room] \subseteq Conn
  BY <1>1, RoleTypes DEF Types
<1>4. \A conn \in Conn : Home[conn] \in Room /\ MemberOf[conn] \in Member
  BY MembershipAssumption
<1>5. UNCHANGED <<link, call, crashed, participants, members, requests, granted, demoted>>
  BY DEF LeaseExpires
<1>6. connections' = connections \ crashed
  BY DEF LeaseExpires
<1>7. Types'
  BY <1>1, <1>5, <1>6 DEF Types, CallTypes, PeopleTypes, MemberTypes, RequestTypes, HistoryTypes
<1>8. HomeOnly'
  BY <1>1, <1>5 DEF HomeOnly
<1>9. Linked'
  BY <1>1, <1>5, <1>6 DEF Linked
<1>10. EntersRegistered'
  BY <1>1, <1>5, <1>6 DEF EntersRegistered, Stage, StageOf, Linked
<1>11. Limits'
  BY <1>1, LimitsShrink, <1>5, <1>6
<1>12. ASSUME QuietTargets PROVE KickedMustAsk'
  BY <1>2, <1>12, <1>5 DEF KickedMustAsk
<1>13. ASSUME QuietTargets PROVE RecordsGranted'
  BY <1>2, <1>13, <1>5 DEF RecordsGranted
<1>14. ASSUME QuietTargets PROVE ApprovalsGranted'
  BY <1>2, <1>14, <1>5 DEF ApprovalsGranted
<1>15. ASSUME QuietTargets PROVE CallsGranted'
  BY <1>2, <1>15, <1>5 DEF CallsGranted, Stage
<1>16. ASSUME QuietTargets PROVE Recorded'
  BY <1>2, <1>16, <1>5 DEF Recorded, Stage
<1>17. ASSUME QuietTargets PROVE DemotedRecorded'
  BY <1>2, <1>17, <1>5 DEF DemotedRecorded, Stripped
<1>18. ASSUME QuietTargets PROVE CallsDemoted'
  BY <1>2, <1>18, <1>5 DEF CallsDemoted, Stripped, Stage
<1>19. ASSUME QuietTargets PROVE DemotedStaysDemoted'
  BY <1>2, <1>19, <1>5 DEF DemotedStaysDemoted
<1> QED BY <1>7, <1>8, <1>9, <1>10, <1>11, <1>12, <1>13, <1>14, <1>15, <1>16, <1>17, <1>18, <1>19 DEF
  MembershipInv

LEMMA KeptByPrune ==
  ASSUME MembershipInv, NEW r \in Room, Prune(r)
  PROVE  MembershipInv'
<1>1. Types /\ HomeOnly /\ Linked /\ EntersRegistered /\ Limits
  BY DEF MembershipInv
<1>2. QuietTargets => /\ KickedMustAsk /\ RecordsGranted /\ ApprovalsGranted /\ CallsGranted
                      /\ Recorded /\ DemotedRecorded /\ CallsDemoted /\ DemotedStaysDemoted
  BY DEF MembershipInv
<1>3. \A room \in Room : DOMAIN participants[room] \subseteq Conn
  BY <1>1, RoleTypes DEF Types
<1>4. \A conn \in Conn : Home[conn] \in Room /\ MemberOf[conn] \in Member
  BY MembershipAssumption
<1>5. Shrinks /\ connections' = connections \ Dead(r)
  BY <1>1, RemovedShrinks DEF Prune, Types
<1>6. UNCHANGED <<link, call, crashed, members, requests, granted, demoted>>
  BY DEF Prune
<1>7. connections' = connections
  BY <1>5 DEF Dead
<1>8. Types'
  BY <1>1, <1>5, <1>6 DEF Types, CallTypes, MemberTypes, RequestTypes, HistoryTypes, Shrinks
<1>9. HomeOnly'
  BY <1>1, <1>5 DEF HomeOnly, Shrinks
<1>10. Linked'
  BY <1>1, <1>5, <1>6 DEF Linked, Shrinks
<1>11. EntersRegistered'
  BY <1>1, <1>4, <1>5, <1>6, <1>7 DEF EntersRegistered, Stage, Shrinks
<1>12. Limits'
  BY <1>1, LimitsShrink, <1>5, <1>6 DEF Shrinks
<1>13. ASSUME QuietTargets PROVE KickedMustAsk'
  BY <1>2, <1>13, <1>5, <1>6 DEF KickedMustAsk, Shrinks
<1>14. ASSUME QuietTargets PROVE RecordsGranted'
  BY <1>2, <1>14, <1>6 DEF RecordsGranted
<1>15. ASSUME QuietTargets PROVE ApprovalsGranted'
  BY <1>2, <1>15, <1>6 DEF ApprovalsGranted
<1>16. ASSUME QuietTargets PROVE CallsGranted'
  BY <1>2, <1>16, <1>6 DEF CallsGranted, Stage
<1>17. ASSUME QuietTargets PROVE Recorded'
  BY <1>2, <1>17, <1>5, <1>6 DEF Recorded, Stage, Shrinks
<1>18. ASSUME QuietTargets PROVE DemotedRecorded'
  BY <1>2, <1>18, <1>6 DEF DemotedRecorded, Stripped
<1>19. ASSUME QuietTargets PROVE CallsDemoted'
  BY <1>2, <1>19, <1>6 DEF CallsDemoted, Stripped, Stage
<1>20. ASSUME QuietTargets PROVE DemotedStaysDemoted'
  BY <1>2, <1>20, <1>5, <1>6 DEF DemotedStaysDemoted, Shrinks
<1> QED BY <1>8, <1>9, <1>10, <1>11, <1>12, <1>13, <1>14, <1>15, <1>16, <1>17, <1>18, <1>19, <1>20 DEF
  MembershipInv

LEMMA KeptByCrash ==
  ASSUME MembershipInv, Crash
  PROVE  MembershipInv'
<1>1. Types /\ HomeOnly /\ Linked /\ EntersRegistered /\ Limits
  BY DEF MembershipInv
<1>2. QuietTargets => /\ KickedMustAsk /\ RecordsGranted /\ ApprovalsGranted /\ CallsGranted
                      /\ Recorded /\ DemotedRecorded /\ CallsDemoted /\ DemotedStaysDemoted
  BY DEF MembershipInv
<1>3. \A room \in Room : DOMAIN participants[room] \subseteq Conn
  BY <1>1, RoleTypes DEF Types
<1>4. \A conn \in Conn : Home[conn] \in Room /\ MemberOf[conn] \in Member
  BY MembershipAssumption
<1>5. UNCHANGED <<connections, participants, members, requests, granted, demoted>>
  BY DEF Crash, stored
<1>6. CallTypes' /\ \A d \in Conn : call'[d].at = "idle" /\ Stage(d)' = "idle"
  BY IdleTypes DEF Crash, CallTypes, Stage, Idle
<1>7. /\ link' \in [Conn -> Links] /\ crashed' = connections
      /\ \A d \in Conn : link'[d] = IF link[d] = "new" THEN "new" ELSE "closed"
  BY DEF Crash, Links
<1>8. Types'
  BY <1>1, <1>5, <1>6, <1>7 DEF Types, PeopleTypes, MemberTypes, RequestTypes, HistoryTypes
<1>9. HomeOnly'
  BY <1>1, <1>5 DEF HomeOnly
<1>10. Linked'
  BY <1>1, <1>3, <1>5, <1>6, <1>7 DEF Linked, Types
<1>11. EntersRegistered'
  BY <1>6 DEF EntersRegistered
<1>12. Limits'
  <2>1. connections' \ crashed' = {} /\ connections' = connections /\ participants' = participants
    BY <1>5, <1>7
  <2>2. Cardinality(connections' \ crashed') = 0
    BY <2>1, FS_EmptySet
  <2> QED BY <1>1, <2>1, <2>2, Bounds DEF Limits
<1>13. ASSUME QuietTargets PROVE KickedMustAsk'
  BY <1>2, <1>13, <1>5 DEF KickedMustAsk
<1>14. ASSUME QuietTargets PROVE RecordsGranted'
  BY <1>2, <1>14, <1>5 DEF RecordsGranted
<1>15. ASSUME QuietTargets PROVE ApprovalsGranted'
  BY <1>2, <1>15, <1>5 DEF ApprovalsGranted
<1>16. ASSUME QuietTargets PROVE CallsGranted'
  BY <1>6 DEF CallsGranted
<1>17. ASSUME QuietTargets PROVE Recorded'
  BY <1>3, <1>5, <1>7 DEF Recorded
<1>18. ASSUME QuietTargets PROVE DemotedRecorded'
  BY <1>2, <1>18, <1>5 DEF DemotedRecorded, Stripped
<1>19. ASSUME QuietTargets PROVE CallsDemoted'
  BY <1>6 DEF CallsDemoted
<1>20. ASSUME QuietTargets PROVE DemotedStaysDemoted'
  BY <1>2, <1>20, <1>5 DEF DemotedStaysDemoted
<1> QED BY <1>8, <1>9, <1>10, <1>11, <1>12, <1>13, <1>14, <1>15, <1>16, <1>17, <1>18, <1>19, <1>20 DEF
  MembershipInv

LEMMA KeptByConnect ==
  ASSUME MembershipInv, NEW c \in Conn, Connect(c)
  PROVE  MembershipInv'
<1>1. Types /\ HomeOnly /\ Linked /\ EntersRegistered /\ Limits
  BY DEF MembershipInv
<1>2. QuietTargets => /\ KickedMustAsk /\ RecordsGranted /\ ApprovalsGranted /\ CallsGranted
                      /\ Recorded /\ DemotedRecorded /\ CallsDemoted /\ DemotedStaysDemoted
  BY DEF MembershipInv
<1>3. \A room \in Room : DOMAIN participants[room] \subseteq Conn
  BY <1>1, RoleTypes DEF Types
<1>4. \A conn \in Conn : Home[conn] \in Room /\ MemberOf[conn] \in Member
  BY MembershipAssumption
<1>5. Cardinality(connections \ crashed) \in Nat /\ MaxConnections \in Nat
  BY <1>1, FS_Subset, FS_CardinalityType, Bounds DEF Limits
<1>6. UNCHANGED <<call, crashed, participants, members, requests, granted, demoted>> /\ link[c] = "new"
  BY DEF Connect
<1>7. \E state \in {"open", "closed"} :
       /\ link' = [link EXCEPT ![c] = state]
       /\ \/ connections' = connections
          \/ /\ Cardinality(connections \ crashed) < MaxConnections
             /\ connections' = connections \cup {c} /\ state = "open"
  BY <1>5 DEF Connect
<1>8. Types'
  BY <1>1, <1>6, <1>7 DEF Types, CallTypes, PeopleTypes, MemberTypes, RequestTypes, HistoryTypes, Links
<1>9. HomeOnly'
  BY <1>1, <1>6 DEF HomeOnly
<1>10. Linked'
  BY <1>1, <1>6, <1>7 DEF Linked, Types
<1>11. EntersRegistered'
  BY <1>1, <1>6, <1>7 DEF EntersRegistered, Stage
<1>12. Limits'
  <2>1. CASE connections' = connections
    BY <1>1, <1>6, <2>1, LimitsShrink
  <2>2. CASE connections' # connections
    <3>1. /\ Cardinality(connections \ crashed) < MaxConnections /\ connections' = connections \cup {c}
          /\ c \notin crashed
      BY <1>1, <1>6, <1>7, <2>2 DEF Linked
    <3> QED BY <1>1, <1>6, <3>1, LimitsAdd DEF Limits
  <2> QED BY <2>1, <2>2
<1>13. ASSUME QuietTargets PROVE KickedMustAsk'
  BY <1>2, <1>13, <1>6 DEF KickedMustAsk
<1>14. ASSUME QuietTargets PROVE RecordsGranted'
  BY <1>2, <1>14, <1>6 DEF RecordsGranted
<1>15. ASSUME QuietTargets PROVE ApprovalsGranted'
  BY <1>2, <1>15, <1>6 DEF ApprovalsGranted
<1>16. ASSUME QuietTargets PROVE CallsGranted'
  BY <1>2, <1>16, <1>6 DEF CallsGranted, Stage
<1>17. ASSUME QuietTargets PROVE Recorded'
  BY <1>1, <1>2, <1>17, <1>6, <1>7 DEF Recorded, Stage, Linked
<1>18. ASSUME QuietTargets PROVE DemotedRecorded'
  BY <1>2, <1>18, <1>6 DEF DemotedRecorded, Stripped
<1>19. ASSUME QuietTargets PROVE CallsDemoted'
  BY <1>2, <1>19, <1>6 DEF CallsDemoted, Stripped, Stage
<1>20. ASSUME QuietTargets PROVE DemotedStaysDemoted'
  BY <1>2, <1>20, <1>6 DEF DemotedStaysDemoted
<1> QED BY <1>8, <1>9, <1>10, <1>11, <1>12, <1>13, <1>14, <1>15, <1>16, <1>17, <1>18, <1>19, <1>20 DEF
  MembershipInv

LEMMA KeptByForget ==
  ASSUME MembershipInv, NEW c \in Conn, Forget(c)
  PROVE  MembershipInv'
<1>1. Types /\ HomeOnly /\ Linked /\ EntersRegistered /\ Limits
  BY DEF MembershipInv
<1>2. QuietTargets => /\ KickedMustAsk /\ RecordsGranted /\ ApprovalsGranted /\ CallsGranted
                      /\ Recorded /\ DemotedRecorded /\ CallsDemoted /\ DemotedStaysDemoted
  BY DEF MembershipInv
<1>3. \A room \in Room : DOMAIN participants[room] \subseteq Conn
  BY <1>1, RoleTypes DEF Types
<1>4. \A conn \in Conn : Home[conn] \in Room /\ MemberOf[conn] \in Member
  BY MembershipAssumption
<1> DEFINE old == call[c]
           new == [old EXCEPT !.at = old.then, !.then = "idle"]
<1>5. old \in Calls /\ old.at = "forget"
  BY <1>1 DEF Forget, Types, CallTypes
<1>6. /\ new \in Calls /\ new.at = old.then /\ new.role = old.role /\ new.at # "forget"
  BY <1>5 DEF Calls, Stages
<1>7. call' = [call EXCEPT ![c] = new]
  BY DEF Forget
<1>8. Goes(c, Stage(c), call[c].role)
  BY <1>1, <1>5, <1>6, <1>7, CallGoes DEF Types, Stage, StageOf
<1>9. UNCHANGED <<link, connections, crashed, participants, members, requests, granted, demoted>> /\ call[c].at = "forget"
  BY DEF Forget
<1>10. Types'
  BY <1>1, <1>8, <1>9 DEF Types, PeopleTypes, MemberTypes, RequestTypes, HistoryTypes, Goes
<1>11. HomeOnly'
  BY <1>1, <1>9 DEF HomeOnly
<1>12. Linked'
  BY <1>1, <1>8, <1>9 DEF Linked, Goes
<1>13. EntersRegistered'
  BY <1>1, <1>8, <1>9 DEF EntersRegistered, Stage, Goes
<1>14. Limits'
  BY <1>1, LimitsShrink, <1>9
<1>15. ASSUME QuietTargets PROVE KickedMustAsk'
  BY <1>2, <1>15, <1>9 DEF KickedMustAsk
<1>16. ASSUME QuietTargets PROVE RecordsGranted'
  BY <1>2, <1>16, <1>9 DEF RecordsGranted
<1>17. ASSUME QuietTargets PROVE ApprovalsGranted'
  BY <1>2, <1>17, <1>9 DEF ApprovalsGranted
<1>18. ASSUME QuietTargets PROVE CallsGranted'
  BY <1>2, <1>18, <1>8, <1>9 DEF CallsGranted, Stage, Goes
<1>19. ASSUME QuietTargets PROVE Recorded'
  BY <1>3, <1>2, <1>19, <1>8, <1>9 DEF Recorded, Stage, Goes
<1>20. ASSUME QuietTargets PROVE DemotedRecorded'
  BY <1>2, <1>20, <1>9 DEF DemotedRecorded, Stripped
<1>21. ASSUME QuietTargets PROVE CallsDemoted'
  BY <1>2, <1>21, <1>8, <1>9 DEF CallsDemoted, Stripped, Stage, Goes
<1>22. ASSUME QuietTargets PROVE DemotedStaysDemoted'
  BY <1>2, <1>22, <1>9 DEF DemotedStaysDemoted
<1> QED BY <1>10, <1>11, <1>12, <1>13, <1>14, <1>15, <1>16, <1>17, <1>18, <1>19, <1>20, <1>21, <1>22
  DEF MembershipInv

LEMMA KeptByBeginJoin ==
  ASSUME MembershipInv, NEW c \in Conn, BeginJoin(c)
  PROVE  MembershipInv'
<1>1. Types /\ HomeOnly /\ Linked /\ EntersRegistered /\ Limits
  BY DEF MembershipInv
<1>2. QuietTargets => /\ KickedMustAsk /\ RecordsGranted /\ ApprovalsGranted /\ CallsGranted
                      /\ Recorded /\ DemotedRecorded /\ CallsDemoted /\ DemotedStaysDemoted
  BY DEF MembershipInv
<1>3. \A room \in Room : DOMAIN participants[room] \subseteq Conn
  BY <1>1, RoleTypes DEF Types
<1>4. \A conn \in Conn : Home[conn] \in Room /\ MemberOf[conn] \in Member
  BY MembershipAssumption
<1>5. PICK returning, flag, nobody \in BOOLEAN :
       call' = [call EXCEPT ![c] = Looked([Idle EXCEPT !.returning = returning, !.flag = flag], nobody, "request")]
  BY DEF BeginJoin
<1> DEFINE state == [Idle EXCEPT !.returning = returning, !.flag = flag]
<1>6. state \in Calls /\ state.role = Idle.role
  BY IdleTypes DEF Calls
<1>7. call' = [call EXCEPT ![c] = Looked(state, nobody, "request")]
  BY <1>5
<1> HIDE DEF state
<1>8. "request" \in Stages
  BY DEF Stages
<1>9. /\ Looked(state, nobody, "request") \in Calls
      /\ StageOf(Looked(state, nobody, "request")) = "request"
      /\ Looked(state, nobody, "request").role = Idle.role
  BY <1>6, <1>8, LookedTypes
<1>10. Goes(c, "request", Idle.role)
  BY <1>1, <1>7, <1>9, CallGoes DEF Types
<1>11. Shrinks /\ connections' = connections \ Dead(Home[c])
  BY <1>1, <1>4, RemovedShrinks DEF BeginJoin, Types
<1>12. UNCHANGED <<link, crashed, members, requests, granted, demoted>> /\ link[c] = "open" /\ Stage(c) = "idle"
  BY DEF BeginJoin, Stage, StageOf
<1>13. connections' = connections
  BY <1>11 DEF Dead
<1>14. Types'
  BY <1>1, <1>10, <1>11, <1>12 DEF Types, MemberTypes, RequestTypes, HistoryTypes, Goes, Shrinks
<1>15. HomeOnly'
  BY <1>1, <1>11 DEF HomeOnly, Shrinks
<1>16. Linked'
  BY <1>1, <1>10, <1>11, <1>12 DEF Linked, Goes, Shrinks
<1>17. EntersRegistered'
  BY <1>1, <1>4, <1>10, <1>11, <1>13 DEF EntersRegistered, Stage, Goes, Shrinks
<1>18. Limits'
  BY <1>1, LimitsShrink, <1>11, <1>12 DEF Shrinks
<1>19. ASSUME QuietTargets PROVE KickedMustAsk'
  BY <1>2, <1>19, <1>11, <1>12 DEF KickedMustAsk, Shrinks
<1>20. ASSUME QuietTargets PROVE RecordsGranted'
  BY <1>2, <1>20, <1>12 DEF RecordsGranted
<1>21. ASSUME QuietTargets PROVE ApprovalsGranted'
  BY <1>2, <1>21, <1>12 DEF ApprovalsGranted
<1>22. ASSUME QuietTargets PROVE CallsGranted'
  BY <1>2, <1>22, <1>10, <1>12 DEF CallsGranted, Stage, Goes
<1>23. ASSUME QuietTargets PROVE Recorded'
  BY <1>3, <1>2, <1>23, <1>10, <1>11, <1>12 DEF Recorded, Stage, Goes, Shrinks
<1>24. ASSUME QuietTargets PROVE DemotedRecorded'
  BY <1>2, <1>24, <1>12 DEF DemotedRecorded, Stripped
<1>25. ASSUME QuietTargets PROVE CallsDemoted'
  BY <1>2, <1>25, <1>10, <1>12 DEF CallsDemoted, Stripped, Stage, Goes
<1>26. ASSUME QuietTargets PROVE DemotedStaysDemoted'
  BY <1>2, <1>26, <1>11, <1>12 DEF DemotedStaysDemoted, Shrinks
<1> QED BY <1>14, <1>15, <1>16, <1>17, <1>18, <1>19, <1>20, <1>21, <1>22, <1>23, <1>24, <1>25, <1>26
  DEF MembershipInv

LEMMA KeptByLook ==
  ASSUME MembershipInv, NEW c \in Conn, Look(c)
  PROVE  MembershipInv'
<1>1. Types /\ HomeOnly /\ Linked /\ EntersRegistered /\ Limits
  BY DEF MembershipInv
<1>2. QuietTargets => /\ KickedMustAsk /\ RecordsGranted /\ ApprovalsGranted /\ CallsGranted
                      /\ Recorded /\ DemotedRecorded /\ CallsDemoted /\ DemotedStaysDemoted
  BY DEF MembershipInv
<1>3. \A room \in Room : DOMAIN participants[room] \subseteq Conn
  BY <1>1, RoleTypes DEF Types
<1>4. \A conn \in Conn : Home[conn] \in Room /\ MemberOf[conn] \in Member
  BY MembershipAssumption
<1>5. call[c] \in Calls /\ "enter" \in Stages /\ call[c].at = "admit" /\ (participants[Home[c]] = <<>>) \in BOOLEAN
  BY <1>1 DEF Types, CallTypes, Stages, Look
<1>6. call' = [call EXCEPT ![c] = Looked(call[c], participants[Home[c]] = <<>>, "enter")]
  BY DEF Look
<1>7. Goes(c, "enter", call[c].role)
  <2> DEFINE looked == Looked(call[c], participants[Home[c]] = <<>>, "enter")
  <2>1. looked \in Calls /\ StageOf(looked) = "enter" /\ looked.role = call[c].role
    BY <1>5, LookedTypes
  <2>2. CallTypes /\ call' = [call EXCEPT ![c] = looked]
    BY <1>1, <1>6 DEF Types
  <2> HIDE DEF looked
  <2> QED BY <2>1, <2>2, CallGoes
<1>8. call[c].at = "admit" /\ Stage(c) = "admit"
  BY DEF Look, Stage, StageOf
<1>9. /\ Shrinks /\ connections' = connections \ Dead(Home[c])
      /\ DOMAIN participants'[Home[c]] = DOMAIN participants[Home[c]] \ Dead(Home[c])
  BY <1>1, <1>4, RemovedShrinks DEF Look, Types
<1>10. UNCHANGED <<link, crashed, members, requests, granted, demoted>>
  BY DEF Look
<1>11. connections' = connections /\ \A d \in DOMAIN participants'[Home[c]] : d \in connections
  BY <1>9 DEF Dead
<1>12. Types'
  BY <1>1, <1>7, <1>9, <1>10 DEF Types, MemberTypes, RequestTypes, HistoryTypes, Goes, Shrinks
<1>13. HomeOnly'
  BY <1>1, <1>9 DEF HomeOnly, Shrinks
<1>14. Linked'
  BY <1>1, <1>7, <1>8, <1>9, <1>10 DEF Linked, Goes, Shrinks
<1>15. EntersRegistered'
  BY <1>1, <1>4, <1>7, <1>9, <1>11 DEF EntersRegistered, Stage, Goes, Shrinks
<1>16. Limits'
  BY <1>1, LimitsShrink, <1>9, <1>10 DEF Shrinks
<1>17. ASSUME QuietTargets PROVE KickedMustAsk'
  BY <1>2, <1>17, <1>9, <1>10 DEF KickedMustAsk, Shrinks
<1>18. ASSUME QuietTargets PROVE RecordsGranted'
  BY <1>2, <1>18, <1>10 DEF RecordsGranted
<1>19. ASSUME QuietTargets PROVE ApprovalsGranted'
  BY <1>2, <1>19, <1>10 DEF ApprovalsGranted
<1>20. ASSUME QuietTargets PROVE CallsGranted'
  BY <1>2, <1>20, <1>7, <1>8, <1>10 DEF CallsGranted, Stage, Goes
<1>21. ASSUME QuietTargets PROVE Recorded'
  BY <1>3, <1>2, <1>21, <1>7, <1>8, <1>9, <1>10 DEF Recorded, Stage, Goes, Shrinks
<1>22. ASSUME QuietTargets PROVE DemotedRecorded'
  BY <1>2, <1>22, <1>10 DEF DemotedRecorded, Stripped
<1>23. ASSUME QuietTargets PROVE CallsDemoted'
  BY <1>2, <1>23, <1>7, <1>8, <1>10 DEF CallsDemoted, Stripped, Stage, Goes
<1>24. ASSUME QuietTargets PROVE DemotedStaysDemoted'
  BY <1>2, <1>24, <1>9, <1>10 DEF DemotedStaysDemoted, Shrinks
<1> QED BY <1>12, <1>13, <1>14, <1>15, <1>16, <1>17, <1>18, <1>19, <1>20, <1>21, <1>22, <1>23, <1>24
  DEF MembershipInv

LEMMA KeptBySaveJoined ==
  ASSUME MembershipInv, NEW c \in Conn, SaveJoined(c)
  PROVE  MembershipInv'
<1>1. Types /\ HomeOnly /\ Linked /\ EntersRegistered /\ Limits
  BY DEF MembershipInv
<1>2. QuietTargets => /\ KickedMustAsk /\ RecordsGranted /\ ApprovalsGranted /\ CallsGranted
                      /\ Recorded /\ DemotedRecorded /\ CallsDemoted /\ DemotedStaysDemoted
  BY DEF MembershipInv
<1>3. \A room \in Room : DOMAIN participants[room] \subseteq Conn
  BY <1>1, RoleTypes DEF Types
<1>4. \A conn \in Conn : Home[conn] \in Room /\ MemberOf[conn] \in Member
  BY MembershipAssumption
<1>5. call[c].role \in Roles /\ "clear" \in Stages
  BY <1>1 DEF Types, CallTypes, Calls, Stages
<1>6. PICK record \in Records :
       /\ Writes(Home[c], MemberOf[c], record) /\ ~record.ask /\ record.admin = call[c].role.admin
       /\ MemberOf[c] \in DOMAIN members[Home[c]] /\ members[Home[c]][MemberOf[c]].revoked
            => record.revoked
  BY <1>1, <1>4, <1>5, RememberedTypes DEF SaveJoined, Types
<1>7. Goes(c, "clear", call[c].role)
  BY <1>1, <1>5, CallMoves DEF SaveJoined, Types
<1>8. call[c].at = "save" /\ Stage(c) = "save"
  BY DEF SaveJoined, Stage, StageOf
<1>9. UNCHANGED <<link, connections, crashed, participants, requests, granted, demoted>>
  BY DEF SaveJoined
<1>10. Types'
  BY <1>1, <1>6, <1>7, <1>9 DEF Types, PeopleTypes, RequestTypes, HistoryTypes, Goes, Writes
<1>11. HomeOnly'
  BY <1>1, <1>9 DEF HomeOnly
<1>12. Linked'
  BY <1>1, <1>7, <1>8, <1>9 DEF Linked, Goes
<1>13. EntersRegistered'
  BY <1>1, <1>7, <1>9 DEF EntersRegistered, Stage, Goes
<1>14. Limits'
  BY <1>1, LimitsShrink, <1>9
<1>15. ASSUME QuietTargets PROVE KickedMustAsk'
  BY <1>2, <1>15, <1>9 DEF KickedMustAsk
<1>16. ASSUME QuietTargets PROVE RecordsGranted'
  BY <1>2, <1>16, <1>6, <1>8, <1>9 DEF RecordsGranted, Writes, CallsGranted
<1>17. ASSUME QuietTargets PROVE ApprovalsGranted'
  BY <1>2, <1>17, <1>9 DEF ApprovalsGranted
<1>18. ASSUME QuietTargets PROVE CallsGranted'
  BY <1>2, <1>18, <1>7, <1>9 DEF CallsGranted, Stage, Goes
<1>19. ASSUME QuietTargets PROVE Recorded'
  BY <1>1, <1>3, <1>2, <1>19, <1>6, <1>7, <1>9 DEF Recorded, Stage, Goes, Writes, HomeOnly
<1>20. ASSUME QuietTargets PROVE DemotedRecorded'
  BY <1>2, <1>20, <1>6, <1>8, <1>9 DEF DemotedRecorded, Stripped, Writes, CallsDemoted
<1>21. ASSUME QuietTargets PROVE CallsDemoted'
  BY <1>2, <1>21, <1>7, <1>9 DEF CallsDemoted, Stripped, Stage, Goes
<1>22. ASSUME QuietTargets PROVE DemotedStaysDemoted'
  BY <1>2, <1>22, <1>9 DEF DemotedStaysDemoted
<1> QED BY <1>10, <1>11, <1>12, <1>13, <1>14, <1>15, <1>16, <1>17, <1>18, <1>19, <1>20, <1>21, <1>22
  DEF MembershipInv

LEMMA KeptBySaveLeaving ==
  ASSUME MembershipInv, NEW c \in Conn, SaveLeaving(c)
  PROVE  MembershipInv'
<1>1. Types /\ HomeOnly /\ Linked /\ EntersRegistered /\ Limits
  BY DEF MembershipInv
<1>2. QuietTargets => /\ KickedMustAsk /\ RecordsGranted /\ ApprovalsGranted /\ CallsGranted
                      /\ Recorded /\ DemotedRecorded /\ CallsDemoted /\ DemotedStaysDemoted
  BY DEF MembershipInv
<1>3. \A room \in Room : DOMAIN participants[room] \subseteq Conn
  BY <1>1, RoleTypes DEF Types
<1>4. \A conn \in Conn : Home[conn] \in Room /\ MemberOf[conn] \in Member
  BY MembershipAssumption
<1>5. call[c].role \in Roles /\ "remove" \in Stages
  BY <1>1 DEF Types, CallTypes, Calls, Stages
<1>6. PICK record \in Records :
       /\ Writes(Home[c], MemberOf[c], record) /\ ~record.ask /\ record.admin = call[c].role.admin
       /\ MemberOf[c] \in DOMAIN members[Home[c]] /\ members[Home[c]][MemberOf[c]].revoked
            => record.revoked
  BY <1>1, <1>4, <1>5, RememberedTypes DEF SaveLeaving, Types
<1>7. Goes(c, "remove", call[c].role)
  BY <1>1, <1>5, CallMoves DEF SaveLeaving, Types
<1>8. call[c].at = "saveLeaving" /\ Stage(c) = "saveLeaving"
  BY DEF SaveLeaving, Stage, StageOf
<1>9. UNCHANGED <<link, connections, crashed, participants, requests, granted, demoted>>
  BY DEF SaveLeaving
<1>10. Types'
  BY <1>1, <1>6, <1>7, <1>9 DEF Types, PeopleTypes, RequestTypes, HistoryTypes, Goes, Writes
<1>11. HomeOnly'
  BY <1>1, <1>9 DEF HomeOnly
<1>12. Linked'
  BY <1>1, <1>7, <1>8, <1>9 DEF Linked, Goes
<1>13. EntersRegistered'
  BY <1>1, <1>7, <1>9 DEF EntersRegistered, Stage, Goes
<1>14. Limits'
  BY <1>1, LimitsShrink, <1>9
<1>15. ASSUME QuietTargets PROVE KickedMustAsk'
  BY <1>2, <1>15, <1>9 DEF KickedMustAsk
<1>16. ASSUME QuietTargets PROVE RecordsGranted'
  BY <1>2, <1>16, <1>6, <1>8, <1>9 DEF RecordsGranted, Writes, CallsGranted
<1>17. ASSUME QuietTargets PROVE ApprovalsGranted'
  BY <1>2, <1>17, <1>9 DEF ApprovalsGranted
<1>18. ASSUME QuietTargets PROVE CallsGranted'
  BY <1>2, <1>18, <1>7, <1>9 DEF CallsGranted, Stage, Goes
<1>19. ASSUME QuietTargets PROVE Recorded'
  BY <1>3, <1>2, <1>19, <1>6, <1>7, <1>8, <1>9 DEF Recorded, Stage, Goes, Writes
<1>20. ASSUME QuietTargets PROVE DemotedRecorded'
  BY <1>2, <1>20, <1>6, <1>8, <1>9 DEF DemotedRecorded, Stripped, Writes, CallsDemoted
<1>21. ASSUME QuietTargets PROVE CallsDemoted'
  BY <1>2, <1>21, <1>7, <1>9 DEF CallsDemoted, Stripped, Stage, Goes
<1>22. ASSUME QuietTargets PROVE DemotedStaysDemoted'
  BY <1>2, <1>22, <1>9 DEF DemotedStaysDemoted
<1> QED BY <1>10, <1>11, <1>12, <1>13, <1>14, <1>15, <1>16, <1>17, <1>18, <1>19, <1>20, <1>21, <1>22
  DEF MembershipInv

LEMMA KeptByClearRequest ==
  ASSUME MembershipInv, NEW c \in Conn, ClearRequest(c)
  PROVE  MembershipInv'
<1>1. Types /\ HomeOnly /\ Linked /\ EntersRegistered /\ Limits
  BY DEF MembershipInv
<1>2. QuietTargets => /\ KickedMustAsk /\ RecordsGranted /\ ApprovalsGranted /\ CallsGranted
                      /\ Recorded /\ DemotedRecorded /\ CallsDemoted /\ DemotedStaysDemoted
  BY DEF MembershipInv
<1>3. \A room \in Room : DOMAIN participants[room] \subseteq Conn
  BY <1>1, RoleTypes DEF Types
<1>4. \A conn \in Conn : Home[conn] \in Room /\ MemberOf[conn] \in Member
  BY MembershipAssumption
<1>5. Goes(c, "idle", Idle.role)
  BY <1>1, IdleTypes, CallGoes DEF ClearRequest, Types
<1>6. ApprovesNone
  BY <1>1, RequestCleared DEF ClearRequest, Types
<1>7. call[c].at = "clear" /\ Stage(c) = "clear"
  BY DEF ClearRequest, Stage, StageOf
<1>8. UNCHANGED <<link, connections, crashed, participants, members, granted, demoted>>
  BY DEF ClearRequest
<1>9. Types'
  BY <1>1, <1>5, <1>6, <1>8 DEF Types, PeopleTypes, MemberTypes, HistoryTypes, Goes, ApprovesNone
<1>10. HomeOnly'
  BY <1>1, <1>8 DEF HomeOnly
<1>11. Linked'
  BY <1>1, <1>5, <1>7, <1>8 DEF Linked, Goes
<1>12. EntersRegistered'
  BY <1>1, <1>5, <1>8 DEF EntersRegistered, Stage, Goes
<1>13. Limits'
  BY <1>1, LimitsShrink, <1>8
<1>14. ASSUME QuietTargets PROVE KickedMustAsk'
  BY <1>2, <1>14, <1>8 DEF KickedMustAsk
<1>15. ASSUME QuietTargets PROVE RecordsGranted'
  BY <1>2, <1>15, <1>8 DEF RecordsGranted
<1>16. ASSUME QuietTargets PROVE ApprovalsGranted'
  BY <1>2, <1>16, <1>6, <1>8 DEF ApprovalsGranted, ApprovesNone
<1>17. ASSUME QuietTargets PROVE CallsGranted'
  BY <1>2, <1>17, <1>5, <1>8 DEF CallsGranted, Stage, Goes
<1>18. ASSUME QuietTargets PROVE Recorded'
  BY <1>3, <1>2, <1>18, <1>5, <1>7, <1>8 DEF Recorded, Stage, Goes
<1>19. ASSUME QuietTargets PROVE DemotedRecorded'
  BY <1>2, <1>19, <1>8 DEF DemotedRecorded, Stripped
<1>20. ASSUME QuietTargets PROVE CallsDemoted'
  BY <1>2, <1>20, <1>5, <1>8 DEF CallsDemoted, Stripped, Stage, Goes
<1>21. ASSUME QuietTargets PROVE DemotedStaysDemoted'
  BY <1>2, <1>21, <1>8 DEF DemotedStaysDemoted
<1> QED BY <1>9, <1>10, <1>11, <1>12, <1>13, <1>14, <1>15, <1>16, <1>17, <1>18, <1>19, <1>20, <1>21 DEF
  MembershipInv

LEMMA KeptByCancelJoinRequest ==
  ASSUME MembershipInv, NEW c \in Conn, CancelJoinRequest(c)
  PROVE  MembershipInv'
<1>1. Types /\ HomeOnly /\ Linked /\ EntersRegistered /\ Limits
  BY DEF MembershipInv
<1>2. QuietTargets => /\ KickedMustAsk /\ RecordsGranted /\ ApprovalsGranted /\ CallsGranted
                      /\ Recorded /\ DemotedRecorded /\ CallsDemoted /\ DemotedStaysDemoted
  BY DEF MembershipInv
<1>3. \A room \in Room : DOMAIN participants[room] \subseteq Conn
  BY <1>1, RoleTypes DEF Types
<1>4. \A conn \in Conn : Home[conn] \in Room /\ MemberOf[conn] \in Member
  BY MembershipAssumption
<1>5. ApprovesNone
  BY <1>1, RequestCleared DEF CancelJoinRequest, Types
<1>6. UNCHANGED <<link, call, connections, crashed, participants, members, granted, demoted>>
  BY DEF CancelJoinRequest
<1>7. Types'
  BY <1>1, <1>5, <1>6 DEF Types, CallTypes, PeopleTypes, MemberTypes, HistoryTypes, ApprovesNone
<1>8. HomeOnly'
  BY <1>1, <1>6 DEF HomeOnly
<1>9. Linked'
  BY <1>1, <1>6 DEF Linked
<1>10. EntersRegistered'
  BY <1>1, <1>6 DEF EntersRegistered, Stage
<1>11. Limits'
  BY <1>1, LimitsShrink, <1>6
<1>12. ASSUME QuietTargets PROVE KickedMustAsk'
  BY <1>2, <1>12, <1>6 DEF KickedMustAsk
<1>13. ASSUME QuietTargets PROVE RecordsGranted'
  BY <1>2, <1>13, <1>6 DEF RecordsGranted
<1>14. ASSUME QuietTargets PROVE ApprovalsGranted'
  BY <1>2, <1>14, <1>5, <1>6 DEF ApprovalsGranted, ApprovesNone
<1>15. ASSUME QuietTargets PROVE CallsGranted'
  BY <1>2, <1>15, <1>6 DEF CallsGranted, Stage
<1>16. ASSUME QuietTargets PROVE Recorded'
  BY <1>2, <1>16, <1>6 DEF Recorded, Stage
<1>17. ASSUME QuietTargets PROVE DemotedRecorded'
  BY <1>2, <1>17, <1>6 DEF DemotedRecorded, Stripped
<1>18. ASSUME QuietTargets PROVE CallsDemoted'
  BY <1>2, <1>18, <1>6 DEF CallsDemoted, Stripped, Stage
<1>19. ASSUME QuietTargets PROVE DemotedStaysDemoted'
  BY <1>2, <1>19, <1>6 DEF DemotedStaysDemoted
<1> QED BY <1>7, <1>8, <1>9, <1>10, <1>11, <1>12, <1>13, <1>14, <1>15, <1>16, <1>17, <1>18, <1>19 DEF
  MembershipInv

LEMMA KeptByAskAdmins ==
  ASSUME MembershipInv, NEW c \in Conn, AskAdmins(c)
  PROVE  MembershipInv'
<1>1. Types /\ HomeOnly /\ Linked /\ EntersRegistered /\ Limits
  BY DEF MembershipInv
<1>2. QuietTargets => /\ KickedMustAsk /\ RecordsGranted /\ ApprovalsGranted /\ CallsGranted
                      /\ Recorded /\ DemotedRecorded /\ CallsDemoted /\ DemotedStaysDemoted
  BY DEF MembershipInv
<1>3. \A room \in Room : DOMAIN participants[room] \subseteq Conn
  BY <1>1, RoleTypes DEF Types
<1>4. \A conn \in Conn : Home[conn] \in Room /\ MemberOf[conn] \in Member
  BY MembershipAssumption
<1>5. Goes(c, "idle", Idle.role)
  BY <1>1, IdleTypes, CallGoes DEF AskAdmins, Types
<1>6. [conn |-> c, approved |-> FALSE] \in Requests
  BY DEF Requests
<1>7. \/ requests' = requests
      \/ requests' = [requests EXCEPT ![Home[c]] = Set(requests[Home[c]], MemberOf[c], [conn |-> c, approved |-> FALSE])]
  BY DEF AskAdmins, Requested
<1>8. requests' = requests => ApprovesNone
  BY <1>1 DEF ApprovesNone, RequestTypes, Types
<1>9. ApprovesNone
  BY <1>1, <1>4, <1>6, <1>7, <1>8, RequestWritten DEF Types
<1>10. call[c].at = "ask" /\ Stage(c) = "ask"
  BY DEF AskAdmins, Stage, StageOf
<1>11. UNCHANGED <<link, connections, crashed, participants, members, granted, demoted>>
  BY DEF AskAdmins
<1>12. Types'
  BY <1>1, <1>5, <1>9, <1>11 DEF Types, PeopleTypes, MemberTypes, HistoryTypes, Goes, ApprovesNone
<1>13. HomeOnly'
  BY <1>1, <1>11 DEF HomeOnly
<1>14. Linked'
  BY <1>1, <1>5, <1>10, <1>11 DEF Linked, Goes
<1>15. EntersRegistered'
  BY <1>1, <1>5, <1>11 DEF EntersRegistered, Stage, Goes
<1>16. Limits'
  BY <1>1, LimitsShrink, <1>11
<1>17. ASSUME QuietTargets PROVE KickedMustAsk'
  BY <1>2, <1>17, <1>11 DEF KickedMustAsk
<1>18. ASSUME QuietTargets PROVE RecordsGranted'
  BY <1>2, <1>18, <1>11 DEF RecordsGranted
<1>19. ASSUME QuietTargets PROVE ApprovalsGranted'
  BY <1>2, <1>19, <1>9, <1>11 DEF ApprovalsGranted, ApprovesNone
<1>20. ASSUME QuietTargets PROVE CallsGranted'
  BY <1>2, <1>20, <1>5, <1>11 DEF CallsGranted, Stage, Goes
<1>21. ASSUME QuietTargets PROVE Recorded'
  BY <1>3, <1>2, <1>21, <1>5, <1>10, <1>11 DEF Recorded, Stage, Goes
<1>22. ASSUME QuietTargets PROVE DemotedRecorded'
  BY <1>2, <1>22, <1>11 DEF DemotedRecorded, Stripped
<1>23. ASSUME QuietTargets PROVE CallsDemoted'
  BY <1>2, <1>23, <1>5, <1>11 DEF CallsDemoted, Stripped, Stage, Goes
<1>24. ASSUME QuietTargets PROVE DemotedStaysDemoted'
  BY <1>2, <1>24, <1>11 DEF DemotedStaysDemoted
<1> QED BY <1>12, <1>13, <1>14, <1>15, <1>16, <1>17, <1>18, <1>19, <1>20, <1>21, <1>22, <1>23, <1>24
  DEF MembershipInv

LEMMA KeptByBeginLeave ==
  ASSUME MembershipInv, NEW c \in Conn, BeginLeave(c)
  PROVE  MembershipInv'
<1>1. Types /\ HomeOnly /\ Linked /\ EntersRegistered /\ Limits
  BY DEF MembershipInv
<1>2. QuietTargets => /\ KickedMustAsk /\ RecordsGranted /\ ApprovalsGranted /\ CallsGranted
                      /\ Recorded /\ DemotedRecorded /\ CallsDemoted /\ DemotedStaysDemoted
  BY DEF MembershipInv
<1>3. \A room \in Room : DOMAIN participants[room] \subseteq Conn
  BY <1>1, RoleTypes DEF Types
<1>4. \A conn \in Conn : Home[conn] \in Room /\ MemberOf[conn] \in Member
  BY MembershipAssumption
<1>5. c \in DOMAIN participants[Home[c]] /\ participants[Home[c]][c] \in Roles
  BY <1>1, <1>4, RoleTypes DEF BeginLeave, Has, Types
<1> DEFINE state == [Idle EXCEPT !.at = "saveLeaving", !.role = participants[Home[c]][c]]
<1>6. state \in Calls /\ StageOf(state) = "saveLeaving" /\ state.role = participants[Home[c]][c]
  BY <1>5 DEF Calls, Idle, Stages, StageOf
<1>7. call' = [call EXCEPT ![c] = state]
  BY DEF BeginLeave
<1> HIDE DEF state
<1>8. Goes(c, "saveLeaving", participants[Home[c]][c])
  BY <1>1, <1>7, <1>6, CallGoes DEF Types
<1>9. UNCHANGED <<link, connections, crashed, participants, members, requests, granted, demoted>> /\ link[c] = "open" /\ Stage(c) = "idle"
  BY DEF BeginLeave, stored, Stage, StageOf
<1>10. Types'
  BY <1>1, <1>8, <1>9 DEF Types, PeopleTypes, MemberTypes, RequestTypes, HistoryTypes, Goes
<1>11. HomeOnly'
  BY <1>1, <1>9 DEF HomeOnly
<1>12. Linked'
  BY <1>1, <1>8, <1>9 DEF Linked, Goes
<1>13. EntersRegistered'
  BY <1>1, <1>8, <1>9 DEF EntersRegistered, Stage, Goes
<1>14. Limits'
  BY <1>1, LimitsShrink, <1>9
<1>15. ASSUME QuietTargets PROVE KickedMustAsk'
  BY <1>2, <1>15, <1>9 DEF KickedMustAsk
<1>16. ASSUME QuietTargets PROVE RecordsGranted'
  BY <1>2, <1>16, <1>9 DEF RecordsGranted
<1>17. ASSUME QuietTargets PROVE ApprovalsGranted'
  BY <1>2, <1>17, <1>9 DEF ApprovalsGranted
<1>18. ASSUME QuietTargets PROVE CallsGranted'
  BY <1>4, <1>2, <1>18, <1>5, <1>8, <1>9 DEF CallsGranted, Stage, Goes, KickedMustAsk
<1>19. ASSUME QuietTargets PROVE Recorded'
  BY <1>3, <1>2, <1>19, <1>8, <1>9 DEF Recorded, Stage, Goes
<1>20. ASSUME QuietTargets PROVE DemotedRecorded'
  BY <1>2, <1>20, <1>9 DEF DemotedRecorded, Stripped
<1>21. ASSUME QuietTargets PROVE CallsDemoted'
  BY <1>4, <1>2, <1>21, <1>5, <1>8, <1>9 DEF CallsDemoted, Stripped, Stage, Goes, DemotedStaysDemoted
<1>22. ASSUME QuietTargets PROVE DemotedStaysDemoted'
  BY <1>2, <1>22, <1>9 DEF DemotedStaysDemoted
<1> QED BY <1>10, <1>11, <1>12, <1>13, <1>14, <1>15, <1>16, <1>17, <1>18, <1>19, <1>20, <1>21, <1>22
  DEF MembershipInv

LEMMA KeptByDisconnect ==
  ASSUME MembershipInv, NEW c \in Conn, Disconnect(c)
  PROVE  MembershipInv'
<1>1. Types /\ HomeOnly /\ Linked /\ EntersRegistered /\ Limits
  BY DEF MembershipInv
<1>2. QuietTargets => /\ KickedMustAsk /\ RecordsGranted /\ ApprovalsGranted /\ CallsGranted
                      /\ Recorded /\ DemotedRecorded /\ CallsDemoted /\ DemotedStaysDemoted
  BY DEF MembershipInv
<1>3. \A room \in Room : DOMAIN participants[room] \subseteq Conn
  BY <1>1, RoleTypes DEF Types
<1>4. \A conn \in Conn : Home[conn] \in Room /\ MemberOf[conn] \in Member
  BY MembershipAssumption
<1>5. [Idle EXCEPT !.at = "remove"] \in Calls /\ StageOf([Idle EXCEPT !.at = "remove"]) = "remove" /\ [Idle EXCEPT !.at = "remove"].role = Idle.role
  BY IdleTypes DEF Calls, Stages, StageOf
<1>6. Goes(c, "remove", Idle.role)
  BY <1>1, <1>5, CallGoes DEF Disconnect, Types
<1>7. UNCHANGED <<connections, crashed, participants, members, requests, granted, demoted>> /\ link[c] \in {"open", "lost"} /\ Stage(c) = "idle"
  BY DEF Disconnect, stored, Stage, StageOf
<1>8. link' = [link EXCEPT ![c] = "closing"]
  BY DEF Disconnect
<1>9. Types'
  BY <1>1, <1>6, <1>7, <1>8 DEF Types, PeopleTypes, MemberTypes, RequestTypes, HistoryTypes, Goes,
    Links
<1>10. HomeOnly'
  BY <1>1, <1>7 DEF HomeOnly
<1>11. Linked'
  BY <1>1, <1>6, <1>7, <1>8 DEF Linked, Goes
<1>12. EntersRegistered'
  BY <1>1, <1>6, <1>7 DEF EntersRegistered, Stage, Goes
<1>13. Limits'
  BY <1>1, LimitsShrink, <1>7
<1>14. ASSUME QuietTargets PROVE KickedMustAsk'
  BY <1>2, <1>14, <1>7 DEF KickedMustAsk
<1>15. ASSUME QuietTargets PROVE RecordsGranted'
  BY <1>2, <1>15, <1>7 DEF RecordsGranted
<1>16. ASSUME QuietTargets PROVE ApprovalsGranted'
  BY <1>2, <1>16, <1>7 DEF ApprovalsGranted
<1>17. ASSUME QuietTargets PROVE CallsGranted'
  BY <1>2, <1>17, <1>6, <1>7 DEF CallsGranted, Stage, Goes
<1>18. ASSUME QuietTargets PROVE Recorded'
  BY <1>3, <1>2, <1>18, <1>6, <1>7, <1>8 DEF Recorded, Stage, Goes
<1>19. ASSUME QuietTargets PROVE DemotedRecorded'
  BY <1>2, <1>19, <1>7 DEF DemotedRecorded, Stripped
<1>20. ASSUME QuietTargets PROVE CallsDemoted'
  BY <1>2, <1>20, <1>6, <1>7 DEF CallsDemoted, Stripped, Stage, Goes
<1>21. ASSUME QuietTargets PROVE DemotedStaysDemoted'
  BY <1>2, <1>21, <1>7 DEF DemotedStaysDemoted
<1> QED BY <1>9, <1>10, <1>11, <1>12, <1>13, <1>14, <1>15, <1>16, <1>17, <1>18, <1>19, <1>20, <1>21 DEF
  MembershipInv

LEMMA KeptByRemove ==
  ASSUME MembershipInv, NEW c \in Conn, Remove(c)
  PROVE  MembershipInv'
<1>1. Types /\ HomeOnly /\ Linked /\ EntersRegistered /\ Limits
  BY DEF MembershipInv
<1>2. QuietTargets => /\ KickedMustAsk /\ RecordsGranted /\ ApprovalsGranted /\ CallsGranted
                      /\ Recorded /\ DemotedRecorded /\ CallsDemoted /\ DemotedStaysDemoted
  BY DEF MembershipInv
<1>3. \A room \in Room : DOMAIN participants[room] \subseteq Conn
  BY <1>1, RoleTypes DEF Types
<1>4. \A conn \in Conn : Home[conn] \in Room /\ MemberOf[conn] \in Member
  BY MembershipAssumption
<1> DEFINE rest == Without(participants[Home[c]], Dead(Home[c]) \cup {c})
           leaves == Has(participants[Home[c]], c) \/ link[c] # "closing"
<1>5. DOMAIN rest \subseteq Conn
  BY <1>3, <1>4 DEF Without, Restrict
<1>6. PICK others \in SUBSET Conn, nobody \in BOOLEAN :
       call' = [call EXCEPT ![c] = Looked([Idle EXCEPT !.others = others], nobody, "promote")]
  BY <1>5 DEF Remove
<1> DEFINE state == [Idle EXCEPT !.others = others]
<1>7. state \in Calls /\ state.role = Idle.role
  BY IdleTypes DEF Calls
<1>8. call' = [call EXCEPT ![c] = Looked(state, nobody, "promote")]
  BY <1>6
<1> HIDE DEF state
<1>9. "promote" \in Stages
  BY DEF Stages
<1>10. /\ Looked(state, nobody, "promote") \in Calls
       /\ StageOf(Looked(state, nobody, "promote")) = "promote"
       /\ Looked(state, nobody, "promote").role = Idle.role
  BY <1>7, <1>9, LookedTypes
<1>11. Goes(c, "promote", Idle.role)
  BY <1>1, <1>8, <1>10, CallGoes DEF Types
<1>12. /\ call[c].at = "remove" /\ Stage(c) = "remove"
       /\ UNCHANGED <<link, crashed, members, requests, granted, demoted>>
  BY DEF Remove, Stage, StageOf
<1>13. CASE leaves
  <2>1. Goes(c, "promote", Idle.role)
    BY <1>11
  <2>2. call[c].at = "remove" /\ Stage(c) = "remove" /\ UNCHANGED <<link, crashed, members, requests, granted, demoted>>
    BY <1>12
  <2>3. Shrinks /\ connections' = connections \ (Dead(Home[c]) \cup {c})
    BY <1>1, <1>4, <1>13, RemovedShrinks DEF Remove, Types
  <2>4. Types'
    BY <1>1, <2>1, <2>2, <2>3 DEF Types, MemberTypes, RequestTypes, HistoryTypes, Goes, Shrinks
  <2>5. HomeOnly'
    BY <1>1, <2>3 DEF HomeOnly, Shrinks
  <2>6. Linked'
    BY <1>1, <2>1, <2>2, <2>3 DEF Linked, Goes, Shrinks
  <2>7. EntersRegistered'
    BY <1>1, <1>4, <2>1, <2>3 DEF EntersRegistered, Stage, Goes, Shrinks, Dead
  <2>8. Limits'
    BY <1>1, LimitsShrink, <2>2, <2>3 DEF Shrinks
  <2>9. ASSUME QuietTargets PROVE KickedMustAsk'
    BY <1>2, <2>9, <2>2, <2>3 DEF KickedMustAsk, Shrinks
  <2>10. ASSUME QuietTargets PROVE RecordsGranted'
    BY <1>2, <2>10, <2>2 DEF RecordsGranted
  <2>11. ASSUME QuietTargets PROVE ApprovalsGranted'
    BY <1>2, <2>11, <2>2 DEF ApprovalsGranted
  <2>12. ASSUME QuietTargets PROVE CallsGranted'
    BY <1>2, <2>12, <2>1, <2>2 DEF CallsGranted, Stage, Goes
  <2>13. ASSUME QuietTargets PROVE Recorded'
    BY <1>3, <1>2, <2>13, <2>1, <2>2, <2>3 DEF Recorded, Stage, Goes, Shrinks
  <2>14. ASSUME QuietTargets PROVE DemotedRecorded'
    BY <1>2, <2>14, <2>2 DEF DemotedRecorded, Stripped
  <2>15. ASSUME QuietTargets PROVE CallsDemoted'
    BY <1>2, <2>15, <2>1, <2>2 DEF CallsDemoted, Stripped, Stage, Goes
  <2>16. ASSUME QuietTargets PROVE DemotedStaysDemoted'
    BY <1>2, <2>16, <2>2, <2>3 DEF DemotedStaysDemoted, Shrinks
  <2> QED BY <2>4, <2>5, <2>6, <2>7, <2>8, <2>9, <2>10, <2>11, <2>12, <2>13, <2>14, <2>15, <2>16 DEF
    MembershipInv
<1>14. CASE ~leaves
  <2>1. Goes(c, "promote", Idle.role)
    BY <1>11
  <2>2. call[c].at = "remove" /\ Stage(c) = "remove" /\ UNCHANGED <<link, crashed, members, requests, granted, demoted>>
    BY <1>12
  <2>3. UNCHANGED <<participants, connections>>
    BY <1>14 DEF Remove
  <2>4. Types'
    BY <1>1, <2>1, <2>2, <2>3 DEF Types, PeopleTypes, MemberTypes, RequestTypes, HistoryTypes, Goes
  <2>5. HomeOnly'
    BY <1>1, <2>3 DEF HomeOnly
  <2>6. Linked'
    BY <1>1, <2>1, <2>2, <2>3 DEF Linked, Goes
  <2>7. EntersRegistered'
    BY <1>1, <2>1, <2>3 DEF EntersRegistered, Stage, Goes
  <2>8. Limits'
    BY <1>1, LimitsShrink, <2>2, <2>3
  <2>9. ASSUME QuietTargets PROVE KickedMustAsk'
    BY <1>2, <2>9, <2>2, <2>3 DEF KickedMustAsk
  <2>10. ASSUME QuietTargets PROVE RecordsGranted'
    BY <1>2, <2>10, <2>2 DEF RecordsGranted
  <2>11. ASSUME QuietTargets PROVE ApprovalsGranted'
    BY <1>2, <2>11, <2>2 DEF ApprovalsGranted
  <2>12. ASSUME QuietTargets PROVE CallsGranted'
    BY <1>2, <2>12, <2>1, <2>2 DEF CallsGranted, Stage, Goes
  <2>13. ASSUME QuietTargets PROVE Recorded'
    BY <1>3, <1>2, <2>13, <2>1, <2>2, <2>3 DEF Recorded, Stage, Goes
  <2>14. ASSUME QuietTargets PROVE DemotedRecorded'
    BY <1>2, <2>14, <2>2 DEF DemotedRecorded, Stripped
  <2>15. ASSUME QuietTargets PROVE CallsDemoted'
    BY <1>2, <2>15, <2>1, <2>2 DEF CallsDemoted, Stripped, Stage, Goes
  <2>16. ASSUME QuietTargets PROVE DemotedStaysDemoted'
    BY <1>2, <2>16, <2>2, <2>3 DEF DemotedStaysDemoted
  <2> QED BY <2>4, <2>5, <2>6, <2>7, <2>8, <2>9, <2>10, <2>11, <2>12, <2>13, <2>14, <2>15, <2>16 DEF
    MembershipInv
<1> QED BY <1>13, <1>14

LEMMA KeptByReject ==
  ASSUME MembershipInv, NEW a \in Conn, NEW m \in Member, Reject(a, m)
  PROVE  MembershipInv'
<1>1. Types /\ HomeOnly /\ Linked /\ EntersRegistered /\ Limits
  BY DEF MembershipInv
<1>2. QuietTargets => /\ KickedMustAsk /\ RecordsGranted /\ ApprovalsGranted /\ CallsGranted
                      /\ Recorded /\ DemotedRecorded /\ CallsDemoted /\ DemotedStaysDemoted
  BY DEF MembershipInv
<1>3. \A room \in Room : DOMAIN participants[room] \subseteq Conn
  BY <1>1, RoleTypes DEF Types
<1>4. \A conn \in Conn : Home[conn] \in Room /\ MemberOf[conn] \in Member
  BY MembershipAssumption
<1>5. ApprovesNone
  BY <1>1, <1>4, RequestsShrink DEF Reject, Types
<1>6. UNCHANGED <<link, call, connections, crashed, participants, members, granted, demoted>>
  BY DEF Reject
<1>7. Types'
  BY <1>1, <1>5, <1>6 DEF Types, CallTypes, PeopleTypes, MemberTypes, HistoryTypes, ApprovesNone
<1>8. HomeOnly'
  BY <1>1, <1>6 DEF HomeOnly
<1>9. Linked'
  BY <1>1, <1>6 DEF Linked
<1>10. EntersRegistered'
  BY <1>1, <1>6 DEF EntersRegistered, Stage
<1>11. Limits'
  BY <1>1, LimitsShrink, <1>6
<1>12. ASSUME QuietTargets PROVE KickedMustAsk'
  BY <1>2, <1>12, <1>6 DEF KickedMustAsk
<1>13. ASSUME QuietTargets PROVE RecordsGranted'
  BY <1>2, <1>13, <1>6 DEF RecordsGranted
<1>14. ASSUME QuietTargets PROVE ApprovalsGranted'
  BY <1>2, <1>14, <1>5, <1>6 DEF ApprovalsGranted, ApprovesNone
<1>15. ASSUME QuietTargets PROVE CallsGranted'
  BY <1>2, <1>15, <1>6 DEF CallsGranted, Stage
<1>16. ASSUME QuietTargets PROVE Recorded'
  BY <1>2, <1>16, <1>6 DEF Recorded, Stage
<1>17. ASSUME QuietTargets PROVE DemotedRecorded'
  BY <1>2, <1>17, <1>6 DEF DemotedRecorded, Stripped
<1>18. ASSUME QuietTargets PROVE CallsDemoted'
  BY <1>2, <1>18, <1>6 DEF CallsDemoted, Stripped, Stage
<1>19. ASSUME QuietTargets PROVE DemotedStaysDemoted'
  BY <1>2, <1>19, <1>6 DEF DemotedStaysDemoted
<1> QED BY <1>7, <1>8, <1>9, <1>10, <1>11, <1>12, <1>13, <1>14, <1>15, <1>16, <1>17, <1>18, <1>19 DEF
  MembershipInv

LEMMA KeptByApprove ==
  ASSUME MembershipInv, NEW a \in Conn, NEW m \in Member, Approve(a, m)
  PROVE  MembershipInv'
<1>1. Types /\ HomeOnly /\ Linked /\ EntersRegistered /\ Limits
  BY DEF MembershipInv
<1>2. QuietTargets => /\ KickedMustAsk /\ RecordsGranted /\ ApprovalsGranted /\ CallsGranted
                      /\ Recorded /\ DemotedRecorded /\ CallsDemoted /\ DemotedStaysDemoted
  BY DEF MembershipInv
<1>3. \A room \in Room : DOMAIN participants[room] \subseteq Conn
  BY <1>1, RoleTypes DEF Types
<1>4. \A conn \in Conn : Home[conn] \in Room /\ MemberOf[conn] \in Member
  BY MembershipAssumption
<1>5. m \in DOMAIN requests[Home[a]] /\ requests[Home[a]] \in Hash(Member, Requests)
  BY <1>1, <1>4 DEF Approve, Has, Types, RequestTypes
<1>6. requests[Home[a]][m] \in Requests
  BY <1>5, HashParts
<1> DEFINE request == [requests[Home[a]][m] EXCEPT !.approved = TRUE]
<1>7. request \in Requests
  BY <1>6 DEF Requests
<1>8. requests' = [requests EXCEPT ![Home[a]][m] = request]
  BY DEF Approve
<1> HIDE DEF request
<1>9. Answers(Home[a], m, request)
  BY <1>1, <1>4, <1>5, <1>7, <1>8, RequestChanged DEF Types
<1>10. /\ RequestTypes'
       /\ \A s \in Room : \A n \in DOMAIN requests'[s] :
            n \in DOMAIN requests[s] /\ (s # Home[a] \/ n # m => requests'[s][n] = requests[s][n])
  BY <1>9 DEF Answers
<1>11. /\ granted' \in [Room -> SUBSET Member]
       /\ \A s \in Room : granted'[s] = IF s = Home[a] THEN granted[s] \cup {m} ELSE granted[s]
  BY <1>1 DEF Approve, Types, HistoryTypes
<1>12. UNCHANGED <<link, call, connections, crashed, participants, members, demoted>>
  BY DEF Approve
<1>13. Types'
  BY <1>1, <1>10, <1>11, <1>12 DEF Types, CallTypes, PeopleTypes, MemberTypes, HistoryTypes
<1>14. HomeOnly'
  BY <1>1, <1>12 DEF HomeOnly
<1>15. Linked'
  BY <1>1, <1>12 DEF Linked
<1>16. EntersRegistered'
  BY <1>1, <1>12 DEF EntersRegistered, Stage
<1>17. Limits'
  BY <1>1, LimitsShrink, <1>12
<1>18. ASSUME QuietTargets PROVE KickedMustAsk'
  BY <1>2, <1>18, <1>11, <1>12 DEF KickedMustAsk
<1>19. ASSUME QuietTargets PROVE RecordsGranted'
  BY <1>2, <1>19, <1>11, <1>12 DEF RecordsGranted
<1>20. ASSUME QuietTargets PROVE ApprovalsGranted'
  BY <1>2, <1>20, <1>10, <1>11 DEF ApprovalsGranted
<1>21. ASSUME QuietTargets PROVE CallsGranted'
  BY <1>4, <1>2, <1>21, <1>11, <1>12 DEF CallsGranted, Stage
<1>22. ASSUME QuietTargets PROVE Recorded'
  BY <1>2, <1>22, <1>12 DEF Recorded, Stage
<1>23. ASSUME QuietTargets PROVE DemotedRecorded'
  BY <1>2, <1>23, <1>12 DEF DemotedRecorded, Stripped
<1>24. ASSUME QuietTargets PROVE CallsDemoted'
  BY <1>2, <1>24, <1>12 DEF CallsDemoted, Stripped, Stage
<1>25. ASSUME QuietTargets PROVE DemotedStaysDemoted'
  BY <1>2, <1>25, <1>12 DEF DemotedStaysDemoted
<1> QED BY <1>13, <1>14, <1>15, <1>16, <1>17, <1>18, <1>19, <1>20, <1>21, <1>22, <1>23, <1>24, <1>25
  DEF MembershipInv

LEMMA KeptByToggleLock ==
  ASSUME MembershipInv, NEW a \in Conn, NEW t \in Conn, ToggleLock(a, t)
  PROVE  MembershipInv'
<1>1. Types /\ HomeOnly /\ Linked /\ EntersRegistered /\ Limits
  BY DEF MembershipInv
<1>2. QuietTargets => /\ KickedMustAsk /\ RecordsGranted /\ ApprovalsGranted /\ CallsGranted
                      /\ Recorded /\ DemotedRecorded /\ CallsDemoted /\ DemotedStaysDemoted
  BY DEF MembershipInv
<1>3. \A room \in Room : DOMAIN participants[room] \subseteq Conn
  BY <1>1, RoleTypes DEF Types
<1>4. \A conn \in Conn : Home[conn] \in Room /\ MemberOf[conn] \in Member
  BY MembershipAssumption
<1>5. t \in DOMAIN participants[Home[a]] /\ participants[Home[a]][t] \in Roles
  BY <1>1, <1>4, RoleTypes DEF ToggleLock, Has, Types
<1> DEFINE role == [participants[Home[a]][t] EXCEPT !.locked = ~@]
<1>6. role \in Roles /\ role.admin = participants[Home[a]][t].admin
  BY <1>5 DEF Roles
<1>7. participants' = [participants EXCEPT ![Home[a]][t] = role]
  BY DEF ToggleLock
<1> HIDE DEF role
<1>8. Seats(Home[a], t, role) /\ t \in DOMAIN participants[Home[a]] /\ role.admin = participants[Home[a]][t].admin
  BY <1>1, <1>4, <1>5, <1>6, <1>7, SeatsExcept DEF Types
<1>9. PICK flag \in BOOLEAN :
        call' = [call EXCEPT ![a] = [Idle EXCEPT !.at = "saveLock", !.others = {t}, !.flag = flag]]
  BY DEF ToggleLock
<1> DEFINE state == [Idle EXCEPT !.at = "saveLock", !.others = {t}, !.flag = flag]
<1>10. state \in Calls /\ StageOf(state) = "saveLock" /\ state.role = Idle.role
  BY IdleTypes DEF Calls, Stages, StageOf
<1>11. call' = [call EXCEPT ![a] = state]
  BY <1>9
<1> HIDE DEF state
<1>12. Goes(a, "saveLock", Idle.role)
  BY <1>1, <1>11, <1>10, CallGoes DEF Types
<1>13. UNCHANGED <<link, connections, crashed, members, requests, granted, demoted>> /\ link[a] = "open" /\ Stage(a) = "idle"
  BY DEF ToggleLock, Acts, Stage, StageOf
<1>14. \A s \in Room : DOMAIN participants'[s] = DOMAIN participants[s]
  BY <1>8 DEF Seats
<1>15. Types'
  BY <1>1, <1>8, <1>12, <1>13 DEF Types, MemberTypes, RequestTypes, HistoryTypes, Goes, Seats
<1>16. HomeOnly'
  BY <1>1, <1>14 DEF HomeOnly
<1>17. Linked'
  BY <1>1, <1>12, <1>13, <1>14 DEF Linked, Goes
<1>18. EntersRegistered'
  BY <1>1, <1>4, <1>12, <1>13, <1>14 DEF EntersRegistered, Stage, Goes
<1>19. Limits'
  BY <1>1, LimitsShrink, <1>13, <1>14
<1>20. ASSUME QuietTargets PROVE KickedMustAsk'
  BY <1>2, <1>20, <1>13, <1>14 DEF KickedMustAsk
<1>21. ASSUME QuietTargets PROVE RecordsGranted'
  BY <1>2, <1>21, <1>13 DEF RecordsGranted
<1>22. ASSUME QuietTargets PROVE ApprovalsGranted'
  BY <1>2, <1>22, <1>13 DEF ApprovalsGranted
<1>23. ASSUME QuietTargets PROVE CallsGranted'
  BY <1>2, <1>23, <1>12, <1>13 DEF CallsGranted, Stage, Goes
<1>24. ASSUME QuietTargets PROVE Recorded'
  BY <1>3, <1>2, <1>24, <1>12, <1>13, <1>14 DEF Recorded, Stage, Goes
<1>25. ASSUME QuietTargets PROVE DemotedRecorded'
  BY <1>2, <1>25, <1>13 DEF DemotedRecorded, Stripped
<1>26. ASSUME QuietTargets PROVE CallsDemoted'
  BY <1>2, <1>26, <1>12, <1>13 DEF CallsDemoted, Stripped, Stage, Goes
<1>27. ASSUME QuietTargets PROVE DemotedStaysDemoted'
  BY <1>2, <1>27, <1>8, <1>13 DEF DemotedStaysDemoted, Seats
<1> QED BY <1>15, <1>16, <1>17, <1>18, <1>19, <1>20, <1>21, <1>22, <1>23, <1>24, <1>25, <1>26, <1>27
  DEF MembershipInv

LEMMA KeptBySaveLock ==
  ASSUME MembershipInv, NEW a \in Conn, SaveLock(a)
  PROVE  MembershipInv'
<1>1. Types /\ HomeOnly /\ Linked /\ EntersRegistered /\ Limits
  BY DEF MembershipInv
<1>2. QuietTargets => /\ KickedMustAsk /\ RecordsGranted /\ ApprovalsGranted /\ CallsGranted
                      /\ Recorded /\ DemotedRecorded /\ CallsDemoted /\ DemotedStaysDemoted
  BY DEF MembershipInv
<1>3. \A room \in Room : DOMAIN participants[room] \subseteq Conn
  BY <1>1, RoleTypes DEF Types
<1>4. \A conn \in Conn : Home[conn] \in Room /\ MemberOf[conn] \in Member
  BY MembershipAssumption
<1>5. Goes(a, "idle", Idle.role)
  BY <1>1, IdleTypes, CallGoes DEF SaveLock, Types
<1> DEFINE kept == members[Home[a]]
           hit(m) == \E t \in call[a].others : MemberOf[t] = m
           new == [m \in DOMAIN kept |-> IF hit(m) THEN [kept[m] EXCEPT !.locked = call[a].flag] ELSE kept[m]]
<1>6. kept \in Hash(Member, Records) /\ call[a].flag \in BOOLEAN
  BY <1>1, <1>4 DEF Types, MemberTypes, CallTypes, Calls
<1>7. DOMAIN kept \in SUBSET Member /\ \A m \in DOMAIN kept : kept[m] \in Records
  BY <1>6, HashParts
<1>8. \A m \in DOMAIN kept :
        /\ new[m] \in Records /\ new[m].admin = kept[m].admin
        /\ new[m].revoked = kept[m].revoked /\ new[m].ask = kept[m].ask
  BY <1>6, <1>7 DEF Records
<1>9. members' = [members EXCEPT ![Home[a]] = new]
  BY DEF SaveLock
<1>10. new \in [DOMAIN kept -> Records] /\ DOMAIN new = DOMAIN kept
  BY <1>8
<1> HIDE DEF new
<1>11. new \in Hash(Member, Records)
  BY <1>7, <1>10, HashOf
<1>12. Relocks
  BY <1>1, <1>8, <1>9, <1>10, <1>11 DEF Relocks, MemberTypes, Types
<1>13. UNCHANGED <<link, connections, crashed, participants, requests, granted, demoted>> /\ call[a].at = "saveLock" /\ Stage(a) = "saveLock"
  BY DEF SaveLock, Stage, StageOf
<1>14. Types'
  BY <1>1, <1>5, <1>12, <1>13 DEF Types, PeopleTypes, RequestTypes, HistoryTypes, Goes, Relocks
<1>15. HomeOnly'
  BY <1>1, <1>13 DEF HomeOnly
<1>16. Linked'
  BY <1>1, <1>5, <1>13 DEF Linked, Goes
<1>17. EntersRegistered'
  BY <1>1, <1>5, <1>13 DEF EntersRegistered, Stage, Goes
<1>18. Limits'
  BY <1>1, LimitsShrink, <1>13
<1>19. ASSUME QuietTargets PROVE KickedMustAsk'
  BY <1>2, <1>19, <1>13 DEF KickedMustAsk
<1>20. ASSUME QuietTargets PROVE RecordsGranted'
  BY <1>2, <1>20, <1>12, <1>13 DEF RecordsGranted, Relocks
<1>21. ASSUME QuietTargets PROVE ApprovalsGranted'
  BY <1>2, <1>21, <1>13 DEF ApprovalsGranted
<1>22. ASSUME QuietTargets PROVE CallsGranted'
  BY <1>2, <1>22, <1>5, <1>13 DEF CallsGranted, Stage, Goes
<1>23. ASSUME QuietTargets PROVE Recorded'
  BY <1>3, <1>2, <1>23, <1>5, <1>12, <1>13 DEF Recorded, Stage, Goes, Relocks
<1>24. ASSUME QuietTargets PROVE DemotedRecorded'
  BY <1>2, <1>24, <1>12, <1>13 DEF DemotedRecorded, Stripped, Relocks
<1>25. ASSUME QuietTargets PROVE CallsDemoted'
  BY <1>2, <1>25, <1>5, <1>13 DEF CallsDemoted, Stripped, Stage, Goes
<1>26. ASSUME QuietTargets PROVE DemotedStaysDemoted'
  BY <1>2, <1>26, <1>13 DEF DemotedStaysDemoted
<1> QED BY <1>14, <1>15, <1>16, <1>17, <1>18, <1>19, <1>20, <1>21, <1>22, <1>23, <1>24, <1>25, <1>26
  DEF MembershipInv

LEMMA KeptByLeaveByTicket ==
  ASSUME MembershipInv, NEW m \in Member, NEW r \in Room, LeaveByTicket(m, r)
  PROVE  MembershipInv'
<1>1. Types /\ HomeOnly /\ Linked /\ EntersRegistered /\ Limits
  BY DEF MembershipInv
<1>2. QuietTargets => /\ KickedMustAsk /\ RecordsGranted /\ ApprovalsGranted /\ CallsGranted
                      /\ Recorded /\ DemotedRecorded /\ CallsDemoted /\ DemotedStaysDemoted
  BY DEF MembershipInv
<1>3. \A room \in Room : DOMAIN participants[room] \subseteq Conn
  BY <1>1, RoleTypes DEF Types
<1>4. \A conn \in Conn : Home[conn] \in Room /\ MemberOf[conn] \in Member
  BY MembershipAssumption
<1>5. members[r] \in Hash(Member, Records)
  BY <1>1 DEF Types, MemberTypes
<1>6. /\ members' = [members EXCEPT ![r] = Without(members[r], {m})]
      /\ Without(members[r], {m}) \in Hash(Member, Records)
  BY <1>5, HashWithout DEF LeaveByTicket
<1>7. /\ DOMAIN Without(members[r], {m}) = DOMAIN members[r] \ {m}
      /\ \A n \in DOMAIN members[r] \ {m} : Without(members[r], {m})[n] = members[r][n]
  BY DEF Without, Restrict
<1>8. /\ MemberTypes'
      /\ \A s \in Room :
           /\ DOMAIN members'[s] = IF s = r THEN DOMAIN members[s] \ {m} ELSE DOMAIN members[s]
           /\ \A n \in DOMAIN members'[s] : members'[s][n] = members[s][n]
  BY <1>1, <1>6, <1>7 DEF Types, MemberTypes
<1>9. /\ demoted' \in [Room -> SUBSET Member]
      /\ \A s \in Room : demoted'[s] = IF s = r THEN demoted[s] \ {m} ELSE demoted[s]
  BY <1>1 DEF LeaveByTicket, Types, HistoryTypes
<1>10. QuietTargets => \A d \in Conn : MemberOf[d] = m => Stage(d) = "idle" /\ d \notin DOMAIN participants[r]
  BY QuietStages DEF LeaveByTicket
<1>11. UNCHANGED <<link, call, connections, crashed, participants, requests, granted>>
  BY DEF LeaveByTicket
<1>12. Types'
  BY <1>1, <1>8, <1>9, <1>11 DEF Types, CallTypes, PeopleTypes, RequestTypes, HistoryTypes
<1>13. HomeOnly'
  BY <1>1, <1>11 DEF HomeOnly
<1>14. Linked'
  BY <1>1, <1>11 DEF Linked
<1>15. EntersRegistered'
  BY <1>1, <1>11 DEF EntersRegistered, Stage
<1>16. Limits'
  BY <1>1, LimitsShrink, <1>11
<1>17. ASSUME QuietTargets PROVE KickedMustAsk'
  BY <1>2, <1>17, <1>11 DEF KickedMustAsk
<1>18. ASSUME QuietTargets PROVE RecordsGranted'
  BY <1>2, <1>18, <1>8, <1>11 DEF RecordsGranted
<1>19. ASSUME QuietTargets PROVE ApprovalsGranted'
  BY <1>2, <1>19, <1>11 DEF ApprovalsGranted
<1>20. ASSUME QuietTargets PROVE CallsGranted'
  BY <1>2, <1>20, <1>11 DEF CallsGranted, Stage
<1>21. ASSUME QuietTargets PROVE Recorded'
  BY <1>1, <1>3, <1>4, <1>2, <1>21, <1>8, <1>9, <1>10, <1>11 DEF Recorded, Stage, StageOf
<1>22. ASSUME QuietTargets PROVE DemotedRecorded'
  <2> SUFFICES ASSUME NEW s \in Room, NEW n \in demoted'[s] \ {Creator[s]}
               PROVE  n \in DOMAIN members'[s] /\ members'[s][n].revoked /\ ~members'[s][n].admin
    BY DEF DemotedRecorded, Stripped
  <2>1. n \in demoted[s] \ {Creator[s]} /\ (s = r => n # m)
    BY <1>9
  <2>2. n \in DOMAIN members[s] /\ members[s][n].revoked /\ ~members[s][n].admin
    BY <1>2, <2>1, <1>22 DEF DemotedRecorded, Stripped
  <2>3. n \in DOMAIN members'[s] /\ members'[s][n] = members[s][n]
    BY <1>8, <2>1, <2>2
  <2> QED BY <2>2, <2>3
<1>23. ASSUME QuietTargets PROVE CallsDemoted'
  BY <1>4, <1>2, <1>23, <1>9, <1>11 DEF CallsDemoted, Stripped, Stage
<1>24. ASSUME QuietTargets PROVE DemotedStaysDemoted'
  BY <1>2, <1>24, <1>9, <1>11 DEF DemotedStaysDemoted
<1> QED BY <1>12, <1>13, <1>14, <1>15, <1>16, <1>17, <1>18, <1>19, <1>20, <1>21, <1>22, <1>23, <1>24
  DEF MembershipInv

LEMMA KeptBySetAdmin ==
  ASSUME MembershipInv, NEW a \in Conn, NEW t \in Conn, NEW b \in BOOLEAN, SetAdmin(a, t, b)
  PROVE  MembershipInv'
<1>1. Types /\ HomeOnly /\ Linked /\ EntersRegistered /\ Limits
  BY DEF MembershipInv
<1>2. QuietTargets => /\ KickedMustAsk /\ RecordsGranted /\ ApprovalsGranted /\ CallsGranted
                      /\ Recorded /\ DemotedRecorded /\ CallsDemoted /\ DemotedStaysDemoted
  BY DEF MembershipInv
<1>3. \A room \in Room : DOMAIN participants[room] \subseteq Conn
  BY <1>1, RoleTypes DEF Types
<1>4. \A conn \in Conn : Home[conn] \in Room /\ MemberOf[conn] \in Member
  BY MembershipAssumption
<1>5. t \in DOMAIN participants[Home[a]] /\ participants[Home[a]][t] \in Roles
  BY <1>1, <1>4, RoleTypes DEF SetAdmin, Has, Types
<1> DEFINE role == [admin |-> b, locked |-> participants[Home[a]][t].locked /\ ~b]
<1>6. role \in Roles /\ role.admin = b
  BY DEF Roles
<1>7. participants' = [participants EXCEPT ![Home[a]][t] = role]
  BY DEF SetAdmin
<1> HIDE DEF role
<1>8. Seats(Home[a], t, role) /\ t \in DOMAIN participants[Home[a]] /\ role.admin = b
  BY <1>1, <1>4, <1>5, <1>6, <1>7, SeatsExcept DEF Types
<1>9. \A s \in Room : DOMAIN participants'[s] = DOMAIN participants[s]
  BY <1>8 DEF Seats
<1>10. /\ demoted' \in [Room -> SUBSET Member]
       /\ \A s \in Room : demoted'[s] =
            IF s # Home[a] THEN demoted[s]
            ELSE IF b THEN demoted[s] \ {MemberOf[t]} ELSE demoted[s] \cup {MemberOf[t]}
  BY <1>1, <1>4 DEF SetAdmin, Types, HistoryTypes
<1>11. QuietTargets =>
         /\ Stage(t) = "idle" /\ link[t] = "open"
         /\ \A d \in Conn : MemberOf[d] = MemberOf[t] =>
              Stage(d) = "idle" /\ (d = t \/ d \notin DOMAIN participants[Home[a]])
  <2>1. QuietTargets => Quiet(Home[a], MemberOf[t], {t}) /\ link[t] = "open"
    BY DEF SetAdmin
  <2>2. ASSUME QuietTargets
        PROVE  \A d \in Conn : MemberOf[d] = MemberOf[t] =>
                 Stage(d) = "idle" /\ (d \in {t} \/ d \notin DOMAIN participants[Home[a]])
    BY <1>4, <2>1, <2>2, QuietStages
  <2> QED BY <2>1, <2>2
<1>12. UNCHANGED <<link, call, connections, crashed, requests, granted>>
  BY DEF SetAdmin
<1>13. CASE MemberOf[t] \notin DOMAIN members[Home[a]]
  <2>1. Seats(Home[a], t, role) /\ t \in DOMAIN participants[Home[a]] /\ role.admin = b
    BY <1>8
  <2>2. \A s \in Room : DOMAIN participants'[s] = DOMAIN participants[s]
    BY <1>9
  <2>3. members' = members
    BY <1>13 DEF SetAdmin, Has
  <2>4. ~QuietTargets
    BY <1>4, <1>13, <1>8, <1>2, <1>11 DEF Recorded
  <2>5. Types'
    BY <1>1, <2>1, <2>3, <1>10, <1>12 DEF Types, CallTypes, MemberTypes, RequestTypes, HistoryTypes,
      Seats
  <2>6. HomeOnly'
    BY <1>1, <2>2 DEF HomeOnly
  <2>7. Linked'
    BY <1>1, <2>2, <1>12 DEF Linked
  <2>8. EntersRegistered'
    BY <1>1, <1>4, <2>2, <1>12 DEF EntersRegistered, Stage
  <2>9. Limits'
    BY <1>1, LimitsShrink, <2>2, <1>12
  <2>10. ASSUME QuietTargets PROVE KickedMustAsk'
    BY <2>10, <2>4
  <2>11. ASSUME QuietTargets PROVE RecordsGranted'
    BY <2>11, <2>4
  <2>12. ASSUME QuietTargets PROVE ApprovalsGranted'
    BY <2>12, <2>4
  <2>13. ASSUME QuietTargets PROVE CallsGranted'
    BY <2>13, <2>4
  <2>14. ASSUME QuietTargets PROVE Recorded'
    BY <2>14, <2>4
  <2>15. ASSUME QuietTargets PROVE DemotedRecorded'
    BY <2>15, <2>4
  <2>16. ASSUME QuietTargets PROVE CallsDemoted'
    BY <2>16, <2>4
  <2>17. ASSUME QuietTargets PROVE DemotedStaysDemoted'
    BY <2>17, <2>4
  <2> QED BY <2>5, <2>6, <2>7, <2>8, <2>9, <2>10, <2>11, <2>12, <2>13, <2>14, <2>15, <2>16, <2>17 DEF
    MembershipInv
<1>14. CASE MemberOf[t] \in DOMAIN members[Home[a]]
  <2>1. Seats(Home[a], t, role) /\ t \in DOMAIN participants[Home[a]] /\ role.admin = b
    BY <1>8
  <2>2. \A s \in Room : DOMAIN participants'[s] = DOMAIN participants[s]
    BY <1>9
  <2>3. members[Home[a]][MemberOf[t]] \in Records
    BY <1>1, <1>4, <1>14, RecordTypes DEF Types
  <2> DEFINE record == [members[Home[a]][MemberOf[t]] EXCEPT !.admin = b, !.revoked = ~b, !.locked = @ /\ ~b]
  <2>4. record \in Records /\ record.ask = members[Home[a]][MemberOf[t]].ask /\ record.admin = b /\ record.revoked = ~b
    BY <2>3 DEF Records
  <2>5. members' = [members EXCEPT ![Home[a]][MemberOf[t]] = record]
    BY <1>14 DEF SetAdmin, Has
  <2> HIDE DEF record
  <2>6. Writes(Home[a], MemberOf[t], record) /\ record.ask = members[Home[a]][MemberOf[t]].ask
           /\ record.admin = b /\ record.revoked = ~b
    BY <1>1, <1>4, <1>14, <2>4, <2>5, WritesExcept DEF Types
  <2>7. Types'
    BY <1>1, <2>1, <2>6, <1>10, <1>12 DEF Types, CallTypes, RequestTypes, HistoryTypes, Seats, Writes
  <2>8. HomeOnly'
    BY <1>1, <2>2 DEF HomeOnly
  <2>9. Linked'
    BY <1>1, <2>2, <1>12 DEF Linked
  <2>10. EntersRegistered'
    BY <1>1, <1>4, <2>2, <1>12 DEF EntersRegistered, Stage
  <2>11. Limits'
    BY <1>1, LimitsShrink, <2>2, <1>12
  <2>12. ASSUME QuietTargets PROVE KickedMustAsk'
    BY <1>2, <2>12, <2>2, <1>12 DEF KickedMustAsk
  <2>13. ASSUME QuietTargets PROVE RecordsGranted'
    BY <1>2, <2>13, <2>6, <1>12, <1>14 DEF RecordsGranted, Writes
  <2>14. ASSUME QuietTargets PROVE ApprovalsGranted'
    BY <1>2, <2>14, <1>12 DEF ApprovalsGranted
  <2>15. ASSUME QuietTargets PROVE CallsGranted'
    BY <1>2, <2>15, <1>12 DEF CallsGranted, Stage
  <2>16. ASSUME QuietTargets PROVE Recorded'
    BY <1>2, <2>16, <2>2, <2>6, <1>12 DEF Recorded, Stage, Writes
  <2>17. ASSUME QuietTargets PROVE DemotedRecorded'
    <3> SUFFICES ASSUME NEW s \in Room, NEW n \in demoted'[s] \ {Creator[s]}
                 PROVE  n \in DOMAIN members'[s] /\ members'[s][n].revoked /\ ~members'[s][n].admin
      BY DEF DemotedRecorded, Stripped
    <3>1. CASE s = Home[a] /\ n = MemberOf[t]
      <4>1. ~b /\ n \in DOMAIN members'[s] /\ members'[s][n] = record
        BY <1>10, <2>6, <3>1 DEF Writes
      <4> QED BY <2>6, <4>1
    <3>2. CASE ~(s = Home[a] /\ n = MemberOf[t])
      <4>1. n \in demoted[s] \ {Creator[s]}
        BY <1>10, <3>2
      <4>2. n \in DOMAIN members[s] /\ members[s][n].revoked /\ ~members[s][n].admin
        BY <1>2, <4>1, <2>17 DEF DemotedRecorded, Stripped
      <4>3. n \in DOMAIN members'[s] /\ members'[s][n] = members[s][n]
        BY <2>6, <3>2, <4>2 DEF Writes
      <4> QED BY <4>2, <4>3
    <3> QED BY <3>1, <3>2
  <2>18. ASSUME QuietTargets PROVE CallsDemoted'
    BY <1>4, <1>2, <2>18, <1>10, <1>11, <1>12 DEF CallsDemoted, Stripped, Stage
  <2>19. ASSUME QuietTargets PROVE DemotedStaysDemoted'
    BY <1>3, <1>2, <2>19, <2>1, <1>10, <1>11 DEF DemotedStaysDemoted, Seats
  <2> QED BY <2>7, <2>8, <2>9, <2>10, <2>11, <2>12, <2>13, <2>14, <2>15, <2>16, <2>17, <2>18, <2>19 DEF
    MembershipInv
<1> QED BY <1>13, <1>14

LEMMA KeptByKick ==
  ASSUME MembershipInv, NEW a \in Conn, NEW t \in Conn, Kick(a, t)
  PROVE  MembershipInv'
<1>1. Types /\ HomeOnly /\ Linked /\ EntersRegistered /\ Limits
  BY DEF MembershipInv
<1>2. QuietTargets => /\ KickedMustAsk /\ RecordsGranted /\ ApprovalsGranted /\ CallsGranted
                      /\ Recorded /\ DemotedRecorded /\ CallsDemoted /\ DemotedStaysDemoted
  BY DEF MembershipInv
<1>3. \A room \in Room : DOMAIN participants[room] \subseteq Conn
  BY <1>1, RoleTypes DEF Types
<1>4. \A conn \in Conn : Home[conn] \in Room /\ MemberOf[conn] \in Member
  BY MembershipAssumption
<1>5. t \in DOMAIN participants[Home[a]] /\ participants[Home[a]][t] \in Roles
  BY <1>1, <1>4, RoleTypes DEF Kick, Has, Types
<1>6. Shrinks /\ DOMAIN participants'[Home[a]] = DOMAIN participants[Home[a]] \ {t}
  BY <1>1, <1>4, PeopleShrink DEF Kick, Types
<1>7. Has(members[Home[a]], MemberOf[t]) => members[Home[a]][MemberOf[t]].revoked \in BOOLEAN
  BY <1>1, <1>4, RecordTypes DEF Has, Types, Records
<1> DEFINE was == participants[Home[a]][t]
           record == [admin |-> FALSE, locked |-> was.locked, ask |-> TRUE,
                      revoked |-> was.admin \/ (Has(members[Home[a]], MemberOf[t])
                                                /\ members[Home[a]][MemberOf[t]].revoked)]
<1>8. /\ record \in Records /\ record.ask /\ ~record.admin
      /\ was.admin \/ (MemberOf[t] \in DOMAIN members[Home[a]] /\ members[Home[a]][MemberOf[t]].revoked)
           => record.revoked
  BY <1>5 DEF Records, Roles, Has
<1>9. members' = [members EXCEPT ![Home[a]] = Set(members[Home[a]], MemberOf[t], record)]
  BY DEF Kick
<1> HIDE DEF record, was
<1>10. Writes(Home[a], MemberOf[t], record)
  BY <1>1, <1>4, <1>8, <1>9, WritesSet DEF Types
<1>11. /\ Writes(Home[a], MemberOf[t], record) /\ record.ask /\ ~record.admin
       /\ was.admin \/ (MemberOf[t] \in DOMAIN members[Home[a]] /\ members[Home[a]][MemberOf[t]].revoked)
            => record.revoked
  BY <1>8, <1>10
<1>12. ApprovesNone /\ DOMAIN requests'[Home[a]] = DOMAIN requests[Home[a]] \ {MemberOf[t]}
  BY <1>1, <1>4, RequestsShrink DEF Kick, Types
<1>13. /\ granted' \in [Room -> SUBSET Member]
       /\ \A s \in Room : granted'[s] = IF s = Home[a] THEN granted[s] \ {MemberOf[t]} ELSE granted[s]
  BY <1>1 DEF Kick, Types, HistoryTypes
<1>14. /\ demoted' \in [Room -> SUBSET Member]
       /\ \A s \in Room : demoted'[s] =
            IF s = Home[a] /\ was.admin THEN demoted[s] \cup {MemberOf[t]} ELSE demoted[s]
  BY <1>1, <1>4 DEF Kick, Types, HistoryTypes, was
<1>15. QuietTargets => \A d \in Conn : MemberOf[d] = MemberOf[t] =>
        Stage(d) = "idle" /\ (d = t \/ d \notin DOMAIN participants[Home[a]])
  <2>1. QuietTargets => Quiet(Home[a], MemberOf[t], {t})
    BY DEF Kick
  <2>2. ASSUME QuietTargets
        PROVE  \A d \in Conn : MemberOf[d] = MemberOf[t] =>
                 Stage(d) = "idle" /\ (d \in {t} \/ d \notin DOMAIN participants[Home[a]])
    BY <1>4, <2>1, <2>2, QuietStages
  <2> QED BY <2>2
<1>16. UNCHANGED <<link, call, connections, crashed>>
  BY DEF Kick
<1>17. Types'
  BY <1>1, <1>6, <1>11, <1>12, <1>13, <1>14, <1>16 DEF Types, CallTypes, HistoryTypes, Shrinks, Writes,
    ApprovesNone
<1>18. HomeOnly'
  BY <1>1, <1>6 DEF HomeOnly, Shrinks
<1>19. Linked'
  BY <1>1, <1>6, <1>16 DEF Linked, Shrinks
<1>20. EntersRegistered'
  BY <1>1, <1>4, <1>6, <1>16 DEF EntersRegistered, Stage, Shrinks
<1>21. Limits'
  BY <1>1, LimitsShrink, <1>6, <1>16 DEF Shrinks
<1>22. ASSUME QuietTargets PROVE KickedMustAsk'
  BY <1>3, <1>2, <1>22, <1>6, <1>13, <1>15 DEF KickedMustAsk, Shrinks
<1>23. ASSUME QuietTargets PROVE RecordsGranted'
  BY <1>2, <1>23, <1>11, <1>13 DEF RecordsGranted, Writes
<1>24. ASSUME QuietTargets PROVE ApprovalsGranted'
  BY <1>2, <1>24, <1>12, <1>13 DEF ApprovalsGranted, ApprovesNone
<1>25. ASSUME QuietTargets PROVE CallsGranted'
  BY <1>4, <1>2, <1>25, <1>13, <1>15, <1>16 DEF CallsGranted, Stage
<1>26. ASSUME QuietTargets PROVE Recorded'
  BY <1>2, <1>26, <1>6, <1>11, <1>16 DEF Recorded, Stage, Shrinks, Writes
<1>27. ASSUME QuietTargets PROVE DemotedRecorded'
  BY <1>2, <1>27, <1>11, <1>14 DEF DemotedRecorded, Stripped, Writes
<1>28. ASSUME QuietTargets PROVE CallsDemoted'
  BY <1>4, <1>2, <1>28, <1>14, <1>15, <1>16 DEF CallsDemoted, Stripped, Stage
<1>29. ASSUME QuietTargets PROVE DemotedStaysDemoted'
  BY <1>3, <1>2, <1>29, <1>6, <1>14, <1>15 DEF DemotedStaysDemoted, Shrinks
<1> QED BY <1>17, <1>18, <1>19, <1>20, <1>21, <1>22, <1>23, <1>24, <1>25, <1>26, <1>27, <1>28, <1>29
  DEF MembershipInv

LEMMA KeptByReadRequest ==
  ASSUME MembershipInv, NEW c \in Conn, ReadRequest(c)
  PROVE  MembershipInv'
<1>1. Types /\ HomeOnly /\ Linked /\ EntersRegistered /\ Limits
  BY DEF MembershipInv
<1>2. QuietTargets => /\ KickedMustAsk /\ RecordsGranted /\ ApprovalsGranted /\ CallsGranted
                      /\ Recorded /\ DemotedRecorded /\ CallsDemoted /\ DemotedStaysDemoted
  BY DEF MembershipInv
<1>3. \A room \in Room : DOMAIN participants[room] \subseteq Conn
  BY <1>1, RoleTypes DEF Types
<1>4. \A conn \in Conn : Home[conn] \in Room /\ MemberOf[conn] \in Member
  BY MembershipAssumption
<1> DEFINE r == Home[c]
           m == MemberOf[c]
           known == Has(members[r], m)
           ask == known /\ members[r][m].ask
           byRequest == (known => ask) /\ Has(requests[r], m) /\ requests[r][m].approved
           next == Admission(r, c, (known /\ ~ask) \/ byRequest, ask)
           role == IF known THEN [admin |-> members[r][m].admin, locked |-> members[r][m].locked]
                   ELSE Idle.role
           new == IF next = "idle" THEN Idle
                  ELSE [call[c] EXCEPT !.at = next, !.known = known, !.flag = FALSE, !.role = role]
<1>5. r \in Room /\ m \in Member /\ call[c] \in Calls /\ call[c].at = "request"
  BY <1>1, <1>4 DEF ReadRequest, Types, CallTypes
<1>6. known => members[r][m] \in Records
  BY <1>1, <1>5, RecordTypes DEF Has, Types
<1>7. requests[r] \in Hash(Member, Requests)
  BY <1>1, <1>5 DEF Types, RequestTypes
<1>8. next \in {"admit", "idle", "ask"}
  BY DEF Admission
<1>9. Idle.role \in Roles /\ ~Idle.role.admin
  BY IdleTypes DEF Calls
<1>10. role \in Roles /\ (role.admin => known /\ members[r][m].admin)
  BY <1>6, <1>9 DEF Records, Roles
<1>11. /\ new \in Calls /\ StageOf(new) = next
       /\ new.role.admin => m \in DOMAIN members[r] /\ members[r][m].admin
  <2>1. CASE next = "idle"
    BY <2>1, IdleTypes
  <2>2. CASE next # "idle"
    <3> DEFINE state == [call[c] EXCEPT !.at = next, !.known = known, !.flag = FALSE, !.role = role]
    <3>1. new = state /\ next \in Stages /\ next # "forget" /\ known \in BOOLEAN
      BY <1>8, <2>2 DEF Stages, Has
    <3> HIDE DEF role, next, known
    <3>2. state \in Calls /\ state.at = next /\ state.role = role
      BY <1>5, <1>10, <3>1 DEF Calls
    <3> QED BY <1>10, <3>1, <3>2 DEF StageOf, Has, known
  <2> QED BY <2>1, <2>2
<1>12. call' = [call EXCEPT ![c] = new]
  BY DEF ReadRequest
<1>13. Goes(c, next, new.role) /\ next \in {"admit", "idle", "ask"}
  BY <1>1, <1>3, <1>11, <1>12, <1>8, CallGoes DEF Types
<1>14. new.role.admin => m \in DOMAIN members[r] /\ members[r][m].admin
  BY <1>11
<1>15. ApprovesNone
  <2>1. CASE byRequest
    <3>1. m \in DOMAIN requests[r] /\ requests' = [requests EXCEPT ![r][m].conn = c]
      BY <2>1 DEF ReadRequest, Has
    <3>2. RequestTypes
      BY <1>1 DEF Types
    <3> QED BY <1>5, <3>1, <3>2, RequestMoved
  <2>2. CASE ~byRequest
    <3>1. requests' = requests
      BY <2>2 DEF ReadRequest
    <3> QED BY <1>1, <3>1 DEF ApprovesNone, Types, RequestTypes
  <2> QED BY <2>1, <2>2
<1>16. granted' = IF next = "admit"
                   THEN [granted EXCEPT ![r] = @ \cup IF m = Creator[r] \/ (~ask /\ call[c].flag) THEN {m} ELSE {}]
                   ELSE granted
  BY DEF ReadRequest
<1>17. /\ granted' \in [Room -> SUBSET Member]
       /\ \A s \in Room : granted[s] \subseteq granted'[s]
  BY <1>1, <1>5, <1>16 DEF Types, HistoryTypes
<1>18. QuietTargets /\ next = "admit" => m \in granted'[r]
  <2> SUFFICES ASSUME QuietTargets, next = "admit" PROVE m \in granted'[r]
    OBVIOUS
  <2>1. CASE m = Creator[r] \/ (~ask /\ call[c].flag)
    <3>1. granted' = [granted EXCEPT ![r] = @ \cup {m}]
      BY <1>16, <2>1
    <3> QED BY <1>1, <1>5, <3>1 DEF Types, HistoryTypes
  <2>2. CASE c \in DOMAIN participants[r]
    BY <1>2, <1>5, <1>16, <2>2 DEF KickedMustAsk
  <2>3. CASE (known /\ ~ask) \/ byRequest
    BY <1>2, <1>5, <1>16, <2>3 DEF RecordsGranted, ApprovalsGranted, Has
  <2>4. \/ c \in DOMAIN participants[r] \/ m = Creator[r]
        \/ (known /\ ~ask) \/ byRequest \/ (~ask /\ call[c].flag)
    BY DEF Admission, Has
  <2> QED BY <2>1, <2>2, <2>3, <2>4
<1>19. /\ call[c].at = "request" /\ Stage(c) = "request"
       /\ UNCHANGED <<link, connections, crashed, participants, members, demoted>>
  BY DEF ReadRequest, Stage, StageOf
<1> HIDE DEF next, new
<1>20. Types'
  BY <1>1, <1>13, <1>15, <1>17, <1>19 DEF Types, PeopleTypes, MemberTypes, HistoryTypes, Goes,
    ApprovesNone
<1>21. HomeOnly'
  BY <1>1, <1>19 DEF HomeOnly
<1>22. Linked'
  BY <1>1, <1>13, <1>19 DEF Linked, Goes
<1>23. EntersRegistered'
  BY <1>1, <1>13, <1>19 DEF EntersRegistered, Stage, Goes
<1>24. Limits'
  BY <1>1, LimitsShrink, <1>19
<1>25. ASSUME QuietTargets PROVE KickedMustAsk'
  BY <1>2, <1>25, <1>17, <1>19 DEF KickedMustAsk
<1>26. ASSUME QuietTargets PROVE RecordsGranted'
  BY <1>2, <1>26, <1>17, <1>19 DEF RecordsGranted
<1>27. ASSUME QuietTargets PROVE ApprovalsGranted'
  BY <1>2, <1>27, <1>15, <1>17 DEF ApprovalsGranted, ApprovesNone
<1>28. ASSUME QuietTargets PROVE CallsGranted'
  BY <1>4, <1>2, <1>28, <1>13, <1>17, <1>18 DEF CallsGranted, Stage, Goes
<1>29. ASSUME QuietTargets PROVE Recorded'
  BY <1>3, <1>2, <1>29, <1>13, <1>19 DEF Recorded, Stage, Goes
<1>30. ASSUME QuietTargets PROVE DemotedRecorded'
  BY <1>2, <1>30, <1>19 DEF DemotedRecorded, Stripped
<1>31. ASSUME QuietTargets PROVE CallsDemoted'
  BY <1>4, <1>2, <1>31, <1>13, <1>14, <1>19 DEF CallsDemoted, Stripped, Stage, Goes, DemotedRecorded
<1>32. ASSUME QuietTargets PROVE DemotedStaysDemoted'
  BY <1>2, <1>32, <1>19 DEF DemotedStaysDemoted
<1> QED BY <1>20, <1>21, <1>22, <1>23, <1>24, <1>25, <1>26, <1>27, <1>28, <1>29, <1>30, <1>31, <1>32
  DEF MembershipInv

LEMMA KeptByAdmit ==
  ASSUME MembershipInv, NEW c \in Conn, Admit(c)
  PROVE  MembershipInv'
<1>1. Types /\ HomeOnly /\ Linked /\ EntersRegistered /\ Limits
  BY DEF MembershipInv
<1>2. QuietTargets => /\ KickedMustAsk /\ RecordsGranted /\ ApprovalsGranted /\ CallsGranted
                      /\ Recorded /\ DemotedRecorded /\ CallsDemoted /\ DemotedStaysDemoted
  BY DEF MembershipInv
<1>3. \A room \in Room : DOMAIN participants[room] \subseteq Conn
  BY <1>1, RoleTypes DEF Types
<1>4. \A conn \in Conn : Home[conn] \in Room /\ MemberOf[conn] \in Member
  BY MembershipAssumption
<1> DEFINE r == Home[c]
           m == MemberOf[c]
           role == RoleOf(r, c, call[c])
<1>5. r \in Room /\ m \in Member /\ call[c] \in Calls /\ call[c].at = "enter" /\ Stage(c) = "enter"
  BY <1>1, <1>4 DEF Admit, Stage, StageOf, Types, CallTypes
<1>6. UNCHANGED <<link, crashed, members, requests, granted, demoted>>
  BY DEF Admit
<1>7. CASE Refused(r, c)
  <2>1. Goes(c, "idle", Idle.role)
    BY <1>1, <1>7, IdleTypes, CallGoes DEF Admit, Types
  <2>2. /\ call[c].at = "enter" /\ Stage(c) = "enter"
        /\ UNCHANGED <<link, crashed, members, requests, granted, demoted, participants, connections>>
    BY <1>7, <1>5 DEF Admit
  <2>3. Types'
    BY <1>1, <2>1, <2>2 DEF Types, PeopleTypes, MemberTypes, RequestTypes, HistoryTypes, Goes
  <2>4. HomeOnly'
    BY <1>1, <2>2 DEF HomeOnly
  <2>5. Linked'
    BY <1>1, <2>1, <2>2 DEF Linked, Goes
  <2>6. EntersRegistered'
    BY <1>1, <2>1, <2>2 DEF EntersRegistered, Stage, Goes
  <2>7. Limits'
    BY <1>1, LimitsShrink, <2>2
  <2>8. ASSUME QuietTargets PROVE KickedMustAsk'
    BY <1>2, <2>8, <2>2 DEF KickedMustAsk
  <2>9. ASSUME QuietTargets PROVE RecordsGranted'
    BY <1>2, <2>9, <2>2 DEF RecordsGranted
  <2>10. ASSUME QuietTargets PROVE ApprovalsGranted'
    BY <1>2, <2>10, <2>2 DEF ApprovalsGranted
  <2>11. ASSUME QuietTargets PROVE CallsGranted'
    BY <1>2, <2>11, <2>1, <2>2 DEF CallsGranted, Stage, Goes
  <2>12. ASSUME QuietTargets PROVE Recorded'
    BY <1>3, <1>2, <2>12, <2>1, <2>2 DEF Recorded, Stage, Goes
  <2>13. ASSUME QuietTargets PROVE DemotedRecorded'
    BY <1>2, <2>13, <2>2 DEF DemotedRecorded, Stripped
  <2>14. ASSUME QuietTargets PROVE CallsDemoted'
    BY <1>2, <2>14, <2>1, <2>2 DEF CallsDemoted, Stripped, Stage, Goes
  <2>15. ASSUME QuietTargets PROVE DemotedStaysDemoted'
    BY <1>2, <2>15, <2>2 DEF DemotedStaysDemoted
  <2> QED BY <2>3, <2>4, <2>5, <2>6, <2>7, <2>8, <2>9, <2>10, <2>11, <2>12, <2>13, <2>14, <2>15 DEF
    MembershipInv
<1>8. CASE ~Refused(r, c)
  <2>1. Idle.role \in Roles /\ ~Idle.role.admin
    BY IdleTypes DEF Calls
  <2>2. c \in DOMAIN participants[r] => participants[r][c] \in Roles
    BY <1>1, <1>5, RoleTypes DEF Types
  <2>3. /\ role \in Roles
        /\ role.admin => \/ c \in DOMAIN participants[r] /\ participants[r][c].admin
                         \/ m = Creator[r] \/ call[c].role.admin
                         \/ ~(m \in DOMAIN members[r] /\ members[r][m].revoked)
    BY <1>5, <2>1, <2>2 DEF RoleOf, Roles, Calls, Has
  <2>4. participants' = [participants EXCEPT ![r] = Set(participants[r], c, role)]
    BY <1>8 DEF Admit
  <2> HIDE DEF role
  <2>5. Seats(r, c, role)
    BY <1>1, <1>5, <2>3, <2>4, SeatsSet DEF Types
  <2>6. "joined" \in Stages
    BY DEF Stages
  <2>7. Goes(c, "joined", call[c].role)
    BY <1>1, <1>8, <2>6, CallMoves DEF Admit, Types
  <2>8. role.admin => \/ c \in DOMAIN participants[r] /\ participants[r][c].admin
                \/ m = Creator[r] \/ call[c].role.admin
                \/ ~(m \in DOMAIN members[r] /\ members[r][m].revoked)
    BY <2>3
  <2>9. /\ connections' = connections \cup {c} /\ call[c].at = "enter" /\ Stage(c) = "enter"
        /\ c \notin crashed /\ link[c] # "new"
        /\ UNCHANGED <<link, crashed, members, requests, granted, demoted>>
    BY <1>1, <1>8, <1>5 DEF Admit, Linked
  <2>10. Types'
    BY <1>1, <2>5, <2>7, <2>9 DEF Types, MemberTypes, RequestTypes, HistoryTypes, Goes, Seats
  <2>11. HomeOnly'
    BY <1>1, <2>5 DEF HomeOnly, Seats
  <2>12. Linked'
    BY <1>1, <2>5, <2>7, <2>9 DEF Linked, Goes, Seats
  <2>13. EntersRegistered'
    BY <1>1, <1>4, <2>5, <2>7, <2>9 DEF EntersRegistered, Stage, Goes, Seats
  <2>14. Limits'
    <3>1. c \in connections \/ Cardinality(connections \ crashed) < MaxConnections
      <4>1. Cardinality(connections \ crashed) \in Nat
        BY <1>1, FS_Subset, FS_CardinalityType DEF Limits
      <4> QED BY <1>1, <1>5, <1>8, <4>1, Bounds DEF Refused, Has, EntersRegistered
    <3>2. IsFiniteSet(connections') /\ Cardinality(connections' \ crashed') <= MaxConnections
      BY <1>1, <2>9, <3>1, LimitsAdd
    <3>3. ASSUME NEW s \in Room
          PROVE  /\ IsFiniteSet(DOMAIN participants'[s])
                 /\ Cardinality(DOMAIN participants'[s]) <= MaxParticipants
      <4>1. IsFiniteSet(DOMAIN participants[s]) /\ Cardinality(DOMAIN participants[s]) <= MaxParticipants
        BY <1>1 DEF Limits
      <4>2. CASE s # r \/ c \in DOMAIN participants[r]
        <5>1. DOMAIN participants'[s] = DOMAIN participants[s]
          BY <2>5, <4>2 DEF Seats
        <5> QED BY <4>1, <5>1
      <4>3. CASE s = r /\ c \notin DOMAIN participants[r]
        <5>1. DOMAIN participants'[s] = DOMAIN participants[s] \cup {c}
          BY <2>5, <4>3 DEF Seats
        <5>2. Cardinality(DOMAIN participants'[s]) = Cardinality(DOMAIN participants[s]) + 1
          BY <4>1, <4>3, <5>1, FS_AddElement
        <5>3. Cardinality(DOMAIN participants[s]) \in Nat
          BY <4>1, FS_CardinalityType
        <5>4. Cardinality(DOMAIN participants[s]) < MaxParticipants
          BY <1>8, <4>3, <5>3, Bounds DEF Refused, Has
        <5>5. IsFiniteSet(DOMAIN participants'[s])
          BY <4>1, <5>1, FS_AddElement
        <5> QED BY <5>2, <5>3, <5>4, <5>5, Bounds
      <4> QED BY <4>2, <4>3
    <3> QED BY <3>2, <3>3 DEF Limits
  <2>15. ASSUME QuietTargets PROVE KickedMustAsk'
    BY <1>2, <2>15, <2>5, <2>9 DEF KickedMustAsk, Seats, CallsGranted
  <2>16. ASSUME QuietTargets PROVE RecordsGranted'
    BY <1>2, <2>16, <2>9 DEF RecordsGranted
  <2>17. ASSUME QuietTargets PROVE ApprovalsGranted'
    BY <1>2, <2>17, <2>9 DEF ApprovalsGranted
  <2>18. ASSUME QuietTargets PROVE CallsGranted'
    BY <1>2, <2>18, <2>7, <2>9 DEF CallsGranted, Stage, Goes
  <2>19. ASSUME QuietTargets PROVE Recorded'
    BY <1>3, <1>2, <2>19, <2>5, <2>7, <2>9 DEF Recorded, Stage, Goes, Seats
  <2>20. ASSUME QuietTargets PROVE DemotedRecorded'
    BY <1>2, <2>20, <2>9 DEF DemotedRecorded, Stripped
  <2>21. ASSUME QuietTargets PROVE CallsDemoted'
    BY <1>2, <2>21, <2>7, <2>9 DEF CallsDemoted, Stripped, Stage, Goes
  <2>22. ASSUME QuietTargets PROVE DemotedStaysDemoted'
    BY <1>2, <2>22, <2>5, <2>8, <2>9 DEF DemotedStaysDemoted, Seats, CallsDemoted, DemotedRecorded,
      Stripped
  <2> QED BY <2>10, <2>11, <2>12, <2>13, <2>14, <2>15, <2>16, <2>17, <2>18, <2>19, <2>20, <2>21, <2>22
    DEF MembershipInv
<1> QED BY <1>7, <1>8

LEMMA KeptByReadBack ==
  ASSUME MembershipInv, NEW c \in Conn, ReadBack(c)
  PROVE  MembershipInv'
<1>1. Types /\ HomeOnly /\ Linked /\ EntersRegistered /\ Limits
  BY DEF MembershipInv
<1>2. QuietTargets => /\ KickedMustAsk /\ RecordsGranted /\ ApprovalsGranted /\ CallsGranted
                      /\ Recorded /\ DemotedRecorded /\ CallsDemoted /\ DemotedStaysDemoted
  BY DEF MembershipInv
<1>3. \A room \in Room : DOMAIN participants[room] \subseteq Conn
  BY <1>1, RoleTypes DEF Types
<1>4. \A conn \in Conn : Home[conn] \in Room /\ MemberOf[conn] \in Member
  BY MembershipAssumption
<1>5. /\ call[c].at = "joined" /\ Stage(c) = "joined"
      /\ UNCHANGED <<link, connections, crashed, participants, members, requests, granted, demoted>>
  BY DEF ReadBack, stored, Stage, StageOf
<1>6. CASE c \in DOMAIN participants[Home[c]]
  <2>1. participants[Home[c]][c] \in Roles
    BY <1>1, <1>4, <1>6, RoleTypes DEF Types
  <2> DEFINE state == [Idle EXCEPT !.at = "save", !.role = participants[Home[c]][c]]
  <2>2. state \in Calls /\ StageOf(state) = "save" /\ state.role = participants[Home[c]][c]
    BY <2>1 DEF Calls, Stages, Idle, StageOf
  <2>3. call' = [call EXCEPT ![c] = state]
    BY <1>6 DEF ReadBack, Has
  <2> HIDE DEF state
  <2>4. Goes(c, "save", participants[Home[c]][c])
    BY <1>1, <2>2, <2>3, CallGoes DEF Types
  <2>5. Types'
    BY <1>1, <2>4, <1>5 DEF Types, PeopleTypes, MemberTypes, RequestTypes, HistoryTypes, Goes
  <2>6. HomeOnly'
    BY <1>1, <1>5 DEF HomeOnly
  <2>7. Linked'
    BY <1>1, <2>4, <1>5 DEF Linked, Goes
  <2>8. EntersRegistered'
    BY <1>1, <2>4, <1>5 DEF EntersRegistered, Stage, Goes
  <2>9. Limits'
    BY <1>1, LimitsShrink, <1>5
  <2>10. ASSUME QuietTargets PROVE KickedMustAsk'
    BY <1>2, <2>10, <1>5 DEF KickedMustAsk
  <2>11. ASSUME QuietTargets PROVE RecordsGranted'
    BY <1>2, <2>11, <1>5 DEF RecordsGranted
  <2>12. ASSUME QuietTargets PROVE ApprovalsGranted'
    BY <1>2, <2>12, <1>5 DEF ApprovalsGranted
  <2>13. ASSUME QuietTargets PROVE CallsGranted'
    BY <1>4, <1>2, <2>13, <2>4, <1>5, <1>6 DEF CallsGranted, Stage, Goes, KickedMustAsk
  <2>14. ASSUME QuietTargets PROVE Recorded'
    BY <1>3, <1>2, <2>14, <2>4, <1>5 DEF Recorded, Stage, Goes
  <2>15. ASSUME QuietTargets PROVE DemotedRecorded'
    BY <1>2, <2>15, <1>5 DEF DemotedRecorded, Stripped
  <2>16. ASSUME QuietTargets PROVE CallsDemoted'
    BY <1>4, <1>2, <2>16, <2>4, <1>5, <1>6 DEF CallsDemoted, Stripped, Stage, Goes, DemotedStaysDemoted
  <2>17. ASSUME QuietTargets PROVE DemotedStaysDemoted'
    BY <1>2, <2>17, <1>5 DEF DemotedStaysDemoted
  <2> QED BY <2>5, <2>6, <2>7, <2>8, <2>9, <2>10, <2>11, <2>12, <2>13, <2>14, <2>15, <2>16, <2>17 DEF
    MembershipInv
<1>7. CASE c \notin DOMAIN participants[Home[c]]
  <2>1. Goes(c, "idle", Idle.role)
    BY <1>1, <1>7, IdleTypes, CallGoes DEF ReadBack, Has, Types
  <2>2. Types'
    BY <1>1, <2>1, <1>5 DEF Types, PeopleTypes, MemberTypes, RequestTypes, HistoryTypes, Goes
  <2>3. HomeOnly'
    BY <1>1, <1>5 DEF HomeOnly
  <2>4. Linked'
    BY <1>1, <2>1, <1>5 DEF Linked, Goes
  <2>5. EntersRegistered'
    BY <1>1, <2>1, <1>5 DEF EntersRegistered, Stage, Goes
  <2>6. Limits'
    BY <1>1, LimitsShrink, <1>5
  <2>7. ASSUME QuietTargets PROVE KickedMustAsk'
    BY <1>2, <2>7, <1>5 DEF KickedMustAsk
  <2>8. ASSUME QuietTargets PROVE RecordsGranted'
    BY <1>2, <2>8, <1>5 DEF RecordsGranted
  <2>9. ASSUME QuietTargets PROVE ApprovalsGranted'
    BY <1>2, <2>9, <1>5 DEF ApprovalsGranted
  <2>10. ASSUME QuietTargets PROVE CallsGranted'
    BY <1>2, <2>10, <2>1, <1>5 DEF CallsGranted, Stage, Goes
  <2>11. ASSUME QuietTargets PROVE Recorded'
    BY <1>1, <1>3, <1>2, <2>11, <2>1, <1>5, <1>7 DEF Recorded, Stage, Goes, HomeOnly
  <2>12. ASSUME QuietTargets PROVE DemotedRecorded'
    BY <1>2, <2>12, <1>5 DEF DemotedRecorded, Stripped
  <2>13. ASSUME QuietTargets PROVE CallsDemoted'
    BY <1>2, <2>13, <2>1, <1>5 DEF CallsDemoted, Stripped, Stage, Goes
  <2>14. ASSUME QuietTargets PROVE DemotedStaysDemoted'
    BY <1>2, <2>14, <1>5 DEF DemotedStaysDemoted
  <2> QED BY <2>2, <2>3, <2>4, <2>5, <2>6, <2>7, <2>8, <2>9, <2>10, <2>11, <2>12, <2>13, <2>14 DEF
    MembershipInv
<1> QED BY <1>6, <1>7

LEMMA KeptByPromote ==
  ASSUME MembershipInv, NEW c \in Conn, NEW d \in Conn, Promote(c, d)
  PROVE  MembershipInv'
<1>1. Types /\ HomeOnly /\ Linked /\ EntersRegistered /\ Limits
  BY DEF MembershipInv
<1>2. QuietTargets => /\ KickedMustAsk /\ RecordsGranted /\ ApprovalsGranted /\ CallsGranted
                      /\ Recorded /\ DemotedRecorded /\ CallsDemoted /\ DemotedStaysDemoted
  BY DEF MembershipInv
<1>3. \A room \in Room : DOMAIN participants[room] \subseteq Conn
  BY <1>1, RoleTypes DEF Types
<1>4. \A conn \in Conn : Home[conn] \in Room /\ MemberOf[conn] \in Member
  BY MembershipAssumption
<1> DEFINE r == Home[c]
           m == MemberOf[d]
           role == [admin |-> TRUE, locked |-> FALSE]
           others == IF Promotable(r, d) THEN {} ELSE call[c].others \ {d}
           new == [call[c] EXCEPT !.others = others]
<1>5. call[c] \in Calls /\ call[c].at = "promote"
  BY <1>1 DEF Promote, Types, CallTypes
<1>6. new \in Calls /\ StageOf(new) = "promote" /\ new.role = call[c].role
  BY <1>5 DEF Calls, StageOf
<1>7. call' = [call EXCEPT ![c] = new]
  BY DEF Promote
<1> HIDE DEF new
<1>8. Goes(c, "promote", call[c].role)
  BY <1>1, <1>6, <1>7, CallGoes DEF Types
<1>9. /\ call[c].at = "promote" /\ Stage(c) = "promote"
      /\ UNCHANGED <<link, connections, crashed, requests, granted, demoted>>
  BY DEF Promote, Stage, StageOf
<1>10. CASE Promotable(r, d)
  <2>1. participants' = [participants EXCEPT ![r][d] = role] /\ d \in DOMAIN participants[r]
    BY <1>10 DEF Promote, Promotable, Has
  <2>2. role \in Roles /\ role.admin
    BY DEF Roles
  <2> HIDE DEF role
  <2>3. Seats(r, d, role) /\ d \in DOMAIN participants[r]
    BY <1>1, <1>4, <2>1, <2>2, SeatsExcept DEF Types
  <2>4. \A s \in Room : DOMAIN participants'[s] = DOMAIN participants[s]
    BY <2>3 DEF Seats
  <2>5. Relocks
    <3>1. CASE m \in DOMAIN members[r]
      <4> DEFINE record == [members[r][m] EXCEPT !.locked = FALSE]
      <4>1. members[r][m] \in Records
        BY <1>1, <1>4, <3>1, RecordTypes DEF Types
      <4>2. /\ record \in Records /\ record.admin = members[r][m].admin
            /\ record.revoked = members[r][m].revoked /\ record.ask = members[r][m].ask
        BY <4>1 DEF Records
      <4>3. members' = [members EXCEPT ![r][m] = record]
        BY <1>10, <3>1 DEF Promote, Has
      <4> HIDE DEF record
      <4>4. Writes(r, m, record)
        BY <1>1, <1>4, <3>1, <4>2, <4>3, WritesExcept DEF Types
      <4> QED BY <1>1, <1>4, <3>1, <4>2, <4>4, WritesLock DEF Types
    <3>2. CASE m \notin DOMAIN members[r]
      <4>1. members' = members
        BY <3>2 DEF Promote, Has
      <4> QED BY <1>1, <4>1 DEF Relocks, Types, MemberTypes
    <3> QED BY <3>1, <3>2
  <2>6. Goes(c, "promote", call[c].role)
    BY <1>8
  <2>7. /\ call[c].at = "promote" /\ Stage(c) = "promote"
        /\ UNCHANGED <<link, connections, crashed, requests, granted, demoted>>
    BY <1>9
  <2>8. m \in DOMAIN members[r] => ~members[r][m].revoked
    BY <1>10 DEF Promotable, Has
  <2>9. Types'
    BY <1>1, <2>3, <2>5, <2>6, <2>7 DEF Types, RequestTypes, HistoryTypes, Goes, Seats, Relocks
  <2>10. HomeOnly'
    BY <1>1, <2>4 DEF HomeOnly
  <2>11. Linked'
    BY <1>1, <2>4, <2>6, <2>7 DEF Linked, Goes
  <2>12. EntersRegistered'
    BY <1>1, <1>4, <2>4, <2>6, <2>7 DEF EntersRegistered, Stage, Goes
  <2>13. Limits'
    BY <1>1, LimitsShrink, <2>4, <2>7
  <2>14. ASSUME QuietTargets PROVE KickedMustAsk'
    BY <1>2, <2>14, <2>4, <2>7 DEF KickedMustAsk
  <2>15. ASSUME QuietTargets PROVE RecordsGranted'
    BY <1>2, <2>15, <2>5, <2>7 DEF RecordsGranted, Relocks
  <2>16. ASSUME QuietTargets PROVE ApprovalsGranted'
    BY <1>2, <2>16, <2>7 DEF ApprovalsGranted
  <2>17. ASSUME QuietTargets PROVE CallsGranted'
    BY <1>2, <2>17, <2>6, <2>7 DEF CallsGranted, Stage, Goes
  <2>18. ASSUME QuietTargets PROVE Recorded'
    BY <1>3, <1>2, <2>18, <2>4, <2>5, <2>6, <2>7 DEF Recorded, Stage, Goes, Relocks
  <2>19. ASSUME QuietTargets PROVE DemotedRecorded'
    BY <1>2, <2>19, <2>5, <2>7 DEF DemotedRecorded, Stripped, Relocks
  <2>20. ASSUME QuietTargets PROVE CallsDemoted'
    BY <1>2, <2>20, <2>6, <2>7 DEF CallsDemoted, Stripped, Stage, Goes
  <2>21. ASSUME QuietTargets PROVE DemotedStaysDemoted'
    BY <1>2, <2>21, <2>3, <2>7, <2>8 DEF DemotedStaysDemoted, Seats, DemotedRecorded, Stripped
  <2> QED BY <2>9, <2>10, <2>11, <2>12, <2>13, <2>14, <2>15, <2>16, <2>17, <2>18, <2>19, <2>20, <2>21
    DEF MembershipInv
<1>11. CASE ~Promotable(r, d)
  <2>1. Goes(c, "promote", call[c].role)
    BY <1>8
  <2>2. /\ call[c].at = "promote" /\ Stage(c) = "promote"
        /\ UNCHANGED <<link, connections, crashed, requests, granted, demoted>>
    BY <1>9
  <2>3. UNCHANGED <<participants, members>>
    BY <1>11 DEF Promote
  <2>4. Types'
    BY <1>1, <2>1, <2>2, <2>3 DEF Types, PeopleTypes, MemberTypes, RequestTypes, HistoryTypes, Goes
  <2>5. HomeOnly'
    BY <1>1, <2>3 DEF HomeOnly
  <2>6. Linked'
    BY <1>1, <2>1, <2>2, <2>3 DEF Linked, Goes
  <2>7. EntersRegistered'
    BY <1>1, <2>1, <2>2, <2>3 DEF EntersRegistered, Stage, Goes
  <2>8. Limits'
    BY <1>1, LimitsShrink, <2>2, <2>3
  <2>9. ASSUME QuietTargets PROVE KickedMustAsk'
    BY <1>2, <2>9, <2>2, <2>3 DEF KickedMustAsk
  <2>10. ASSUME QuietTargets PROVE RecordsGranted'
    BY <1>2, <2>10, <2>2, <2>3 DEF RecordsGranted
  <2>11. ASSUME QuietTargets PROVE ApprovalsGranted'
    BY <1>2, <2>11, <2>2 DEF ApprovalsGranted
  <2>12. ASSUME QuietTargets PROVE CallsGranted'
    BY <1>2, <2>12, <2>1, <2>2 DEF CallsGranted, Stage, Goes
  <2>13. ASSUME QuietTargets PROVE Recorded'
    BY <1>3, <1>2, <2>13, <2>1, <2>2, <2>3 DEF Recorded, Stage, Goes
  <2>14. ASSUME QuietTargets PROVE DemotedRecorded'
    BY <1>2, <2>14, <2>2, <2>3 DEF DemotedRecorded, Stripped
  <2>15. ASSUME QuietTargets PROVE CallsDemoted'
    BY <1>2, <2>15, <2>1, <2>2 DEF CallsDemoted, Stripped, Stage, Goes
  <2>16. ASSUME QuietTargets PROVE DemotedStaysDemoted'
    BY <1>2, <2>16, <2>2, <2>3 DEF DemotedStaysDemoted
  <2> QED BY <2>4, <2>5, <2>6, <2>7, <2>8, <2>9, <2>10, <2>11, <2>12, <2>13, <2>14, <2>15, <2>16 DEF
    MembershipInv
<1> QED BY <1>10, <1>11

LEMMA KeptByFinish ==
  ASSUME MembershipInv, NEW c \in Conn, Finish(c)
  PROVE  MembershipInv'
<1>1. Types /\ HomeOnly /\ Linked /\ EntersRegistered /\ Limits
  BY DEF MembershipInv
<1>2. QuietTargets => /\ KickedMustAsk /\ RecordsGranted /\ ApprovalsGranted /\ CallsGranted
                      /\ Recorded /\ DemotedRecorded /\ CallsDemoted /\ DemotedStaysDemoted
  BY DEF MembershipInv
<1>3. \A room \in Room : DOMAIN participants[room] \subseteq Conn
  BY <1>1, RoleTypes DEF Types
<1>4. \A conn \in Conn : Home[conn] \in Room /\ MemberOf[conn] \in Member
  BY MembershipAssumption
<1>5. Goes(c, "idle", Idle.role)
  BY <1>1, IdleTypes, CallGoes DEF Finish, Types
<1>6. /\ call[c].at = "promote" /\ Stage(c) = "promote"
      /\ UNCHANGED <<crashed, participants, members, granted, demoted>>
  BY DEF Finish, Stage, StageOf
<1>7. CASE link[c] = "closing"
  <2>1. Goes(c, "idle", Idle.role)
    BY <1>5
  <2>2. /\ call[c].at = "promote" /\ Stage(c) = "promote"
        /\ UNCHANGED <<crashed, participants, members, granted, demoted>>
    BY <1>6
  <2>3. /\ link' = [link EXCEPT ![c] = "closed"] /\ connections' = connections \ {c}
        /\ link[c] = "closing" /\ call'[c].at = "idle"
    BY <1>1, <1>7 DEF Finish, Idle, Types, CallTypes
  <2>4. requests' = requests => ApprovesNone
    BY <1>1 DEF ApprovesNone, RequestTypes, Types
  <2>5. requests' = requests \/ requests' = RequestsWithout(Home[c], c)
    BY DEF Finish
  <2>6. ApprovesNone
    BY <1>1, <2>4, <2>5, RequestCleared DEF Types
  <2>7. Types'
    BY <1>1, <2>1, <2>2, <2>3, <2>6 DEF Types, PeopleTypes, MemberTypes, HistoryTypes, Goes,
      ApprovesNone, Links
  <2>8. HomeOnly'
    BY <1>1, <2>2 DEF HomeOnly
  <2>9. Linked'
    BY <1>1, <2>1, <2>2, <2>3 DEF Linked, Goes
  <2>10. EntersRegistered'
    BY <1>1, <2>1, <2>2, <2>3 DEF EntersRegistered, Stage, Goes
  <2>11. Limits'
    BY <1>1, LimitsShrink, <2>2, <2>3
  <2>12. ASSUME QuietTargets PROVE KickedMustAsk'
    BY <1>2, <2>12, <2>2 DEF KickedMustAsk
  <2>13. ASSUME QuietTargets PROVE RecordsGranted'
    BY <1>2, <2>13, <2>2 DEF RecordsGranted
  <2>14. ASSUME QuietTargets PROVE ApprovalsGranted'
    BY <1>2, <2>14, <2>2, <2>6 DEF ApprovalsGranted, ApprovesNone
  <2>15. ASSUME QuietTargets PROVE CallsGranted'
    BY <1>2, <2>15, <2>1, <2>2 DEF CallsGranted, Stage, Goes
  <2>16. ASSUME QuietTargets PROVE Recorded'
    BY <1>3, <1>2, <2>16, <2>1, <2>2, <2>3 DEF Recorded, Stage, Goes
  <2>17. ASSUME QuietTargets PROVE DemotedRecorded'
    BY <1>2, <2>17, <2>2 DEF DemotedRecorded, Stripped
  <2>18. ASSUME QuietTargets PROVE CallsDemoted'
    BY <1>2, <2>18, <2>1, <2>2 DEF CallsDemoted, Stripped, Stage, Goes
  <2>19. ASSUME QuietTargets PROVE DemotedStaysDemoted'
    BY <1>2, <2>19, <2>2 DEF DemotedStaysDemoted
  <2> QED BY <2>7, <2>8, <2>9, <2>10, <2>11, <2>12, <2>13, <2>14, <2>15, <2>16, <2>17, <2>18, <2>19 DEF
    MembershipInv
<1>8. CASE link[c] # "closing"
  <2>1. Goes(c, "idle", Idle.role)
    BY <1>5
  <2>2. /\ call[c].at = "promote" /\ Stage(c) = "promote"
        /\ UNCHANGED <<link, connections, requests, crashed, participants, members, granted, demoted>>
    BY <1>8, <1>6 DEF Finish
  <2>3. Types'
    BY <1>1, <2>1, <2>2 DEF Types, PeopleTypes, MemberTypes, RequestTypes, HistoryTypes, Goes
  <2>4. HomeOnly'
    BY <1>1, <2>2 DEF HomeOnly
  <2>5. Linked'
    BY <1>1, <2>1, <2>2 DEF Linked, Goes
  <2>6. EntersRegistered'
    BY <1>1, <2>1, <2>2 DEF EntersRegistered, Stage, Goes
  <2>7. Limits'
    BY <1>1, LimitsShrink, <2>2
  <2>8. ASSUME QuietTargets PROVE KickedMustAsk'
    BY <1>2, <2>8, <2>2 DEF KickedMustAsk
  <2>9. ASSUME QuietTargets PROVE RecordsGranted'
    BY <1>2, <2>9, <2>2 DEF RecordsGranted
  <2>10. ASSUME QuietTargets PROVE ApprovalsGranted'
    BY <1>2, <2>10, <2>2 DEF ApprovalsGranted
  <2>11. ASSUME QuietTargets PROVE CallsGranted'
    BY <1>2, <2>11, <2>1, <2>2 DEF CallsGranted, Stage, Goes
  <2>12. ASSUME QuietTargets PROVE Recorded'
    BY <1>3, <1>2, <2>12, <2>1, <2>2 DEF Recorded, Stage, Goes
  <2>13. ASSUME QuietTargets PROVE DemotedRecorded'
    BY <1>2, <2>13, <2>2 DEF DemotedRecorded, Stripped
  <2>14. ASSUME QuietTargets PROVE CallsDemoted'
    BY <1>2, <2>14, <2>1, <2>2 DEF CallsDemoted, Stripped, Stage, Goes
  <2>15. ASSUME QuietTargets PROVE DemotedStaysDemoted'
    BY <1>2, <2>15, <2>2 DEF DemotedStaysDemoted
  <2> QED BY <2>3, <2>4, <2>5, <2>6, <2>7, <2>8, <2>9, <2>10, <2>11, <2>12, <2>13, <2>14, <2>15 DEF
    MembershipInv
<1> QED BY <1>7, <1>8

LEMMA MembershipStep == MembershipInv /\ [Next]_vars => MembershipInv'
<1> SUFFICES ASSUME MembershipInv, [Next]_vars PROVE MembershipInv'
  OBVIOUS
<1>1. ASSUME NEW c \in Conn, HubStep(c) PROVE MembershipInv'
  BY <1>1, KeptByBeginJoin, KeptByReadRequest, KeptByAskAdmins, KeptByForget, KeptByLook, KeptByAdmit,
    KeptByReadBack, KeptBySaveJoined, KeptByClearRequest, KeptBySaveLeaving, KeptByRemove,
    KeptByFinish, KeptBySaveLock, KeptByPromote DEF HubStep
<1>2. ASSUME NEW c \in Conn, Connect(c) \/ Lose(c) \/ Disconnect(c) \/ CancelJoinRequest(c) \/ BeginLeave(c)
      PROVE  MembershipInv'
  BY <1>2, KeptByConnect, KeptByLose, KeptByDisconnect, KeptByCancelJoinRequest, KeptByBeginLeave
<1>3. CASE Crash \/ LeaseExpires \/ \E r \in Room : Prune(r)
  BY <1>3, KeptByCrash, KeptByLeaseExpires, KeptByPrune
<1>4. CASE \E m \in Member, r \in Room : LeaveByTicket(m, r)
  BY <1>4, KeptByLeaveByTicket
<1>5. ASSUME NEW a \in Conn, NEW m \in Member, Approve(a, m) \/ Reject(a, m) PROVE MembershipInv'
  BY <1>5, KeptByApprove, KeptByReject
<1>6. ASSUME NEW a \in Conn, NEW t \in Conn,
             ToggleLock(a, t) \/ Kick(a, t) \/ \E b \in BOOLEAN : SetAdmin(a, t, b)
      PROVE  MembershipInv'
  BY <1>6, KeptByToggleLock, KeptByKick, KeptBySetAdmin
<1>7. CASE UNCHANGED vars
  <2>1. UNCHANGED <<link, call, connections, crashed, participants, members, requests, granted, demoted>>
    BY <1>7 DEF vars, stored
  <2>2. Types'
    BY <2>1 DEF MembershipInv, Types, CallTypes, PeopleTypes, MemberTypes, RequestTypes, HistoryTypes
  <2>3. HomeOnly' /\ Linked' /\ EntersRegistered' /\ Limits'
    BY <2>1 DEF MembershipInv, HomeOnly, Linked, EntersRegistered, Stage, Limits
  <2>4. ASSUME QuietTargets
        PROVE  KickedMustAsk' /\ RecordsGranted' /\ ApprovalsGranted' /\ CallsGranted'
    BY <2>1, <2>4 DEF MembershipInv, KickedMustAsk, RecordsGranted, ApprovalsGranted, CallsGranted,
      Stage
  <2>5. ASSUME QuietTargets
        PROVE  Recorded' /\ DemotedRecorded' /\ CallsDemoted' /\ DemotedStaysDemoted'
    BY <2>1, <2>5 DEF MembershipInv, Recorded, DemotedRecorded, CallsDemoted, DemotedStaysDemoted,
      Stripped, Stage
  <2> QED BY <2>2, <2>3, <2>4, <2>5 DEF MembershipInv
<1> QED BY <1>1, <1>2, <1>3, <1>4, <1>5, <1>6, <1>7 DEF Next

LEMMA MembershipAlways == Spec => []MembershipInv
BY MembershipInit, MembershipStep, PTL DEF Spec

-----------------------------------------------------------------------------
(* Theorems                                                                      *)

\* A room never holds more people, and the instance that runs never more
\* connections, than the options allow: not when joins that passed the checks
\* together, promotions, prunings and a crash interleave (AdmitParticipant checks
\* and adds in one script, and finds a participant that is there registered).
THEOREM RoomsStayWithinLimits == Spec => []WithinLimits
<1>1. MembershipInv => WithinLimits
  BY DEF MembershipInv, Limits, WithinLimits
<1> QED BY <1>1, MembershipAlways, PTL

\* Where the member an admin acts on has no call under way, a kicked member is in
\* its room only after an admin approved a request it made later, or nobody was
\* left who could: no record, no approved request and no call that has read one
\* of them lets it in (RemoveParticipant with KickParticipant, ResolveJoinAdmission).
THEOREM KickedMembersAsk == ASSUME QuietTargets PROVE Spec => []KickedMustAsk
<1>1. MembershipInv => KickedMustAsk
  BY DEF MembershipInv
<1> QED BY <1>1, MembershipAlways, PTL

\* Where that member is connected too, a demoted admin stays one without the role
\* until an admin promotes it: neither what is remembered of it nor what a call
\* of it carries gives the role back (SetParticipantAdminScript, PromoteParticipant).
THEOREM DemotedMembersStay == ASSUME QuietTargets PROVE Spec => []DemotedStaysDemoted
<1>1. MembershipInv => DemotedStaysDemoted
  BY DEF MembershipInv
<1> QED BY <1>1, MembershipAlways, PTL
=============================================================================
