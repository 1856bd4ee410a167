---------------------- MODULE ExecutionServicesProofs -----------------------
(* Proofs about the services that run programs for a room, each for any values   *)
(* of its constants. A part is proved with an inductive invariant of its own;    *)
(* the theorems name the properties as ExecutionServices does.                   *)
EXTENDS ExecutionServices, Integers, Sequences, FiniteSetTheorems, SequenceTheorems, TLAPS

-----------------------------------------------------------------------------
(* Sets and sequences                                                            *)

LEMMA OneMore ==
  ASSUME NEW S, NEW R, IsFiniteSet(S), NEW x, x \notin S, R = S \cup {x}
  PROVE  IsFiniteSet(R) /\ Cardinality(R) = Cardinality(S) + 1
BY FS_AddElement

LEMMA OneLess ==
  ASSUME NEW S, NEW R, IsFiniteSet(S), NEW x \in S, R = S \ {x}
  PROVE  IsFiniteSet(R) /\ Cardinality(R) = Cardinality(S) - 1
BY FS_RemoveElement

\* What numbers up to n have been given: the next one is free.
LEMMA NextNumber ==
  ASSUME NEW M \in Nat, NEW n \in 0..M, NEW S, S = {s \in 1..M : s <= n}
  PROVE  Cardinality(S) = n
<1>1. S = 1..n
  OBVIOUS
<1>2. n \in Nat
  OBVIOUS
<1>3. Cardinality(1..n) = IF 1 > n THEN 0 ELSE n - 1 + 1
  BY <1>2, FS_Interval
<1>4. Cardinality(1..n) = n
  BY <1>2, <1>3
<1> QED BY <1>1, <1>4

LEMMA Queued ==
  ASSUME NEW S, NEW q \in Seq(S), NEW x \in S
  PROVE  /\ Append(q, x) \in Seq(S) /\ DOMAIN q = 1..Len(q) /\ Len(q) \in Nat
         /\ DOMAIN Append(q, x) = 1..(Len(q) + 1)
         /\ \A i \in 1..Len(q) : Append(q, x)[i] = q[i]
         /\ Append(q, x)[Len(q) + 1] = x
OBVIOUS

LEMMA Unqueued ==
  ASSUME NEW S, NEW q \in Seq(S), q # <<>>
  PROVE  /\ Tail(q) \in Seq(S) /\ DOMAIN q = 1..Len(q) /\ Len(q) \in Nat \ {0}
         /\ DOMAIN Tail(q) = 1..(Len(q) - 1)
         /\ \A i \in 1..(Len(q) - 1) : Tail(q)[i] = q[i + 1]
         /\ Head(q) = q[1] /\ Head(q) \in S
OBVIOUS

-----------------------------------------------------------------------------
(* TerminalSessions: a session is shown, under way or lost, and its places are    *)
(* taken from its start to the first of its watcher and its disposal.             *)

Calls == {"start", "close"} \X Terminals!Session
Tabs == {"none", "pending", "cancelled", "abandoned", "open", "closing", "closed"}
Stages == {"none", "asked", "room", "slot", "refused", "live", "closing", "gone"}
HubCalls == {Terminals!Idle} \cup [at : {"starting", "refusing", "closing"}, s : Terminals!Session]

HubTypes == tHub \in [TerminalsConn -> HubCalls]
AskTypes == tAsked \in [TerminalsConn -> Seq(Calls)]
TerminalTypes ==
  /\ HubTypes /\ AskTypes /\ tUp \subseteq TerminalsConn /\ tRegistry \subseteq Terminals!Session
  /\ tOwner \in [Terminals!Session -> TerminalsConn \cup {"nobody"}]
  /\ tTab \in [Terminals!Session -> Tabs] /\ tStage \in [Terminals!Session -> Stages]
  /\ tProgram \in [Terminals!Session -> {"none", "runs", "ended"}]

\* Sessions are numbered in the order they are asked for.
Numbered == \E n \in 0..TerminalsMaxStarts : \A s \in Terminals!Session : tTab[s] # "none" <=> s <= n

\* A session that was not asked for is nowhere.
Fresh ==
  /\ \A s \in tRegistry : tTab[s] # "none"
  /\ \A s \in Terminals!Session : tStage[s] # "none" => tTab[s] # "none"
  /\ \A c \in TerminalsConn : tHub[c] # Terminals!Idle => tTab[tHub[c].s] # "none"

\* A start is asked for once, by the connection it is for.
StartsOnce ==
  \A c \in TerminalsConn : \A i \in DOMAIN tAsked[c] : \A s \in Terminals!Session :
    tAsked[c][i] = <<"start", s>> =>
      /\ tStage[s] = "none" /\ tTab[s] # "none" /\ tOwner[s] = c
      /\ \A j \in DOMAIN tAsked[c] : tAsked[c][j] = <<"start", s>> => j = i

\* The hub waits for a session that starts.
Awaited ==
  \A s \in Terminals!Session :
    tStage[s] \in {"asked", "room", "slot"} /\ s \notin tLost =>
      \E c \in TerminalsConn : tHub[c].at = "starting" /\ tHub[c].s = s

\* Who has a program, and who has given its places back.
Programs ==
  \A s \in Terminals!Session :
    /\ tStage[s] \in {"none", "asked", "room", "slot", "refused"} => tProgram[s] = "none"
    /\ s \in tReleased => tProgram[s] = "ended"
    /\ s \in tWatched \/ tStage[s] = "gone" => s \in tReleased

Holding(at) ==
  {s \in Terminals!Session : tStage[s] \in at \/ (tProgram[s] # "none" /\ s \notin tReleased)}

\* The counters count the sessions that have a place.
Slots == tSlots = Cardinality(Holding({"slot"}))
Rooms == tRoom = Cardinality(Holding({"room", "slot"}))

TerminalInv ==
  /\ TerminalTypes /\ Numbered /\ Fresh /\ StartsOnce /\ Awaited /\ Programs /\ Slots /\ Rooms
  /\ Terminals!NoSilentOrphans

LEMMA TerminalBounds == TerminalsMaxStarts \in Nat
BY ExecutionAssumption DEF Terminals!TerminalAssumption

LEMMA HoldingFinite == \A at : IsFiniteSet(Holding(at))
<1>1. IsFiniteSet(1..TerminalsMaxStarts)
  BY TerminalBounds, FS_Interval
<1> QED BY <1>1, FS_Subset DEF Holding, Terminals!Session

\* The instance counts as this module does.
LEMMA TerminalCardinality == \A S : Terminals!Cardinality(S) = Cardinality(S)
BY DEF Terminals!Cardinality, Cardinality

\* What makes a session known: a call about it, or its entry in the registry.
InHub(k) == \E c \in TerminalsConn : tHub[c].s = k
Wanted(k) ==
  \/ tTab[k] \in {"open", "closing"}
  \/ \E i \in DOMAIN tAsked[tOwner[k]] : tAsked[tOwner[k]][i] = <<"close", k>>
Entered(k) == k \in tRegistry /\ (tOwner[k] \notin tUp \/ Wanted(k))

LEMMA OrphansKept ==
  ASSUME Terminals!NoSilentOrphans,
         \A k \in Terminals!Session : tStage'[k] = "live" /\ k \notin tLost' =>
           \/ InHub(k)' \/ Entered(k)'
           \/ /\ tStage[k] = "live" /\ k \notin tLost
              /\ InHub(k) => InHub(k)'
              /\ Entered(k) => Entered(k)'
  PROVE  Terminals!NoSilentOrphans'
BY DEF Terminals!NoSilentOrphans, InHub, Entered, Wanted

\* An action that gives no terminal a number keeps the numbers.
LEMMA NumbersKept ==
  ASSUME Numbered, \A s \in Terminals!Session : tTab'[s] # "none" <=> tTab[s] # "none"
  PROVE  Numbered'
BY DEF Numbered

\* What was asked for is still asked for once when no call comes or goes.
LEMMA StartsKept ==
  ASSUME StartsOnce, tAsked' = tAsked, tOwner' = tOwner,
         \A s \in Terminals!Session : tTab[s] # "none" => tTab'[s] # "none",
         \A s \in Terminals!Session : tStage[s] = "none" => tStage'[s] = "none"
  PROVE  StartsOnce'
BY DEF StartsOnce

\* Places that are neither taken nor given back.
LEMMA PlacesKept ==
  ASSUME Slots, Rooms, tSlots' = tSlots, tRoom' = tRoom,
         Holding({"slot"})' = Holding({"slot"}), Holding({"room", "slot"})' = Holding({"room", "slot"})
  PROVE  Slots' /\ Rooms'
BY DEF Slots, Rooms

\* A session that gives both of its places back.
LEMMA PlacesBack ==
  ASSUME Slots, Rooms, NEW s \in Holding({"slot"}), s \in Holding({"room", "slot"}),
         tSlots' = tSlots - 1, tRoom' = tRoom - 1, Holding({"slot"})' = Holding({"slot"}) \ {s},
         Holding({"room", "slot"})' = Holding({"room", "slot"}) \ {s}
  PROVE  Slots' /\ Rooms'
<1>1. IsFiniteSet(Holding({"slot"})) /\ IsFiniteSet(Holding({"room", "slot"}))
  BY HoldingFinite
<1>2. Cardinality(Holding({"slot"}) \ {s}) = Cardinality(Holding({"slot"})) - 1
  BY <1>1, OneLess
<1>3. Cardinality(Holding({"room", "slot"}) \ {s}) = Cardinality(Holding({"room", "slot"})) - 1
  BY <1>1, OneLess
<1> QED BY <1>2, <1>3 DEF Slots, Rooms

LEMMA TerminalCreateBashTab ==
  ASSUME TerminalInv, NEW c \in TerminalsConn, Terminals!CreateBashTab(c)
  PROVE  TerminalInv'
<1>1. /\ Terminals!started \in Nat /\ Terminals!started + 1 \in Terminals!Session
      /\ \A k \in Terminals!Session : tTab[k] # "none" <=> k <= Terminals!started
  <2>1. PICK n \in 0..TerminalsMaxStarts : \A k \in Terminals!Session : tTab[k] # "none" <=> k <= n
    BY DEF TerminalInv, Numbered
  <2>2. {k \in Terminals!Session : tTab[k] # "none"} = {k \in 1..TerminalsMaxStarts : k <= n}
    BY <2>1 DEF Terminals!Session
  <2>3. Cardinality({k \in Terminals!Session : tTab[k] # "none"}) = n
    BY <2>1, <2>2, TerminalBounds, NextNumber
  <2>4. Terminals!started = Cardinality({k \in Terminals!Session : tTab[k] # "none"})
    BY TerminalCardinality DEF Terminals!started
  <2>5. Terminals!started = n
    BY <2>3, <2>4
  <2> QED BY <2>1, <2>5, TerminalBounds DEF Terminals!Session, Terminals!CreateBashTab
<1>2. PICK s \in Terminals!Session : s = Terminals!started + 1
  BY <1>1
<1>3. tTab[s] = "none" /\ tStage[s] = "none" /\ s \notin tRegistry
  BY <1>1, <1>2 DEF TerminalInv, Fresh
<1>4. PICK q \in Seq(Calls) : q = tAsked[c]
  BY DEF TerminalInv, TerminalTypes, AskTypes
<1>5. /\ \A d \in TerminalsConn : d # c => tAsked'[d] = tAsked[d]
      /\ tAsked'[c] = Append(q, <<"start", s>>)
  BY <1>2, <1>4 DEF TerminalInv, TerminalTypes, AskTypes, Terminals!CreateBashTab
<1>6. <<"start", s>> \in Calls
  BY DEF Calls
<1>7. /\ Append(q, <<"start", s>>) \in Seq(Calls)
      /\ DOMAIN Append(q, <<"start", s>>) = 1..(Len(q) + 1)
      /\ DOMAIN q = 1..Len(q) /\ Len(q) \in Nat
      /\ \A i \in 1..Len(q) : Append(q, <<"start", s>>)[i] = q[i]
      /\ Append(q, <<"start", s>>)[Len(q) + 1] = <<"start", s>>
  BY <1>4, <1>6, Queued
<1>8. /\ \A k \in Terminals!Session : tTab'[k] = IF k = s THEN "pending" ELSE tTab[k]
      /\ \A k \in Terminals!Session : tOwner'[k] = IF k = s THEN c ELSE tOwner[k]
  BY <1>2 DEF TerminalInv, TerminalTypes, Terminals!CreateBashTab
<1>9. UNCHANGED <<tStage, tHub, tRegistry, tUp, tLost, tProgram>>
  BY DEF Terminals!CreateBashTab, Terminals!service
<1>10. TerminalTypes'
  <2>1. tAsked' \in [TerminalsConn -> Seq(Calls)]
    BY <1>2, <1>4, <1>7 DEF TerminalInv, TerminalTypes, AskTypes, Terminals!CreateBashTab
  <2>2. /\ tTab' \in [Terminals!Session -> Tabs]
        /\ tOwner' \in [Terminals!Session -> TerminalsConn \cup {"nobody"}]
    BY DEF TerminalInv, TerminalTypes, Tabs, Terminals!CreateBashTab
  <2> QED BY <1>9, <2>1, <2>2 DEF TerminalInv, TerminalTypes, HubTypes, AskTypes
<1>11. Numbered'
  <2>1. Terminals!started + 1 \in 0..TerminalsMaxStarts
    BY <1>1, TerminalBounds DEF Terminals!Session
  <2>2. \A k \in Terminals!Session : tTab'[k] # "none" <=> k <= Terminals!started + 1
    BY <1>1, <1>2, <1>8 DEF Terminals!Session
  <2> QED BY <2>1, <2>2 DEF Numbered
<1>12. Fresh'
  BY DEF TerminalInv, TerminalTypes, HubTypes, AskTypes, HubCalls, Calls, Tabs, Stages, Fresh,
    Terminals!CreateBashTab, Terminals!Session, Terminals!Idle, Terminals!service
<1>13. StartsOnce'
  <2>1. \A d \in TerminalsConn : \A i \in DOMAIN tAsked[d] : tAsked[d][i] # <<"start", s>>
    BY <1>3 DEF TerminalInv, StartsOnce
  <2>2. \A k \in Terminals!Session : <<"start", s>> = <<"start", k>> => s = k
    OBVIOUS
  <2>3. \A i \in DOMAIN Append(q, <<"start", s>>) : \A k \in Terminals!Session :
          Append(q, <<"start", s>>)[i] = <<"start", k>> =>
          \/ k # s /\ i \in DOMAIN q /\ q[i] = <<"start", k>>
          \/ k = s /\ i = Len(q) + 1
    BY <1>4, <1>7, <2>1, <2>2
  <2>4. \A d \in TerminalsConn : \A i \in DOMAIN tAsked'[d] : \A k \in Terminals!Session :
          tAsked'[d][i] = <<"start", k>> =>
          \/ k # s /\ i \in DOMAIN tAsked[d] /\ tAsked[d][i] = <<"start", k>>
          \/ k = s /\ d = c /\ i = Len(q) + 1
    BY <1>4, <1>5, <2>1, <2>3
  <2> QED BY <1>3, <1>8, <1>9, <2>4 DEF TerminalInv, StartsOnce
<1>14. Awaited'
  BY DEF TerminalInv, TerminalTypes, HubTypes, AskTypes, HubCalls, Calls, Tabs, Stages, Awaited,
    Terminals!CreateBashTab, Terminals!Session, Terminals!Idle, Terminals!service
<1>15. Programs'
  BY DEF TerminalInv, TerminalTypes, HubTypes, AskTypes, HubCalls, Calls, Tabs, Stages, Programs,
    Terminals!CreateBashTab, Terminals!Session, Terminals!Idle, Terminals!service
<1>16. Slots'
  BY DEF TerminalInv, TerminalTypes, HubTypes, AskTypes, HubCalls, Calls, Tabs, Stages, Slots, Holding,
    Terminals!CreateBashTab, Terminals!Session, Terminals!Idle, Terminals!service
<1>17. Rooms'
  BY DEF TerminalInv, TerminalTypes, HubTypes, AskTypes, HubCalls, Calls, Tabs, Stages, Rooms, Holding,
    Terminals!CreateBashTab, Terminals!Session, Terminals!Idle, Terminals!service
<1>18. Terminals!NoSilentOrphans'
  <2>1. \A i \in DOMAIN q : i \in DOMAIN Append(q, <<"start", s>>) /\ Append(q, <<"start", s>>)[i] = q[i]
    BY <1>7
  <2>2. \A k \in Terminals!Session : k # s /\ tOwner[k] \in TerminalsConn /\ Wanted(k) => Wanted(k)'
    <3>1. \A k \in Terminals!Session : k # s => tOwner'[k] = tOwner[k] /\ tTab'[k] = tTab[k]
      BY <1>8
    <3>2. \A d \in TerminalsConn : \A i \in DOMAIN tAsked[d] :
                i \in DOMAIN tAsked'[d] /\ tAsked'[d][i] = tAsked[d][i]
      BY <1>4, <1>5, <2>1
    <3> QED BY <3>1, <3>2 DEF Wanted
  <2>3. \A k \in Terminals!Session : (InHub(k) => InHub(k)') /\ (Entered(k) => Entered(k)')
    BY <1>3, <1>8, <1>9, <2>2 DEF TerminalInv, TerminalTypes, InHub, Entered
  <2> QED BY <1>9, <2>3, OrphansKept DEF TerminalInv
<1> QED BY <1>10, <1>11, <1>12, <1>13, <1>14, <1>15, <1>16, <1>17, <1>18 DEF TerminalInv

LEMMA TerminalUnmount ==
  ASSUME TerminalInv, NEW c \in TerminalsConn, Terminals!Unmount(c)
  PROVE  TerminalInv'
<1>1. TerminalTypes'
  BY DEF TerminalInv, TerminalTypes, HubTypes, AskTypes, HubCalls, Calls, Tabs, Stages,
    Terminals!Unmount, Terminals!Session, Terminals!Idle, Terminals!service
<1>2. Numbered'
  BY DEF TerminalInv, TerminalTypes, HubTypes, AskTypes, HubCalls, Calls, Tabs, Stages, Numbered,
    Terminals!Unmount, Terminals!Session, Terminals!Idle, Terminals!service
<1>3. Fresh'
  BY DEF TerminalInv, TerminalTypes, HubTypes, AskTypes, HubCalls, Calls, Tabs, Stages, Fresh,
    Terminals!Unmount, Terminals!Session, Terminals!Idle, Terminals!service
<1>4. StartsOnce'
  BY DEF TerminalInv, TerminalTypes, HubTypes, AskTypes, HubCalls, Calls, Tabs, Stages, StartsOnce,
    Terminals!Unmount, Terminals!Session, Terminals!Idle, Terminals!service
<1>5. Awaited'
  BY DEF TerminalInv, TerminalTypes, HubTypes, AskTypes, HubCalls, Calls, Tabs, Stages, Awaited,
    Terminals!Unmount, Terminals!Session, Terminals!Idle, Terminals!service
<1>6. Programs'
  BY DEF TerminalInv, TerminalTypes, HubTypes, AskTypes, HubCalls, Calls, Tabs, Stages, Programs,
    Terminals!Unmount, Terminals!Session, Terminals!Idle, Terminals!service
<1>7. Slots'
  BY DEF TerminalInv, TerminalTypes, HubTypes, AskTypes, HubCalls, Calls, Tabs, Stages, Slots, Holding,
    Terminals!Unmount, Terminals!Session, Terminals!Idle, Terminals!service
<1>8. Rooms'
  BY DEF TerminalInv, TerminalTypes, HubTypes, AskTypes, HubCalls, Calls, Tabs, Stages, Rooms, Holding,
    Terminals!Unmount, Terminals!Session, Terminals!Idle, Terminals!service
<1>9. Terminals!NoSilentOrphans'
  BY DEF TerminalInv, TerminalTypes, HubTypes, AskTypes, HubCalls, Calls, Tabs, Stages,
    Terminals!NoSilentOrphans, Terminals!Unmount, Terminals!Session, Terminals!Idle, Terminals!service
<1> QED BY <1>1, <1>2, <1>3, <1>4, <1>5, <1>6, <1>7, <1>8, <1>9 DEF TerminalInv

LEMMA TerminalBeginCall ==
  ASSUME TerminalInv, NEW c \in TerminalsConn, Terminals!BeginCall(c)
  PROVE  TerminalInv'
<1>1. PICK q \in Seq(Calls) : q = tAsked[c] /\ q # <<>>
  BY DEF TerminalInv, TerminalTypes, AskTypes, Terminals!BeginCall
<1>2. PICK call \in Calls : call = Head(q) /\ call = q[1]
  BY <1>1, Unqueued
<1>3. /\ DOMAIN q = 1..Len(q) /\ Len(q) \in Nat \ {0}
      /\ Tail(q) \in Seq(Calls) /\ DOMAIN Tail(q) = 1..(Len(q) - 1)
      /\ \A i \in 1..(Len(q) - 1) : Tail(q)[i] = q[i + 1]
  BY <1>1, Unqueued
<1>4. tAsked'[c] = Tail(q) /\ \A d \in TerminalsConn : d # c => tAsked'[d] = tAsked[d]
  BY <1>1 DEF TerminalInv, TerminalTypes, AskTypes, Terminals!BeginCall
<1>5. /\ tHub[c] = Terminals!Idle
      /\ UNCHANGED <<tUp, tOwner, tTab, tProgram, tLost, tReleased, tWatched, tRoom, tSlots>>
  BY DEF Terminals!BeginCall
<1>6. call[2] \in Terminals!Session /\ call[1] \in {"start", "close"} /\ call = <<call[1], call[2]>>
  BY <1>2 DEF Calls
<1>7. PICK s \in Terminals!Session : s = call[2]
  BY <1>6
<1>8. \A j \in Terminals!Session : tHub[c].s # j
  BY <1>5 DEF Terminals!Idle, Terminals!Session
<1>9. \/ /\ call = <<"start", s>> /\ tRegistry' = tRegistry
         /\ \A d \in TerminalsConn : tHub'[d] = IF d = c THEN [at |-> "starting", s |-> s] ELSE tHub[d]
         /\ \A k \in Terminals!Session : tStage'[k] = IF k = s THEN "asked" ELSE tStage[k]
      \/ /\ call = <<"close", s>> /\ tRegistry' = tRegistry \ {s} /\ tStage' = tStage
         /\ \A d \in TerminalsConn :
                 tHub'[d] = IF d = c /\ s \in tRegistry THEN [at |-> "closing", s |-> s] ELSE tHub[d]
  <2>1. CASE call[1] = "start"
    BY <1>1, <1>2, <1>6, <1>7, <2>1 DEF TerminalInv, TerminalTypes, HubTypes, Terminals!BeginCall
  <2>2. CASE call[1] = "close"
    BY <1>1, <1>2, <1>6, <1>7, <2>2 DEF TerminalInv, TerminalTypes, HubTypes, Terminals!BeginCall
  <2> QED BY <1>6, <2>1, <2>2
<1>10. /\ tHub' \in [TerminalsConn -> HubCalls] /\ tStage' \in [Terminals!Session -> Stages]
       /\ tAsked' \in [TerminalsConn -> Seq(Calls)]
  <2>1. tHub' \in [TerminalsConn -> HubCalls] /\ tStage' \in [Terminals!Session -> Stages]
    BY <1>1, <1>2, <1>6 DEF TerminalInv, TerminalTypes, HubTypes, HubCalls, Stages, Terminals!BeginCall
  <2>2. tAsked' \in [TerminalsConn -> Seq(Calls)]
    BY <1>1, <1>3 DEF TerminalInv, TerminalTypes, AskTypes, Terminals!BeginCall
  <2> QED BY <2>1, <2>2
<1>11. call = <<"start", s>> =>
       /\ tStage[s] = "none" /\ tTab[s] # "none" /\ tOwner[s] = c
       /\ \A j \in DOMAIN q : q[j] = <<"start", s>> => j = 1
  BY <1>1, <1>2, <1>3 DEF TerminalInv, StartsOnce
<1>12. TerminalTypes'
  BY <1>5, <1>9, <1>10 DEF TerminalInv, TerminalTypes, HubTypes, AskTypes
<1>13. Numbered'
  BY DEF TerminalInv, TerminalTypes, HubTypes, AskTypes, HubCalls, Calls, Tabs, Stages, Numbered,
    Terminals!BeginCall, Terminals!Session, Terminals!Idle, Terminals!service
<1>14. Fresh'
  <2>1. \A d \in TerminalsConn : tHub'[d] # Terminals!Idle =>
           tHub'[d] = tHub[d] \/ (tHub'[d].s = s /\ tTab[s] # "none")
    BY <1>9, <1>11 DEF TerminalInv, Fresh
  <2> QED BY <1>5, <1>9, <1>11, <2>1 DEF TerminalInv, Fresh
<1>15. StartsOnce'
  <2>1. \A i \in DOMAIN Tail(q) : i + 1 \in DOMAIN q /\ Tail(q)[i] = q[i + 1] /\ i + 1 # 1 /\ i \in Int
    BY <1>3
  <2>2. ASSUME NEW i \in DOMAIN Tail(q), NEW k \in Terminals!Session, Tail(q)[i] = <<"start", k>>
        PROVE  /\ tStage[k] = "none" /\ tTab[k] # "none" /\ tOwner[k] = c
               /\ \A h \in DOMAIN Tail(q) : Tail(q)[h] = <<"start", k>> => h = i
               /\ call = <<"start", s>> => k # s
    <3>1. i + 1 \in DOMAIN tAsked[c] /\ tAsked[c][i + 1] = <<"start", k>>
      BY <1>1, <2>1, <2>2
    <3>2. /\ tStage[k] = "none" /\ tTab[k] # "none" /\ tOwner[k] = c
          /\ \A h \in DOMAIN tAsked[c] : tAsked[c][h] = <<"start", k>> => h = i + 1
      BY <3>1 DEF TerminalInv, StartsOnce
    <3>3. \A h \in DOMAIN Tail(q) : Tail(q)[h] = <<"start", k>> => h + 1 = i + 1
      BY <1>1, <2>1, <3>2
    <3>4. \A h \in DOMAIN Tail(q) : Tail(q)[h] = <<"start", k>> => h = i
      BY <2>1, <3>3
    <3>5. call = <<"start", s>> /\ k = s => i + 1 = 1
      BY <1>1, <1>11, <3>1
    <3> QED BY <2>1, <3>2, <3>4, <3>5
  <2>3. ASSUME NEW d \in TerminalsConn, d # c, NEW i \in DOMAIN tAsked[d], NEW k \in Terminals!Session,
               tAsked[d][i] = <<"start", k>>
        PROVE  /\ tStage[k] = "none" /\ tTab[k] # "none" /\ tOwner[k] = d
               /\ \A h \in DOMAIN tAsked[d] : tAsked[d][h] = <<"start", k>> => h = i
               /\ call = <<"start", s>> => k # s
    BY <1>11, <2>3 DEF TerminalInv, StartsOnce
  <2>4. ASSUME NEW d \in TerminalsConn, NEW i \in DOMAIN tAsked'[d], NEW k \in Terminals!Session,
               tAsked'[d][i] = <<"start", k>>
        PROVE  /\ tStage[k] = "none" /\ tTab[k] # "none" /\ tOwner[k] = d
               /\ \A h \in DOMAIN tAsked'[d] : tAsked'[d][h] = <<"start", k>> => h = i
               /\ call = <<"start", s>> => k # s
    <3>1. CASE d = c
      <4>1. tAsked'[d] = Tail(q)
        BY <1>4, <3>1
      <4>2. i \in DOMAIN Tail(q) /\ Tail(q)[i] = <<"start", k>>
        BY <2>4, <4>1
      <4> QED BY <2>2, <3>1, <4>1, <4>2
    <3>2. CASE d # c
      BY <1>4, <2>3, <2>4, <3>2
    <3> QED BY <3>1, <3>2
  <2>5. \A k \in Terminals!Session : (call = <<"start", s>> /\ k = s) \/ tStage'[k] = tStage[k]
    BY <1>9
  <2> QED BY <1>5, <2>4, <2>5 DEF StartsOnce
<1>16. Awaited'
  <2>1. ASSUME NEW k \in Terminals!Session, tStage'[k] \in {"asked", "room", "slot"}, k \notin tLost
        PROVE  \E d \in TerminalsConn : tHub'[d].at = "starting" /\ tHub'[d].s = k
    <3>1. CASE call = <<"start", s>> /\ k = s
      BY <1>9, <3>1
    <3>2. CASE ~(call = <<"start", s>> /\ k = s)
      <4>1. PICK d \in TerminalsConn : tHub[d].at = "starting" /\ tHub[d].s = k
        BY <1>9, <2>1, <3>2 DEF TerminalInv, Awaited
      <4> QED BY <1>8, <1>9, <4>1
    <3> QED BY <3>1, <3>2
  <2> QED BY <1>5, <2>1 DEF Awaited
<1>17. Programs'
  BY <1>5, <1>9, <1>11 DEF TerminalInv, Programs
<1>18. Slots'
  <2>1. Holding({"slot"})' = Holding({"slot"})
    BY <1>5, <1>9, <1>11 DEF Holding
  <2> QED BY <1>5, <2>1 DEF TerminalInv, Slots
<1>19. Rooms'
  <2>1. Holding({"room", "slot"})' = Holding({"room", "slot"})
    BY <1>5, <1>9, <1>11 DEF Holding
  <2> QED BY <1>5, <2>1 DEF TerminalInv, Rooms
<1>20. Terminals!NoSilentOrphans'
  <2>1. ASSUME NEW k \in Terminals!Session, tStage'[k] = "live", k \notin tLost
        PROVE  tStage[k] = "live" /\ (call = <<"start", s>> => k # s)
    BY <1>9, <2>1
  <2>2. ASSUME NEW k \in Terminals!Session, tStage'[k] = "live", k \notin tLost, k # s, tOwner[k] \in tUp,
               NEW i \in DOMAIN tAsked[tOwner[k]], tAsked[tOwner[k]][i] = <<"close", k>>
        PROVE  \E h \in DOMAIN tAsked'[tOwner[k]] : tAsked'[tOwner[k]][h] = <<"close", k>>
    <3>1. CASE tOwner[k] = c
      <4>1. call = <<call[1], s>> /\ i # 1
        BY <1>1, <1>2, <1>6, <1>7, <2>2, <3>1
      <4>2. i - 1 \in DOMAIN Tail(q) /\ Tail(q)[i - 1] = q[i]
        BY <1>1, <1>3, <2>2, <3>1, <4>1
      <4> QED BY <1>1, <1>4, <2>2, <3>1, <4>2
    <3>2. CASE tOwner[k] # c
      BY <1>4, <2>2, <3>2 DEF TerminalInv, TerminalTypes
    <3> QED BY <3>1, <3>2
  <2>3. \A k \in Terminals!Session :
          (\E d \in TerminalsConn : tHub[d].s = k) => \E d \in TerminalsConn : tHub'[d].s = k
    BY <1>8, <1>9
  <2>4. s \in tRegistry /\ s \notin tRegistry' => tHub'[c].s = s
    BY <1>9
  <2> QED BY <1>5, <1>9, <2>1, <2>2, <2>3, <2>4 DEF TerminalInv, Terminals!NoSilentOrphans
<1> QED BY <1>12, <1>13, <1>14, <1>15, <1>16, <1>17, <1>18, <1>19, <1>20 DEF TerminalInv

LEMMA TerminalRegister ==
  ASSUME TerminalInv, NEW c \in TerminalsConn, Terminals!Register(c)
  PROVE  TerminalInv'
<1>1. tHub[c].at = "starting" /\ tHub[c].s \in Terminals!Session /\ tTab[tHub[c].s] # "none"
  BY DEF TerminalInv, TerminalTypes, HubTypes, HubCalls, Fresh, Terminals!Register, Terminals!Idle
<1>2. PICK s \in Terminals!Session : s = tHub[c].s /\ tTab[s] # "none"
  BY <1>1
<1>3. \/ tRegistry' = tRegistry /\ tTab' = tTab /\ tHub' = [tHub EXCEPT ![c].at = "refusing"]
      \/ /\ tRegistry' = tRegistry \cup {s} /\ tHub' = [tHub EXCEPT ![c] = Terminals!Idle]
         /\ tTab' = [tTab EXCEPT ![s] = IF @ = "pending" THEN "open" ELSE "closing"]
  BY <1>2 DEF Terminals!Register
<1>4. tHub[c] \in [at : {"starting", "refusing", "closing"}, s : Terminals!Session] /\ tHub[c].at = "starting"
  BY <1>1 DEF TerminalInv, TerminalTypes, HubTypes, HubCalls, Terminals!Idle
<1>5. \/ /\ tRegistry' = tRegistry /\ tTab' = tTab
         /\ tHub'[c] = [at |-> "refusing", s |-> s]
      \/ /\ tRegistry' = tRegistry \cup {s} /\ tHub'[c] = Terminals!Idle
         /\ \A k \in Terminals!Session : k # s => tTab'[k] = tTab[k]
         /\ tTab'[s] \in {"open", "closing"} /\ tTab' \in [Terminals!Session -> Tabs]
  BY <1>2, <1>3, <1>4 DEF TerminalInv, TerminalTypes, HubTypes, Tabs
<1>6. \A d \in TerminalsConn : d # c => tHub'[d] = tHub[d]
  BY <1>3 DEF TerminalInv, TerminalTypes, HubTypes
<1>7. tHub' \in [TerminalsConn -> HubCalls]
  BY <1>3, <1>4 DEF TerminalInv, TerminalTypes, HubTypes, HubCalls
<1>8. UNCHANGED <<tUp, tAsked, tOwner, tStage, tLost, tProgram>> /\ tStage[s] \in {"live", "closing", "gone"}
  BY <1>2 DEF Terminals!Register, Terminals!service
<1>9. \A k \in Terminals!Session : tTab'[k] # "none" <=> tTab[k] # "none"
  BY <1>2, <1>5
<1>10. TerminalTypes'
  BY <1>2, <1>5, <1>7, <1>8 DEF TerminalInv, TerminalTypes, HubTypes, AskTypes
<1>11. Numbered'
  BY <1>9, NumbersKept DEF TerminalInv
<1>12. Fresh'
  BY <1>2, <1>4, <1>5, <1>6, <1>8, <1>9 DEF TerminalInv, Fresh, TerminalTypes, HubTypes, HubCalls,
    Terminals!Idle
<1>13. StartsOnce'
  BY <1>8, <1>9, StartsKept DEF TerminalInv
<1>14. Awaited'
  BY <1>2, <1>5, <1>6, <1>8 DEF TerminalInv, Awaited
<1>15. Programs'
  BY DEF TerminalInv, TerminalTypes, HubTypes, AskTypes, HubCalls, Calls, Tabs, Stages, Programs,
    Terminals!Register, Terminals!Full, Terminals!Session, Terminals!Idle, Terminals!service
<1>16. Slots'
  BY DEF TerminalInv, TerminalTypes, HubTypes, AskTypes, HubCalls, Calls, Tabs, Stages, Slots, Holding,
    Terminals!Register, Terminals!Full, Terminals!Session, Terminals!Idle, Terminals!service
<1>17. Rooms'
  BY DEF TerminalInv, TerminalTypes, HubTypes, AskTypes, HubCalls, Calls, Tabs, Stages, Rooms, Holding,
    Terminals!Register, Terminals!Full, Terminals!Session, Terminals!Idle, Terminals!service
<1>18. Terminals!NoSilentOrphans'
  <2>1. \A k \in Terminals!Session : k # s \/ tHub'[c].s = s => (InHub(k) => InHub(k)')
    <3>1. ASSUME NEW k \in Terminals!Session, NEW d \in TerminalsConn, tHub[d].s = k, k # s \/ tHub'[c].s = s
          PROVE  \E e \in TerminalsConn : tHub'[e].s = k
      BY <1>2, <1>6, <3>1
    <3> QED BY <3>1 DEF InHub
  <2>2. \A k \in Terminals!Session : Entered(k) => Entered(k)'
    BY <1>5, <1>8 DEF Entered, Wanted
  <2>3. tHub'[c].s = s \/ Entered(s)'
    BY <1>5 DEF Entered, Wanted
  <2> QED BY <1>8, <2>1, <2>2, <2>3, OrphansKept DEF TerminalInv
<1> QED BY <1>10, <1>11, <1>12, <1>13, <1>14, <1>15, <1>16, <1>17, <1>18 DEF TerminalInv

LEMMA TerminalStartFails ==
  ASSUME TerminalInv, NEW c \in TerminalsConn, Terminals!StartFails(c)
  PROVE  TerminalInv'
<1>1. tHub[c].at = "starting" /\ tHub[c].s \in Terminals!Session /\ tTab[tHub[c].s] # "none"
  BY DEF TerminalInv, TerminalTypes, HubTypes, HubCalls, Fresh, Terminals!StartFails, Terminals!Idle
<1>2. \A d \in TerminalsConn : tHub'[d] = IF d = c THEN Terminals!Idle ELSE tHub[d]
  BY DEF TerminalInv, TerminalTypes, HubTypes, Terminals!StartFails
<1>3. \A k \in Terminals!Session : tTab'[k] = IF k = tHub[c].s THEN "closed" ELSE tTab[k]
  BY DEF TerminalInv, TerminalTypes, Terminals!StartFails
<1>4. \A k \in Terminals!Session : tStage'[k] = tStage[k] /\ (k \notin tLost' => k \notin tLost)
  BY DEF Terminals!StartFails, Terminals!service, Terminals!Lose
<1>5. tStage[tHub[c].s] = "refused" \/ tHub[c].s \in tLost'
  BY DEF Terminals!StartFails, Terminals!Lose
<1>6. \A k \in Terminals!Session : tTab'[k] # "none" <=> tTab[k] # "none"
  BY <1>1, <1>3
<1>7. TerminalTypes'
  BY DEF TerminalInv, TerminalTypes, HubTypes, AskTypes, HubCalls, Calls, Tabs, Stages,
    Terminals!StartFails, Terminals!Lose, Terminals!Session, Terminals!Idle, Terminals!service
<1>8. Numbered'
  BY <1>6, NumbersKept DEF TerminalInv
<1>9. Fresh'
  BY DEF TerminalInv, TerminalTypes, HubTypes, AskTypes, HubCalls, Calls, Tabs, Stages, Fresh,
    Terminals!StartFails, Terminals!Lose, Terminals!Session, Terminals!Idle, Terminals!service
<1>10. StartsOnce'
  BY DEF TerminalInv, TerminalTypes, HubTypes, AskTypes, HubCalls, Calls, Tabs, Stages, StartsOnce,
    Terminals!StartFails, Terminals!Lose, Terminals!Session, Terminals!Idle, Terminals!service
<1>11. Awaited'
  BY DEF TerminalInv, TerminalTypes, HubTypes, AskTypes, HubCalls, Calls, Tabs, Stages, Awaited,
    Terminals!StartFails, Terminals!Lose, Terminals!Session, Terminals!Idle, Terminals!service
<1>12. Programs'
  BY DEF TerminalInv, TerminalTypes, HubTypes, AskTypes, HubCalls, Calls, Tabs, Stages, Programs,
    Terminals!StartFails, Terminals!Lose, Terminals!Session, Terminals!Idle, Terminals!service
<1>13. Slots'
  BY DEF TerminalInv, TerminalTypes, HubTypes, AskTypes, HubCalls, Calls, Tabs, Stages, Slots, Holding,
    Terminals!StartFails, Terminals!Lose, Terminals!Session, Terminals!Idle, Terminals!service
<1>14. Rooms'
  BY DEF TerminalInv, TerminalTypes, HubTypes, AskTypes, HubCalls, Calls, Tabs, Stages, Rooms, Holding,
    Terminals!StartFails, Terminals!Lose, Terminals!Session, Terminals!Idle, Terminals!service
<1>15. Terminals!NoSilentOrphans'
  <2>1. \A k \in Terminals!Session : tStage'[k] = "live" /\ k \notin tLost' =>
           tStage[k] = "live" /\ k \notin tLost /\ k # tHub[c].s
    BY <1>4, <1>5
  <2>2. \A k \in Terminals!Session : k # tHub[c].s /\ InHub(k) => InHub(k)'
    BY <1>2 DEF InHub
  <2>3. \A k \in Terminals!Session : k # tHub[c].s /\ Entered(k) => Entered(k)'
    BY <1>3 DEF Entered, Wanted, Terminals!StartFails
  <2> QED BY <2>1, <2>2, <2>3, OrphansKept DEF TerminalInv
<1> QED BY <1>7, <1>8, <1>9, <1>10, <1>11, <1>12, <1>13, <1>14, <1>15 DEF TerminalInv

LEMMA TerminalAskToClose ==
  ASSUME TerminalInv, NEW c \in TerminalsConn, Terminals!AskToClose(c)
  PROVE  TerminalInv'
<1>1. tHub[c].at \in {"closing", "refusing"} /\ tHub[c].s \in Terminals!Session /\ tTab[tHub[c].s] # "none"
  BY DEF TerminalInv, TerminalTypes, HubTypes, HubCalls, Fresh, Terminals!AskToClose, Terminals!Idle
<1>2. \A d \in TerminalsConn : tHub'[d] = IF d = c THEN Terminals!Idle ELSE tHub[d]
  BY DEF TerminalInv, TerminalTypes, HubTypes, Terminals!AskToClose
<1>3. \A k \in Terminals!Session : tTab'[k] = IF k = tHub[c].s THEN "closed" ELSE tTab[k]
  BY DEF TerminalInv, TerminalTypes, Terminals!AskToClose
<1>4. /\ \A k \in Terminals!Session : tStage'[k] = tStage[k] \/ (tStage[k] = "live" /\ tStage'[k] = "closing")
      /\ tStage'[tHub[c].s] # "live" \/ tHub[c].s \in tLost'
  BY <1>1 DEF TerminalInv, TerminalTypes, Terminals!AskToClose, Terminals!CloseAsync, Terminals!Lose
<1>5. tLost \subseteq tLost'
  BY DEF Terminals!AskToClose, Terminals!Lose
<1>6. \A k \in Terminals!Session : tTab'[k] # "none" <=> tTab[k] # "none"
  BY <1>1, <1>3
<1>7. \A k \in Terminals!Session : tStage[k] = "none" => tStage'[k] = "none"
  BY <1>4
<1>8. TerminalTypes'
  BY DEF TerminalInv, TerminalTypes, HubTypes, AskTypes, HubCalls, Calls, Tabs, Stages,
    Terminals!AskToClose, Terminals!Lose, Terminals!CloseAsync, Terminals!Session, Terminals!Idle,
    Terminals!service
<1>9. Numbered'
  BY <1>6, NumbersKept DEF TerminalInv
<1>10. Fresh'
  BY DEF TerminalInv, TerminalTypes, HubTypes, AskTypes, HubCalls, Calls, Tabs, Stages, Fresh,
    Terminals!AskToClose, Terminals!Lose, Terminals!CloseAsync, Terminals!Session, Terminals!Idle,
    Terminals!service
<1>11. StartsOnce'
  BY <1>6, <1>7, StartsKept DEF TerminalInv, Terminals!AskToClose
<1>12. Awaited'
  BY <1>1, <1>2, <1>4, <1>5 DEF TerminalInv, Awaited
<1>13. Programs'
  BY <1>4 DEF TerminalInv, Programs, Terminals!AskToClose
<1>14. Slots'
  BY DEF TerminalInv, TerminalTypes, HubTypes, AskTypes, HubCalls, Calls, Tabs, Stages, Slots, Holding,
    Terminals!AskToClose, Terminals!Lose, Terminals!CloseAsync, Terminals!Session, Terminals!Idle,
    Terminals!service
<1>15. Rooms'
  BY DEF TerminalInv, TerminalTypes, HubTypes, AskTypes, HubCalls, Calls, Tabs, Stages, Rooms, Holding,
    Terminals!AskToClose, Terminals!Lose, Terminals!CloseAsync, Terminals!Session, Terminals!Idle,
    Terminals!service
<1>16. Terminals!NoSilentOrphans'
  <2>1. \A k \in Terminals!Session : tStage'[k] = "live" /\ k \notin tLost' =>
           tStage[k] = "live" /\ k \notin tLost /\ k # tHub[c].s
    BY <1>4, <1>5
  <2>2. \A k \in Terminals!Session : k # tHub[c].s /\ InHub(k) => InHub(k)'
    BY <1>2 DEF InHub
  <2>3. \A k \in Terminals!Session : k # tHub[c].s /\ Entered(k) => Entered(k)'
    BY <1>3 DEF Entered, Wanted, Terminals!AskToClose
  <2> QED BY <2>1, <2>2, <2>3, OrphansKept DEF TerminalInv
<1> QED BY <1>8, <1>9, <1>10, <1>11, <1>12, <1>13, <1>14, <1>15, <1>16 DEF TerminalInv

LEMMA TerminalDrop ==
  ASSUME TerminalInv, NEW c \in TerminalsConn, Terminals!Drop(c)
  PROVE  TerminalInv'
<1>1. \A d \in TerminalsConn : tAsked'[d] = IF d = c THEN <<>> ELSE tAsked[d]
  BY DEF TerminalInv, TerminalTypes, AskTypes, Terminals!Drop
<1>2. \A k \in Terminals!Session : tTab[k] # "none" => tTab'[k] # "none"
  BY DEF Terminals!Drop
<1>3. TerminalTypes'
  BY DEF TerminalInv, TerminalTypes, HubTypes, AskTypes, HubCalls, Calls, Tabs, Stages, Terminals!Drop,
    Terminals!Session, Terminals!Idle, Terminals!service
<1>4. Numbered'
  BY DEF TerminalInv, TerminalTypes, HubTypes, AskTypes, HubCalls, Calls, Tabs, Stages, Numbered,
    Terminals!Drop, Terminals!Session, Terminals!Idle, Terminals!service
<1>5. Fresh'
  BY DEF TerminalInv, TerminalTypes, HubTypes, AskTypes, HubCalls, Calls, Tabs, Stages, Fresh,
    Terminals!Drop, Terminals!Session, Terminals!Idle, Terminals!service
<1>6. StartsOnce'
  BY <1>1, <1>2 DEF TerminalInv, StartsOnce, Terminals!Drop, Terminals!service
<1>7. Awaited'
  BY DEF TerminalInv, TerminalTypes, HubTypes, AskTypes, HubCalls, Calls, Tabs, Stages, Awaited,
    Terminals!Drop, Terminals!Session, Terminals!Idle, Terminals!service
<1>8. Programs'
  BY DEF TerminalInv, TerminalTypes, HubTypes, AskTypes, HubCalls, Calls, Tabs, Stages, Programs,
    Terminals!Drop, Terminals!Session, Terminals!Idle, Terminals!service
<1>9. Slots'
  BY DEF TerminalInv, TerminalTypes, HubTypes, AskTypes, HubCalls, Calls, Tabs, Stages, Slots, Holding,
    Terminals!Drop, Terminals!Session, Terminals!Idle, Terminals!service
<1>10. Rooms'
  BY DEF TerminalInv, TerminalTypes, HubTypes, AskTypes, HubCalls, Calls, Tabs, Stages, Rooms, Holding,
    Terminals!Drop, Terminals!Session, Terminals!Idle, Terminals!service
<1>11. Terminals!NoSilentOrphans'
  BY DEF TerminalInv, TerminalTypes, HubTypes, AskTypes, HubCalls, Calls, Tabs, Stages,
    Terminals!NoSilentOrphans, Terminals!Drop, Terminals!Session, Terminals!Idle, Terminals!service
<1> QED BY <1>3, <1>4, <1>5, <1>6, <1>7, <1>8, <1>9, <1>10, <1>11 DEF TerminalInv

LEMMA TerminalCloseConnectionSessions ==
  ASSUME TerminalInv, NEW c \in TerminalsConn, Terminals!CloseConnectionSessions(c)
  PROVE  TerminalInv'
<1>1. TerminalTypes'
  BY DEF TerminalInv, TerminalTypes, HubTypes, AskTypes, HubCalls, Calls, Tabs, Stages,
    Terminals!CloseConnectionSessions, Terminals!Session, Terminals!Idle, Terminals!service
<1>2. Numbered'
  BY DEF TerminalInv, TerminalTypes, HubTypes, AskTypes, HubCalls, Calls, Tabs, Stages, Numbered,
    Terminals!CloseConnectionSessions, Terminals!Session, Terminals!Idle, Terminals!service
<1>3. Fresh'
  BY DEF TerminalInv, TerminalTypes, HubTypes, AskTypes, HubCalls, Calls, Tabs, Stages, Fresh,
    Terminals!CloseConnectionSessions, Terminals!Session, Terminals!Idle, Terminals!service
<1>4. StartsOnce'
  BY DEF TerminalInv, TerminalTypes, HubTypes, AskTypes, HubCalls, Calls, Tabs, Stages, StartsOnce,
    Terminals!CloseConnectionSessions, Terminals!Session, Terminals!Idle, Terminals!service
<1>5. Awaited'
  BY DEF TerminalInv, TerminalTypes, HubTypes, AskTypes, HubCalls, Calls, Tabs, Stages, Awaited,
    Terminals!CloseConnectionSessions, Terminals!Session, Terminals!Idle, Terminals!service
<1>6. Programs'
  BY DEF TerminalInv, TerminalTypes, HubTypes, AskTypes, HubCalls, Calls, Tabs, Stages, Programs,
    Terminals!CloseConnectionSessions, Terminals!Session, Terminals!Idle, Terminals!service
<1>7. Slots'
  BY DEF TerminalInv, TerminalTypes, HubTypes, AskTypes, HubCalls, Calls, Tabs, Stages, Slots, Holding,
    Terminals!CloseConnectionSessions, Terminals!Session, Terminals!Idle, Terminals!service
<1>8. Rooms'
  BY DEF TerminalInv, TerminalTypes, HubTypes, AskTypes, HubCalls, Calls, Tabs, Stages, Rooms, Holding,
    Terminals!CloseConnectionSessions, Terminals!Session, Terminals!Idle, Terminals!service
<1>9. Terminals!NoSilentOrphans'
  <2>1. PICK k \in tRegistry : /\ tRegistry' = tRegistry \ {k} /\ k \in Terminals!Session
                               /\ tHub' = [tHub EXCEPT ![c] = [at |-> "closing", s |-> k]]
    BY DEF TerminalInv, TerminalTypes, Terminals!CloseConnectionSessions
  <2>2. \A d \in TerminalsConn : tHub'[d] = IF d = c THEN [at |-> "closing", s |-> k] ELSE tHub[d]
    BY <2>1 DEF TerminalInv, TerminalTypes, HubTypes
  <2>3. \A j \in Terminals!Session : tHub[c].s # j
    BY DEF Terminals!CloseConnectionSessions, Terminals!Idle, Terminals!Session
  <2>4. \A j \in Terminals!Session : (InHub(j) => InHub(j)') /\ (j = k => InHub(j)')
    BY <2>2, <2>3 DEF InHub
  <2>5. \A j \in Terminals!Session : Entered(j) /\ j # k => Entered(j)'
    BY <2>1 DEF Entered, Wanted, Terminals!CloseConnectionSessions
  <2>6. tStage' = tStage /\ tLost' = tLost
    BY DEF Terminals!CloseConnectionSessions, Terminals!service
  <2> QED BY <2>4, <2>5, <2>6, OrphansKept DEF TerminalInv
<1> QED BY <1>1, <1>2, <1>3, <1>4, <1>5, <1>6, <1>7, <1>8, <1>9 DEF TerminalInv

LEMMA TerminalCloseTab ==
  ASSUME TerminalInv, NEW s \in Terminals!Session, Terminals!CloseTab(s)
  PROVE  TerminalInv'
<1>1. \A k \in Terminals!Session : tTab'[k] # "none" <=> tTab[k] # "none"
  BY DEF TerminalInv, TerminalTypes, HubTypes, AskTypes, HubCalls, Calls, Tabs, Stages, Fresh,
    Terminals!CloseTab, Terminals!Session, Terminals!Idle, Terminals!service
<1>2. \A k \in Terminals!Session : tStage[k] = "none" => tStage'[k] = "none"
  BY DEF TerminalInv, TerminalTypes, HubTypes, AskTypes, HubCalls, Calls, Tabs, Stages, Fresh,
    Terminals!CloseTab, Terminals!Session, Terminals!Idle, Terminals!service
<1>3. TerminalTypes'
  BY DEF TerminalInv, TerminalTypes, HubTypes, AskTypes, HubCalls, Calls, Tabs, Stages,
    Terminals!CloseTab, Terminals!Session, Terminals!Idle, Terminals!service
<1>4. Numbered'
  BY <1>1, NumbersKept DEF TerminalInv
<1>5. Fresh'
  BY <1>1 DEF TerminalInv, Fresh, TerminalTypes, HubTypes, HubCalls, Terminals!CloseTab, Terminals!Session,
    Terminals!Idle, Terminals!service
<1>6. StartsOnce'
  BY <1>1, <1>2, StartsKept DEF TerminalInv, Terminals!CloseTab, Terminals!service
<1>7. Awaited'
  BY DEF TerminalInv, TerminalTypes, HubTypes, AskTypes, HubCalls, Calls, Tabs, Stages, Awaited,
    Terminals!CloseTab, Terminals!Session, Terminals!Idle, Terminals!service
<1>8. Programs'
  BY DEF TerminalInv, TerminalTypes, HubTypes, AskTypes, HubCalls, Calls, Tabs, Stages, Programs,
    Terminals!CloseTab, Terminals!Session, Terminals!Idle, Terminals!service
<1>9. Slots'
  BY DEF TerminalInv, TerminalTypes, HubTypes, AskTypes, HubCalls, Calls, Tabs, Stages, Slots, Holding,
    Terminals!CloseTab, Terminals!Session, Terminals!Idle, Terminals!service
<1>10. Rooms'
  BY DEF TerminalInv, TerminalTypes, HubTypes, AskTypes, HubCalls, Calls, Tabs, Stages, Rooms, Holding,
    Terminals!CloseTab, Terminals!Session, Terminals!Idle, Terminals!service
<1>11. Terminals!NoSilentOrphans'
  BY DEF TerminalInv, TerminalTypes, HubTypes, AskTypes, HubCalls, Calls, Tabs, Stages,
    Terminals!NoSilentOrphans, Terminals!CloseTab, Terminals!Session, Terminals!Idle, Terminals!service
<1> QED BY <1>3, <1>4, <1>5, <1>6, <1>7, <1>8, <1>9, <1>10, <1>11 DEF TerminalInv

LEMMA TerminalCloseTerminal ==
  ASSUME TerminalInv, NEW s \in Terminals!Session, Terminals!CloseTerminal(s)
  PROVE  TerminalInv'
<1>1. PICK q \in Seq(Calls) : q = tAsked[tOwner[s]]
  BY DEF TerminalInv, TerminalTypes, AskTypes, Terminals!CloseTerminal
<1>2. /\ \A d \in TerminalsConn : d # tOwner[s] => tAsked'[d] = tAsked[d]
      /\ tAsked'[tOwner[s]] = Append(q, <<"close", s>>) /\ tOwner[s] \in TerminalsConn
  BY <1>1 DEF TerminalInv, TerminalTypes, AskTypes, Terminals!CloseTerminal
<1>3. <<"close", s>> \in Calls
  BY DEF Calls
<1>4. /\ DOMAIN Append(q, <<"close", s>>) = 1..(Len(q) + 1)
      /\ DOMAIN q = 1..Len(q) /\ Len(q) \in Nat
      /\ \A i \in 1..Len(q) : Append(q, <<"close", s>>)[i] = q[i]
      /\ Append(q, <<"close", s>>)[Len(q) + 1] = <<"close", s>>
  BY <1>1, <1>3, Queued
<1>5. \A k \in Terminals!Session : tTab'[k] = IF k = s THEN "closed" ELSE tTab[k]
  BY DEF TerminalInv, TerminalTypes, Terminals!CloseTerminal
<1>6. UNCHANGED <<tOwner, tStage, tHub, tRegistry, tUp, tLost>> /\ tTab[s] = "closing"
  BY DEF Terminals!CloseTerminal, Terminals!service
<1>7. TerminalTypes'
  BY DEF TerminalInv, TerminalTypes, HubTypes, AskTypes, HubCalls, Calls, Tabs, Stages,
    Terminals!CloseTerminal, Terminals!Session, Terminals!Idle, Terminals!service
<1>8. Numbered'
  BY DEF TerminalInv, TerminalTypes, HubTypes, AskTypes, HubCalls, Calls, Tabs, Stages, Numbered,
    Terminals!CloseTerminal, Terminals!Session, Terminals!Idle, Terminals!service
<1>9. Fresh'
  BY DEF TerminalInv, TerminalTypes, HubTypes, AskTypes, HubCalls, Calls, Tabs, Stages, Fresh,
    Terminals!CloseTerminal, Terminals!Session, Terminals!Idle, Terminals!service
<1>10. StartsOnce'
  <2>1. \A k \in Terminals!Session : <<"close", s>> # <<"start", k>>
    OBVIOUS
  <2>2. \A i \in DOMAIN Append(q, <<"close", s>>) : \A k \in Terminals!Session :
          Append(q, <<"close", s>>)[i] = <<"start", k>> => i \in DOMAIN q /\ q[i] = <<"start", k>>
    BY <1>4, <2>1
  <2>3. \A d \in TerminalsConn : \A i \in DOMAIN tAsked'[d] : \A k \in Terminals!Session :
          tAsked'[d][i] = <<"start", k>> => i \in DOMAIN tAsked[d] /\ tAsked[d][i] = <<"start", k>>
    BY <1>1, <1>2, <2>2
  <2> QED BY <1>5, <1>6, <2>3 DEF TerminalInv, StartsOnce
<1>11. Awaited'
  BY DEF TerminalInv, TerminalTypes, HubTypes, AskTypes, HubCalls, Calls, Tabs, Stages, Awaited,
    Terminals!CloseTerminal, Terminals!Session, Terminals!Idle, Terminals!service
<1>12. Programs'
  BY DEF TerminalInv, TerminalTypes, HubTypes, AskTypes, HubCalls, Calls, Tabs, Stages, Programs,
    Terminals!CloseTerminal, Terminals!Session, Terminals!Idle, Terminals!service
<1>13. Slots'
  BY DEF TerminalInv, TerminalTypes, HubTypes, AskTypes, HubCalls, Calls, Tabs, Stages, Slots, Holding,
    Terminals!CloseTerminal, Terminals!Session, Terminals!Idle, Terminals!service
<1>14. Rooms'
  BY DEF TerminalInv, TerminalTypes, HubTypes, AskTypes, HubCalls, Calls, Tabs, Stages, Rooms, Holding,
    Terminals!CloseTerminal, Terminals!Session, Terminals!Idle, Terminals!service
<1>15. Terminals!NoSilentOrphans'
  <2>1. \A i \in DOMAIN q : i \in DOMAIN Append(q, <<"close", s>>) /\ Append(q, <<"close", s>>)[i] = q[i]
    BY <1>4
  <2>2. \E i \in DOMAIN Append(q, <<"close", s>>) : Append(q, <<"close", s>>)[i] = <<"close", s>>
    BY <1>4
  <2>3. \A k \in Terminals!Session : tOwner[k] \in TerminalsConn /\ Wanted(k) => Wanted(k)'
    <3>1. \A k \in Terminals!Session : tOwner'[k] = tOwner[k] /\ (k # s => tTab'[k] = tTab[k])
      BY <1>5, <1>6
    <3>2. \A d \in TerminalsConn : \A i \in DOMAIN tAsked[d] :
                i \in DOMAIN tAsked'[d] /\ tAsked'[d][i] = tAsked[d][i]
      BY <1>1, <1>2, <2>1
    <3>3. \E i \in DOMAIN tAsked'[tOwner'[s]] : tAsked'[tOwner'[s]][i] = <<"close", s>>
      BY <1>2, <1>6, <2>2
    <3> QED BY <3>1, <3>2, <3>3 DEF Wanted
  <2>4. \A k \in Terminals!Session : (InHub(k) => InHub(k)') /\ (Entered(k) => Entered(k)')
    BY <1>6, <2>3 DEF TerminalInv, TerminalTypes, InHub, Entered
  <2> QED BY <1>6, <2>4, OrphansKept DEF TerminalInv
<1> QED BY <1>7, <1>8, <1>9, <1>10, <1>11, <1>12, <1>13, <1>14, <1>15 DEF TerminalInv

LEMMA TerminalTryAcquire ==
  ASSUME TerminalInv, NEW s \in Terminals!Session, Terminals!TryAcquire(s)
  PROVE  TerminalInv'
<1>1. \A k \in Terminals!Session : tStage[k] = "none" => tStage'[k] = "none"
  BY DEF TerminalInv, TerminalTypes, HubTypes, AskTypes, HubCalls, Calls, Tabs, Stages, Fresh,
    Terminals!TryAcquire, Terminals!Session, Terminals!Idle, Terminals!service
<1>2. TerminalTypes'
  BY DEF TerminalInv, TerminalTypes, HubTypes, AskTypes, HubCalls, Calls, Tabs, Stages,
    Terminals!TryAcquire, Terminals!Session, Terminals!Idle, Terminals!service
<1>3. Numbered'
  BY DEF TerminalInv, TerminalTypes, HubTypes, AskTypes, HubCalls, Calls, Tabs, Stages, Numbered,
    Terminals!TryAcquire, Terminals!Session, Terminals!Idle, Terminals!service
<1>4. Fresh'
  BY DEF TerminalInv, TerminalTypes, HubTypes, AskTypes, HubCalls, Calls, Tabs, Stages, Fresh,
    Terminals!TryAcquire, Terminals!Session, Terminals!Idle, Terminals!service
<1>5. StartsOnce'
  BY <1>1, StartsKept DEF TerminalInv, Terminals!TryAcquire, Terminals!service
<1>6. Awaited'
  BY DEF TerminalInv, TerminalTypes, HubTypes, AskTypes, HubCalls, Calls, Tabs, Stages, Awaited,
    Terminals!TryAcquire, Terminals!Session, Terminals!Idle, Terminals!service
<1>7. Programs'
  BY DEF TerminalInv, TerminalTypes, HubTypes, AskTypes, HubCalls, Calls, Tabs, Stages, Programs,
    Terminals!TryAcquire, Terminals!Session, Terminals!Idle, Terminals!service
<1>8. Slots'
  BY DEF TerminalInv, TerminalTypes, HubTypes, AskTypes, HubCalls, Calls, Tabs, Stages, Slots, Holding,
    Terminals!TryAcquire, Terminals!Session, Terminals!Idle, Terminals!service
<1>9. Rooms'
  <2>1. CASE tRoom < TerminalsMaxSessionsPerRoom
    <3>1. Holding({"room", "slot"})' = Holding({"room", "slot"}) \cup {s}
          /\ s \notin Holding({"room", "slot"})
      BY <2>1 DEF TerminalInv, TerminalTypes, Programs, Holding, Terminals!TryAcquire
    <3>2. Cardinality(Holding({"room", "slot"})') = Cardinality(Holding({"room", "slot"})) + 1
      BY <3>1, HoldingFinite, OneMore
    <3> QED BY <2>1, <3>2 DEF TerminalInv, Rooms, Terminals!TryAcquire
  <2>2. CASE ~(tRoom < TerminalsMaxSessionsPerRoom)
    <3>1. Holding({"room", "slot"})' = Holding({"room", "slot"})
      BY <2>2 DEF TerminalInv, TerminalTypes, Holding, Terminals!TryAcquire
    <3> QED BY <2>2, <3>1 DEF TerminalInv, Rooms, Terminals!TryAcquire
  <2> QED BY <2>1, <2>2
<1>10. Terminals!NoSilentOrphans'
  BY DEF TerminalInv, TerminalTypes, HubTypes, AskTypes, HubCalls, Calls, Tabs, Stages,
    Terminals!NoSilentOrphans, Terminals!TryAcquire, Terminals!Session, Terminals!Idle,
    Terminals!service
<1> QED BY <1>2, <1>3, <1>4, <1>5, <1>6, <1>7, <1>8, <1>9, <1>10 DEF TerminalInv

LEMMA TerminalTakeSlot ==
  ASSUME TerminalInv, NEW s \in Terminals!Session, Terminals!TakeSlot(s)
  PROVE  TerminalInv'
<1>1. \A k \in Terminals!Session : tStage[k] = "none" => tStage'[k] = "none"
  BY DEF TerminalInv, TerminalTypes, HubTypes, AskTypes, HubCalls, Calls, Tabs, Stages, Fresh,
    Terminals!TakeSlot, Terminals!Session, Terminals!Idle, Terminals!service
<1>2. TerminalTypes'
  BY DEF TerminalInv, TerminalTypes, HubTypes, AskTypes, HubCalls, Calls, Tabs, Stages,
    Terminals!TakeSlot, Terminals!Session, Terminals!Idle, Terminals!service
<1>3. Numbered'
  BY DEF TerminalInv, TerminalTypes, HubTypes, AskTypes, HubCalls, Calls, Tabs, Stages, Numbered,
    Terminals!TakeSlot, Terminals!Session, Terminals!Idle, Terminals!service
<1>4. Fresh'
  BY DEF TerminalInv, TerminalTypes, HubTypes, AskTypes, HubCalls, Calls, Tabs, Stages, Fresh,
    Terminals!TakeSlot, Terminals!Session, Terminals!Idle, Terminals!service
<1>5. StartsOnce'
  BY <1>1, StartsKept DEF TerminalInv, Terminals!TakeSlot, Terminals!service
<1>6. Awaited'
  BY DEF TerminalInv, TerminalTypes, HubTypes, AskTypes, HubCalls, Calls, Tabs, Stages, Awaited,
    Terminals!TakeSlot, Terminals!Session, Terminals!Idle, Terminals!service
<1>7. Programs'
  BY DEF TerminalInv, TerminalTypes, HubTypes, AskTypes, HubCalls, Calls, Tabs, Stages, Programs,
    Terminals!TakeSlot, Terminals!Session, Terminals!Idle, Terminals!service
<1>8. Slots'
  <2>1. CASE tSlots < TerminalsMaxSessions
    <3>1. Holding({"slot"})' = Holding({"slot"}) \cup {s} /\ s \notin Holding({"slot"})
      BY <2>1 DEF TerminalInv, TerminalTypes, Programs, Holding, Terminals!TakeSlot
    <3>2. Cardinality(Holding({"slot"})') = Cardinality(Holding({"slot"})) + 1
      BY <3>1, HoldingFinite, OneMore
    <3> QED BY <2>1, <3>2 DEF TerminalInv, Slots, Terminals!TakeSlot
  <2>2. CASE ~(tSlots < TerminalsMaxSessions)
    <3>1. Holding({"slot"})' = Holding({"slot"})
      BY <2>2 DEF TerminalInv, TerminalTypes, Holding, Terminals!TakeSlot
    <3> QED BY <2>2, <3>1 DEF TerminalInv, Slots, Terminals!TakeSlot
  <2> QED BY <2>1, <2>2
<1>9. Rooms'
  <2>1. CASE tSlots < TerminalsMaxSessions
    <3>1. Holding({"room", "slot"})' = Holding({"room", "slot"})
      BY <2>1 DEF TerminalInv, TerminalTypes, Holding, Terminals!TakeSlot
    <3> QED BY <2>1, <3>1 DEF TerminalInv, Rooms, Terminals!TakeSlot
  <2>2. CASE ~(tSlots < TerminalsMaxSessions)
    <3>1. Holding({"room", "slot"})' = Holding({"room", "slot"}) \ {s} /\ s \in Holding({"room", "slot"})
      BY <2>2 DEF TerminalInv, TerminalTypes, Programs, Holding, Terminals!TakeSlot
    <3>2. Cardinality(Holding({"room", "slot"})') = Cardinality(Holding({"room", "slot"})) - 1
      BY <3>1, HoldingFinite, OneLess
    <3> QED BY <2>2, <3>2 DEF TerminalInv, Rooms, Terminals!TakeSlot
  <2> QED BY <2>1, <2>2
<1>10. Terminals!NoSilentOrphans'
  BY DEF TerminalInv, TerminalTypes, HubTypes, AskTypes, HubCalls, Calls, Tabs, Stages,
    Terminals!NoSilentOrphans, Terminals!TakeSlot, Terminals!Session, Terminals!Idle, Terminals!service
<1> QED BY <1>2, <1>3, <1>4, <1>5, <1>6, <1>7, <1>8, <1>9, <1>10 DEF TerminalInv

LEMMA TerminalLaunch ==
  ASSUME TerminalInv, NEW s \in Terminals!Session, Terminals!Launch(s)
  PROVE  TerminalInv'
<1>1. Holding({"slot"})' = Holding({"slot"}) /\ Holding({"room", "slot"})' = Holding({"room", "slot"})
  BY DEF TerminalInv, TerminalTypes, Programs, Holding, Terminals!Launch
<1>2. Slots' /\ Rooms'
  BY <1>1, PlacesKept DEF TerminalInv, Terminals!Launch
<1>3. TerminalTypes'
  BY DEF TerminalInv, TerminalTypes, HubTypes, AskTypes, HubCalls, Calls, Tabs, Stages,
    Terminals!Launch, Terminals!Session, Terminals!Idle, Terminals!service
<1>4. Numbered'
  BY DEF TerminalInv, TerminalTypes, HubTypes, AskTypes, HubCalls, Calls, Tabs, Stages, Numbered,
    Terminals!Launch, Terminals!Session, Terminals!Idle, Terminals!service
<1>5. Fresh'
  BY DEF TerminalInv, TerminalTypes, HubTypes, AskTypes, HubCalls, Calls, Tabs, Stages, Fresh,
    Terminals!Launch, Terminals!Session, Terminals!Idle, Terminals!service
<1>6. StartsOnce'
  BY DEF TerminalInv, TerminalTypes, HubTypes, AskTypes, HubCalls, Calls, Tabs, Stages, StartsOnce,
    Terminals!Launch, Terminals!Session, Terminals!Idle, Terminals!service
<1>7. Awaited'
  BY DEF TerminalInv, TerminalTypes, HubTypes, AskTypes, HubCalls, Calls, Tabs, Stages, Awaited,
    Terminals!Launch, Terminals!Session, Terminals!Idle, Terminals!service
<1>8. Programs'
  BY DEF TerminalInv, TerminalTypes, HubTypes, AskTypes, HubCalls, Calls, Tabs, Stages, Programs,
    Terminals!Launch, Terminals!Session, Terminals!Idle, Terminals!service
<1>9. Slots'
  BY <1>2
<1>10. Rooms'
  BY <1>2
<1>11. Terminals!NoSilentOrphans'
  <2>1. InHub(s) \/ s \in tLost
    BY DEF TerminalInv, Awaited, InHub, Terminals!Launch
  <2>2. \A k \in Terminals!Session : InHub(k)' = InHub(k) /\ Entered(k)' = Entered(k)
    BY DEF InHub, Entered, Wanted, Terminals!Launch
  <2>3. \A k \in Terminals!Session : tStage'[k] = "live" => k = s \/ tStage[k] = "live"
    BY DEF TerminalInv, TerminalTypes, Terminals!Launch
  <2>4. tLost' = tLost
    BY DEF Terminals!Launch
  <2> QED BY <2>1, <2>2, <2>3, <2>4, OrphansKept DEF TerminalInv
<1> QED BY <1>3, <1>4, <1>5, <1>6, <1>7, <1>8, <1>9, <1>10, <1>11 DEF TerminalInv

LEMMA TerminalLaunchFails ==
  ASSUME TerminalInv, NEW s \in Terminals!Session, Terminals!LaunchFails(s)
  PROVE  TerminalInv'
<1>1. s \in Holding({"slot"}) /\ s \in Holding({"room", "slot"})
  BY DEF Holding, Terminals!LaunchFails
<1>2. /\ Holding({"slot"})' = Holding({"slot"}) \ {s}
      /\ Holding({"room", "slot"})' = Holding({"room", "slot"}) \ {s}
  BY DEF TerminalInv, TerminalTypes, Programs, Holding, Terminals!LaunchFails
<1>3. Slots' /\ Rooms'
  BY <1>1, <1>2, PlacesBack DEF TerminalInv, Terminals!LaunchFails
<1>4. TerminalTypes'
  BY DEF TerminalInv, TerminalTypes, HubTypes, AskTypes, HubCalls, Calls, Tabs, Stages,
    Terminals!LaunchFails, Terminals!Session, Terminals!Idle, Terminals!service
<1>5. Numbered'
  BY DEF TerminalInv, TerminalTypes, HubTypes, AskTypes, HubCalls, Calls, Tabs, Stages, Numbered,
    Terminals!LaunchFails, Terminals!Session, Terminals!Idle, Terminals!service
<1>6. Fresh'
  BY DEF TerminalInv, TerminalTypes, HubTypes, AskTypes, HubCalls, Calls, Tabs, Stages, Fresh,
    Terminals!LaunchFails, Terminals!Session, Terminals!Idle, Terminals!service
<1>7. StartsOnce'
  BY DEF TerminalInv, TerminalTypes, HubTypes, AskTypes, HubCalls, Calls, Tabs, Stages, StartsOnce,
    Terminals!LaunchFails, Terminals!Session, Terminals!Idle, Terminals!service
<1>8. Awaited'
  BY DEF TerminalInv, TerminalTypes, HubTypes, AskTypes, HubCalls, Calls, Tabs, Stages, Awaited,
    Terminals!LaunchFails, Terminals!Session, Terminals!Idle, Terminals!service
<1>9. Programs'
  BY DEF TerminalInv, TerminalTypes, HubTypes, AskTypes, HubCalls, Calls, Tabs, Stages, Programs,
    Terminals!LaunchFails, Terminals!Session, Terminals!Idle, Terminals!service
<1>10. Slots'
  BY <1>3
<1>11. Rooms'
  BY <1>3
<1>12. Terminals!NoSilentOrphans'
  BY DEF TerminalInv, TerminalTypes, HubTypes, AskTypes, HubCalls, Calls, Tabs, Stages,
    Terminals!NoSilentOrphans, Terminals!LaunchFails, Terminals!Session, Terminals!Idle,
    Terminals!service
<1> QED BY <1>4, <1>5, <1>6, <1>7, <1>8, <1>9, <1>10, <1>11, <1>12 DEF TerminalInv

LEMMA TerminalProgramEnds ==
  ASSUME TerminalInv, NEW s \in Terminals!Session, Terminals!ProgramEnds(s)
  PROVE  TerminalInv'
<1>1. TerminalTypes'
  BY DEF TerminalInv, TerminalTypes, HubTypes, AskTypes, HubCalls, Calls, Tabs, Stages,
    Terminals!ProgramEnds, Terminals!Session, Terminals!Idle, Terminals!service
<1>2. Numbered'
  BY DEF TerminalInv, TerminalTypes, HubTypes, AskTypes, HubCalls, Calls, Tabs, Stages, Numbered,
    Terminals!ProgramEnds, Terminals!Session, Terminals!Idle, Terminals!service
<1>3. Fresh'
  BY DEF TerminalInv, TerminalTypes, HubTypes, AskTypes, HubCalls, Calls, Tabs, Stages, Fresh,
    Terminals!ProgramEnds, Terminals!Session, Terminals!Idle, Terminals!service
<1>4. StartsOnce'
  BY DEF TerminalInv, TerminalTypes, HubTypes, AskTypes, HubCalls, Calls, Tabs, Stages, StartsOnce,
    Terminals!ProgramEnds, Terminals!Session, Terminals!Idle, Terminals!service
<1>5. Awaited'
  BY DEF TerminalInv, TerminalTypes, HubTypes, AskTypes, HubCalls, Calls, Tabs, Stages, Awaited,
    Terminals!ProgramEnds, Terminals!Session, Terminals!Idle, Terminals!service
<1>6. Programs'
  BY DEF TerminalInv, TerminalTypes, HubTypes, AskTypes, HubCalls, Calls, Tabs, Stages, Programs,
    Terminals!ProgramEnds, Terminals!Session, Terminals!Idle, Terminals!service
<1>7. Slots'
  BY DEF TerminalInv, TerminalTypes, HubTypes, AskTypes, HubCalls, Calls, Tabs, Stages, Slots, Holding,
    Terminals!ProgramEnds, Terminals!Session, Terminals!Idle, Terminals!service
<1>8. Rooms'
  BY DEF TerminalInv, TerminalTypes, HubTypes, AskTypes, HubCalls, Calls, Tabs, Stages, Rooms, Holding,
    Terminals!ProgramEnds, Terminals!Session, Terminals!Idle, Terminals!service
<1>9. Terminals!NoSilentOrphans'
  BY DEF TerminalInv, TerminalTypes, HubTypes, AskTypes, HubCalls, Calls, Tabs, Stages,
    Terminals!NoSilentOrphans, Terminals!ProgramEnds, Terminals!Session, Terminals!Idle,
    Terminals!service
<1> QED BY <1>1, <1>2, <1>3, <1>4, <1>5, <1>6, <1>7, <1>8, <1>9 DEF TerminalInv

LEMMA TerminalWatchExit ==
  ASSUME TerminalInv, NEW s \in Terminals!Session, Terminals!WatchExit(s)
  PROVE  TerminalInv'
<1>1. Slots' /\ Rooms'
  <2>1. CASE s \in tReleased
    <3>1. Holding({"slot"})' = Holding({"slot"}) /\ Holding({"room", "slot"})' = Holding({"room", "slot"})
      BY <2>1 DEF TerminalInv, TerminalTypes, Holding, Terminals!WatchExit, Terminals!ReleaseSlot
    <3> QED BY <2>1, <3>1, PlacesKept DEF TerminalInv, Terminals!WatchExit, Terminals!ReleaseSlot
  <2>2. CASE s \notin tReleased
    <3>1. s \in Holding({"slot"}) /\ s \in Holding({"room", "slot"})
      BY <2>2 DEF Holding, Terminals!WatchExit
    <3>2. Holding({"slot"})' = Holding({"slot"}) \ {s}
      BY <2>2 DEF TerminalInv, TerminalTypes, Programs, Holding, Terminals!WatchExit, Terminals!ReleaseSlot
    <3>3. Holding({"room", "slot"})' = Holding({"room", "slot"}) \ {s}
      BY <2>2 DEF TerminalInv, TerminalTypes, Programs, Holding, Terminals!WatchExit, Terminals!ReleaseSlot
    <3>4. tSlots' = tSlots - 1 /\ tRoom' = tRoom - 1
      BY <2>2 DEF Terminals!WatchExit, Terminals!ReleaseSlot
    <3> QED BY <3>1, <3>2, <3>3, <3>4, PlacesBack DEF TerminalInv
  <2> QED BY <2>1, <2>2
<1>2. TerminalTypes'
  BY DEF TerminalInv, TerminalTypes, HubTypes, AskTypes, HubCalls, Calls, Tabs, Stages,
    Terminals!WatchExit, Terminals!ReleaseSlot, Terminals!Session, Terminals!Idle, Terminals!service
<1>3. Numbered'
  BY DEF TerminalInv, TerminalTypes, HubTypes, AskTypes, HubCalls, Calls, Tabs, Stages, Numbered,
    Terminals!WatchExit, Terminals!ReleaseSlot, Terminals!Session, Terminals!Idle, Terminals!service
<1>4. Fresh'
  BY DEF TerminalInv, TerminalTypes, HubTypes, AskTypes, HubCalls, Calls, Tabs, Stages, Fresh,
    Terminals!WatchExit, Terminals!ReleaseSlot, Terminals!Session, Terminals!Idle, Terminals!service
<1>5. StartsOnce'
  BY DEF TerminalInv, TerminalTypes, HubTypes, AskTypes, HubCalls, Calls, Tabs, Stages, StartsOnce,
    Terminals!WatchExit, Terminals!ReleaseSlot, Terminals!Session, Terminals!Idle, Terminals!service
<1>6. Awaited'
  BY DEF TerminalInv, TerminalTypes, HubTypes, AskTypes, HubCalls, Calls, Tabs, Stages, Awaited,
    Terminals!WatchExit, Terminals!ReleaseSlot, Terminals!Session, Terminals!Idle, Terminals!service
<1>7. Programs'
  BY DEF TerminalInv, TerminalTypes, HubTypes, AskTypes, HubCalls, Calls, Tabs, Stages, Programs,
    Terminals!WatchExit, Terminals!ReleaseSlot, Terminals!Session, Terminals!Idle, Terminals!service
<1>8. Slots'
  BY <1>1
<1>9. Rooms'
  BY <1>1
<1>10. Terminals!NoSilentOrphans'
  BY DEF TerminalInv, TerminalTypes, HubTypes, AskTypes, HubCalls, Calls, Tabs, Stages,
    Terminals!NoSilentOrphans, Terminals!WatchExit, Terminals!ReleaseSlot, Terminals!Session,
    Terminals!Idle, Terminals!service
<1> QED BY <1>2, <1>3, <1>4, <1>5, <1>6, <1>7, <1>8, <1>9, <1>10 DEF TerminalInv

LEMMA TerminalDispose ==
  ASSUME TerminalInv, NEW s \in Terminals!Session, Terminals!Dispose(s)
  PROVE  TerminalInv'
<1>1. Slots' /\ Rooms'
  <2>1. CASE s \in tReleased
    <3>1. Holding({"slot"})' = Holding({"slot"}) /\ Holding({"room", "slot"})' = Holding({"room", "slot"})
      BY <2>1 DEF TerminalInv, TerminalTypes, Holding, Terminals!Dispose, Terminals!ReleaseSlot
    <3> QED BY <2>1, <3>1, PlacesKept DEF TerminalInv, Terminals!Dispose, Terminals!ReleaseSlot
  <2>2. CASE s \notin tReleased
    <3>1. s \in Holding({"slot"}) /\ s \in Holding({"room", "slot"})
      BY <2>2 DEF Holding, Terminals!Dispose
    <3>2. Holding({"slot"})' = Holding({"slot"}) \ {s}
      BY <2>2 DEF TerminalInv, TerminalTypes, Programs, Holding, Terminals!Dispose, Terminals!ReleaseSlot
    <3>3. Holding({"room", "slot"})' = Holding({"room", "slot"}) \ {s}
      BY <2>2 DEF TerminalInv, TerminalTypes, Programs, Holding, Terminals!Dispose, Terminals!ReleaseSlot
    <3>4. tSlots' = tSlots - 1 /\ tRoom' = tRoom - 1
      BY <2>2 DEF Terminals!Dispose, Terminals!ReleaseSlot
    <3> QED BY <3>1, <3>2, <3>3, <3>4, PlacesBack DEF TerminalInv
  <2> QED BY <2>1, <2>2
<1>2. TerminalTypes'
  BY DEF TerminalInv, TerminalTypes, HubTypes, AskTypes, HubCalls, Calls, Tabs, Stages,
    Terminals!Dispose, Terminals!ReleaseSlot, Terminals!Session, Terminals!Idle, Terminals!service
<1>3. Numbered'
  BY DEF TerminalInv, TerminalTypes, HubTypes, AskTypes, HubCalls, Calls, Tabs, Stages, Numbered,
    Terminals!Dispose, Terminals!ReleaseSlot, Terminals!Session, Terminals!Idle, Terminals!service
<1>4. Fresh'
  BY DEF TerminalInv, TerminalTypes, HubTypes, AskTypes, HubCalls, Calls, Tabs, Stages, Fresh,
    Terminals!Dispose, Terminals!ReleaseSlot, Terminals!Session, Terminals!Idle, Terminals!service
<1>5. StartsOnce'
  BY DEF TerminalInv, TerminalTypes, HubTypes, AskTypes, HubCalls, Calls, Tabs, Stages, StartsOnce,
    Terminals!Dispose, Terminals!ReleaseSlot, Terminals!Session, Terminals!Idle, Terminals!service
<1>6. Awaited'
  BY DEF TerminalInv, TerminalTypes, HubTypes, AskTypes, HubCalls, Calls, Tabs, Stages, Awaited,
    Terminals!Dispose, Terminals!ReleaseSlot, Terminals!Session, Terminals!Idle, Terminals!service
<1>7. Programs'
  BY DEF TerminalInv, TerminalTypes, HubTypes, AskTypes, HubCalls, Calls, Tabs, Stages, Programs,
    Terminals!Dispose, Terminals!ReleaseSlot, Terminals!Session, Terminals!Idle, Terminals!service
<1>8. Slots'
  BY <1>1
<1>9. Rooms'
  BY <1>1
<1>10. Terminals!NoSilentOrphans'
  BY DEF TerminalInv, TerminalTypes, HubTypes, AskTypes, HubCalls, Calls, Tabs, Stages,
    Terminals!NoSilentOrphans, Terminals!Dispose, Terminals!ReleaseSlot, Terminals!Session,
    Terminals!Idle, Terminals!service
<1> QED BY <1>2, <1>3, <1>4, <1>5, <1>6, <1>7, <1>8, <1>9, <1>10 DEF TerminalInv

LEMMA TerminalAge ==
  ASSUME TerminalInv, NEW s \in Terminals!Session, Terminals!Age(s)
  PROVE  TerminalInv'
<1>1. TerminalTypes'
  BY DEF TerminalInv, TerminalTypes, HubTypes, AskTypes, HubCalls, Calls, Tabs, Stages, Terminals!Age,
    Terminals!Session, Terminals!Idle, Terminals!service
<1>2. Numbered'
  BY DEF TerminalInv, TerminalTypes, HubTypes, AskTypes, HubCalls, Calls, Tabs, Stages, Numbered,
    Terminals!Age, Terminals!Session, Terminals!Idle, Terminals!service
<1>3. Fresh'
  BY DEF TerminalInv, TerminalTypes, HubTypes, AskTypes, HubCalls, Calls, Tabs, Stages, Fresh,
    Terminals!Age, Terminals!Session, Terminals!Idle, Terminals!service
<1>4. StartsOnce'
  BY StartsKept DEF TerminalInv, Terminals!Age
<1>5. Awaited'
  BY DEF TerminalInv, TerminalTypes, HubTypes, AskTypes, HubCalls, Calls, Tabs, Stages, Awaited,
    Terminals!Age, Terminals!Session, Terminals!Idle, Terminals!service
<1>6. Programs'
  BY DEF TerminalInv, TerminalTypes, HubTypes, AskTypes, HubCalls, Calls, Tabs, Stages, Programs,
    Terminals!Age, Terminals!Session, Terminals!Idle, Terminals!service
<1>7. Slots'
  BY DEF TerminalInv, TerminalTypes, HubTypes, AskTypes, HubCalls, Calls, Tabs, Stages, Slots, Holding,
    Terminals!Age, Terminals!Session, Terminals!Idle, Terminals!service
<1>8. Rooms'
  BY DEF TerminalInv, TerminalTypes, HubTypes, AskTypes, HubCalls, Calls, Tabs, Stages, Rooms, Holding,
    Terminals!Age, Terminals!Session, Terminals!Idle, Terminals!service
<1>9. Terminals!NoSilentOrphans'
  BY DEF TerminalInv, TerminalTypes, HubTypes, AskTypes, HubCalls, Calls, Tabs, Stages,
    Terminals!NoSilentOrphans, Terminals!Age, Terminals!Session, Terminals!Idle, Terminals!service
<1> QED BY <1>1, <1>2, <1>3, <1>4, <1>5, <1>6, <1>7, <1>8, <1>9 DEF TerminalInv

LEMMA TerminalCleanup ==
  ASSUME TerminalInv, NEW s \in Terminals!Session, Terminals!Cleanup(s)
  PROVE  TerminalInv'
<1>1. TerminalTypes'
  BY DEF TerminalInv, TerminalTypes, HubTypes, AskTypes, HubCalls, Calls, Tabs, Stages,
    Terminals!Cleanup, Terminals!CloseAsync, Terminals!Session, Terminals!Idle, Terminals!service
<1>2. Numbered'
  BY DEF TerminalInv, TerminalTypes, HubTypes, AskTypes, HubCalls, Calls, Tabs, Stages, Numbered,
    Terminals!Cleanup, Terminals!CloseAsync, Terminals!Session, Terminals!Idle, Terminals!service
<1>3. Fresh'
  BY DEF TerminalInv, TerminalTypes, HubTypes, AskTypes, HubCalls, Calls, Tabs, Stages, Fresh,
    Terminals!Cleanup, Terminals!CloseAsync, Terminals!Session, Terminals!Idle, Terminals!service
<1>4. StartsOnce'
  BY DEF TerminalInv, TerminalTypes, HubTypes, AskTypes, HubCalls, Calls, Tabs, Stages, StartsOnce,
    Terminals!Cleanup, Terminals!CloseAsync, Terminals!Session, Terminals!Idle, Terminals!service
<1>5. Awaited'
  BY DEF TerminalInv, TerminalTypes, HubTypes, AskTypes, HubCalls, Calls, Tabs, Stages, Awaited,
    Terminals!Cleanup, Terminals!CloseAsync, Terminals!Session, Terminals!Idle, Terminals!service
<1>6. Programs'
  BY DEF TerminalInv, TerminalTypes, HubTypes, AskTypes, HubCalls, Calls, Tabs, Stages, Programs,
    Terminals!Cleanup, Terminals!CloseAsync, Terminals!Session, Terminals!Idle, Terminals!service
<1>7. Slots'
  BY DEF TerminalInv, TerminalTypes, HubTypes, AskTypes, HubCalls, Calls, Tabs, Stages, Slots, Holding,
    Terminals!Cleanup, Terminals!CloseAsync, Terminals!Session, Terminals!Idle, Terminals!service
<1>8. Rooms'
  BY DEF TerminalInv, TerminalTypes, HubTypes, AskTypes, HubCalls, Calls, Tabs, Stages, Rooms, Holding,
    Terminals!Cleanup, Terminals!CloseAsync, Terminals!Session, Terminals!Idle, Terminals!service
<1>9. Terminals!NoSilentOrphans'
  BY DEF TerminalInv, TerminalTypes, HubTypes, AskTypes, HubCalls, Calls, Tabs, Stages,
    Terminals!NoSilentOrphans, Terminals!Cleanup, Terminals!CloseAsync, Terminals!Session,
    Terminals!Idle, Terminals!service
<1> QED BY <1>1, <1>2, <1>3, <1>4, <1>5, <1>6, <1>7, <1>8, <1>9 DEF TerminalInv

LEMMA TerminalInit == ASSUME Terminals!Init PROVE TerminalInv
<1>1. TerminalTypes
  BY DEF Terminals!Init, TerminalTypes, HubTypes, AskTypes, HubCalls, Calls, Tabs, Stages, Terminals!Idle
<1>2. Numbered
  BY TerminalBounds DEF Terminals!Init, Numbered, Terminals!Session
<1>3. Fresh /\ StartsOnce /\ Awaited /\ Programs /\ Terminals!NoSilentOrphans
  BY DEF Terminals!Init, Fresh, StartsOnce, Awaited, Programs, Terminals!NoSilentOrphans, Terminals!Idle
<1>4. \A at : at \subseteq {"room", "slot"} => Holding(at) = {}
  BY DEF Terminals!Init, Holding
<1>5. Slots /\ Rooms
  BY <1>4, FS_EmptySet DEF Terminals!Init, Slots, Rooms
<1> QED BY <1>1, <1>2, <1>3, <1>5 DEF TerminalInv

LEMMA TerminalIdles == ASSUME TerminalInv, UNCHANGED Terminals!vars PROVE TerminalInv'
<1> USE DEF Terminals!vars
<1>1. Holding({"slot"})' = Holding({"slot"}) /\ Holding({"room", "slot"})' = Holding({"room", "slot"})
  BY DEF Holding
<1>2. Slots' /\ Rooms'
  BY <1>1, PlacesKept DEF TerminalInv
<1>3. TerminalTypes' /\ Numbered' /\ Fresh' /\ StartsOnce'
  BY DEF TerminalInv, TerminalTypes, HubTypes, AskTypes, Numbered, Fresh, StartsOnce
<1>4. Awaited' /\ Programs' /\ Terminals!NoSilentOrphans'
  BY DEF TerminalInv, Awaited, Programs, Terminals!NoSilentOrphans
<1> QED BY <1>2, <1>3, <1>4 DEF TerminalInv

LEMMA TerminalStep == ASSUME TerminalInv, [Terminals!Next]_(Terminals!vars) PROVE TerminalInv'
<1>1. ASSUME NEW c \in TerminalsConn,
             \/ Terminals!CreateBashTab(c) \/ Terminals!Unmount(c) \/ Terminals!BeginCall(c)
             \/ Terminals!Register(c) \/ Terminals!StartFails(c) \/ Terminals!AskToClose(c)
             \/ Terminals!Drop(c) \/ Terminals!CloseConnectionSessions(c)
      PROVE  TerminalInv'
  BY <1>1, TerminalCreateBashTab, TerminalUnmount, TerminalBeginCall, TerminalRegister, TerminalStartFails,
    TerminalAskToClose, TerminalDrop, TerminalCloseConnectionSessions
<1>2. ASSUME NEW s \in Terminals!Session,
             \/ Terminals!CloseTab(s) \/ Terminals!CloseTerminal(s) \/ Terminals!TryAcquire(s)
             \/ Terminals!TakeSlot(s) \/ Terminals!Launch(s) \/ Terminals!LaunchFails(s)
             \/ Terminals!ProgramEnds(s) \/ Terminals!WatchExit(s) \/ Terminals!Dispose(s)
             \/ Terminals!Age(s) \/ Terminals!Cleanup(s)
      PROVE  TerminalInv'
  BY <1>2, TerminalCloseTab, TerminalCloseTerminal, TerminalTryAcquire, TerminalTakeSlot, TerminalLaunch,
    TerminalLaunchFails, TerminalProgramEnds, TerminalWatchExit, TerminalDispose, TerminalAge, TerminalCleanup
<1>3. CASE UNCHANGED Terminals!vars
  BY <1>3, TerminalIdles
<1> QED BY <1>1, <1>2, <1>3 DEF Terminals!Next

LEMMA TerminalAlways == Terminals!Spec => []TerminalInv
BY TerminalInit, TerminalStep, PTL DEF Terminals!Spec

\* The places counted are those of programs that run, and of starts and ends
\* that are under way.
LEMMA PlacesCounted == ASSUME TerminalInv PROVE PlacesMatchContainers
<1> DEFINE runs == {s \in Terminals!Session : tProgram[s] = "runs"}
           between == {s \in Terminals!Session : tStage[s] \in {"room", "slot"}}
           begun == {s \in between : tStage[s] = "slot"}
           ending == {s \in Terminals!Session :
                         tProgram[s] = "ended" /\ s \notin tWatched /\ tStage[s] # "gone"}
<1>1. /\ runs \subseteq Holding({"slot"}) /\ Holding({"slot"}) \subseteq runs \cup ending \cup begun
      /\ runs \subseteq Holding({"room", "slot"})
       /\ Holding({"room", "slot"}) \subseteq runs \cup ending \cup between
  BY DEF TerminalInv, TerminalTypes, Programs, Holding
<1>2. IsFiniteSet(1..TerminalsMaxStarts)
  BY TerminalBounds, FS_Interval
<1>3. /\ IsFiniteSet(Holding({"slot"})) /\ IsFiniteSet(Holding({"room", "slot"}))
      /\ IsFiniteSet(runs \cup ending \cup begun) /\ IsFiniteSet(runs \cup ending \cup between)
  BY <1>2, HoldingFinite, FS_Subset DEF Terminals!Session
<1> HIDE DEF runs, between, begun, ending
<1>4. Cardinality(runs) <= Cardinality(Holding({"slot"}))
  BY <1>1, <1>3, FS_Subset
<1>5. Cardinality(Holding({"slot"})) <= Cardinality(runs \cup ending \cup begun)
  BY <1>1, <1>3, FS_Subset
<1>6. Cardinality(runs) <= Cardinality(Holding({"room", "slot"}))
  BY <1>1, <1>3, FS_Subset
<1>7. Cardinality(Holding({"room", "slot"})) <= Cardinality(runs \cup ending \cup between)
  BY <1>1, <1>3, FS_Subset
<1> QED BY <1>4, <1>5, <1>6, <1>7, TerminalCardinality DEF TerminalInv, Slots, Rooms, PlacesMatchContainers,
  Terminals!PlacesMatchContainers, runs, between, begun, ending

\* The counters of the terminal service stand for the containers that run, and for
\* nothing else once the launches and exits under way are over, for any numbers of
\* connections, terminals and places: each place taken by TryAcquire is given back
\* once, by whichever of the watcher, the disposal and the failed launch comes first.
THEOREM TerminalPlacesAreContainers == Terminals!Spec => []PlacesMatchContainers
BY TerminalAlways, PlacesCounted, PTL

\* A terminal that runs is shown by its panel or on its way to be registered or
\* closed, unless a message about it was lost, in whatever order a panel goes, a
\* registration is refused and a connection ends.
THEOREM TerminalsAreKnown == Terminals!Spec => []NoSilentOrphans
<1>1. TerminalInv => NoSilentOrphans
  BY DEF TerminalInv, NoSilentOrphans
<1> QED BY <1>1, TerminalAlways, PTL

-----------------------------------------------------------------------------
(* LanguageServers: the servers of a connection that count are listed, reserved   *)
(* or about to be listed, and those listed can be found when the connection ends. *)

ServerStages == {"none", "asked", "launching", "refused", "live", "closing", "gone"}
Begun == {"live", "closing", "gone"}
Publishing == {"list", "key", "ticket"}
ServerCalls ==
  {Servers!Idle} \cup [at : {"starting"} \cup Publishing, s : Servers!Session] \cup [at : {"over"}, s : {0}]

ServerTypes ==
  /\ lUp \subseteq ServersConn /\ lHub \in [ServersConn -> ServerCalls]
  /\ lOwner \in [Servers!Session -> ServersConn \cup {"nobody"}]
  /\ {lReserved, lListed, lKey, lTicket, lToClose, lAged} \subseteq SUBSET Servers!Session
  /\ lStage \in [Servers!Session -> ServerStages]
  /\ lProxy \in [Servers!Session -> {"none", "consumed", "joining", "open", "ended"}]

\* Sessions are numbered in the order they are asked for.
ServersNumbered ==
  \E n \in 0..ServersMaxStarts : \A s \in Servers!Session : lOwner[s] # "nobody" <=> s <= n

\* What Redis, the sockets and the requests know of began.
ServersBegan ==
  /\ \A s \in Servers!Session :
       (lStage[s] = "none" <=> lOwner[s] = "nobody") /\ (lProxy[s] # "none" => lStage[s] \in Begun)
  /\ \A s \in lListed \cup lKey \cup lTicket \cup lToClose \cup lAged : lStage[s] \in Begun
  /\ \A s \in lReserved : lStage[s] # "none"

\* A call is about a session of its connection; none comes after the end.
HubServes ==
  \A c \in ServersConn :
    /\ lHub[c].at \in {"starting"} \cup Publishing => lOwner[lHub[c].s] = c /\ lStage[lHub[c].s] # "none"
    /\ lHub[c].at \in Publishing => lStage[lHub[c].s] \in Begun
    /\ lHub[c].at = "over" => c \notin lUp /\ \A s \in lListed : lOwner[s] # c

\* The servers of a connection that run or will, and that nothing hides or closes.
Counted(c) ==
  {s \in Servers!Session : /\ lOwner[s] = c /\ lStage[s] \in {"asked", "launching", "live"}
                           /\ s \notin lLost \cup lToClose}
Held(c, s) == s \in lListed \cup lReserved \/ (lHub[c].at = "list" /\ lHub[c].s = s)
Findable(c, s) ==
  \/ lHub[c].at \in {"starting", "list"} /\ lHub[c].s = s
  \/ s \in lListed /\ (s \in lKey \/ (lHub[c].at = "key" /\ lHub[c].s = s))

ServersWithin ==
  \A c \in ServersConn : /\ Cardinality(Counted(c)) <= ServersMaximumSessionsPerConnection
                         /\ c \in lUp => \A s \in Counted(c) : Held(c, s)
ServersFound == \A c \in ServersConn : \A s \in Counted(c) : s \in lAged \/ Findable(c, s)

ServerInv == ServerTypes /\ ServersNumbered /\ ServersBegan /\ HubServes /\ ServersWithin /\ ServersFound

LEMMA ServerBounds ==
  ServersMaxStarts \in Nat /\ ServersMaximumSessionsPerConnection \in Nat /\ "nobody" \notin ServersConn
BY ExecutionAssumption DEF Servers!LanguageServerAssumption

LEMMA ServerCardinality == \A S : Servers!Cardinality(S) = Cardinality(S)
BY DEF Servers!Cardinality, Cardinality

LEMMA CountedFinite == \A S \in SUBSET Servers!Session : IsFiniteSet(S)
<1>1. IsFiniteSet(1..ServersMaxStarts)
  BY ServerBounds, FS_Interval
<1> QED BY <1>1, FS_Subset DEF Servers!Session

\* An action that starts no server and forgets none that counts.
LEMMA WithinKept ==
  ASSUME ServersWithin,
         \A c \in ServersConn : Counted(c)' \subseteq Counted(c),
         \A c \in ServersConn : c \in lUp' => c \in lUp /\ \A s \in Counted(c)' : Held(c, s) => Held(c, s)'
  PROVE  ServersWithin'
<1>1. ASSUME NEW c \in ServersConn
      PROVE  Cardinality(Counted(c)') <= ServersMaximumSessionsPerConnection
  <2>1. IsFiniteSet(Counted(c)) /\ Counted(c)' \subseteq Counted(c)
    BY CountedFinite DEF Counted
  <2>2. Cardinality(Counted(c)') <= Cardinality(Counted(c)) /\ Cardinality(Counted(c)') \in Nat
        /\ Cardinality(Counted(c)) \in Nat
    BY <2>1, FS_Subset, FS_CardinalityType
  <2>3. Cardinality(Counted(c)) <= ServersMaximumSessionsPerConnection
    BY DEF ServersWithin
  <2> QED BY <2>2, <2>3, ServerBounds
<1>2. ASSUME NEW c \in ServersConn, c \in lUp', NEW s \in Counted(c)' PROVE Held(c, s)'
  BY <1>2 DEF ServersWithin
<1> QED BY <1>1, <1>2 DEF ServersWithin

LEMMA ServerReserve ==
  ASSUME ServerInv, NEW c \in ServersConn, Servers!Reserve(c)
  PROVE  ServerInv'
<1>1. PICK n \in 0..ServersMaxStarts :
        /\ \A k \in Servers!Session : lOwner[k] # "nobody" <=> k <= n
        /\ Servers!started = n
  <2>1. PICK n \in 0..ServersMaxStarts : \A k \in Servers!Session : lOwner[k] # "nobody" <=> k <= n
    BY DEF ServerInv, ServersNumbered
  <2>2. {k \in Servers!Session : lOwner[k] # "nobody"} = {k \in 1..ServersMaxStarts : k <= n}
    BY <2>1 DEF Servers!Session
  <2>3. Cardinality({k \in Servers!Session : lOwner[k] # "nobody"}) = n
    BY <2>1, <2>2, ServerBounds, NextNumber
  <2>4. Servers!started = Cardinality({k \in Servers!Session : lOwner[k] # "nobody"})
    BY ServerCardinality DEF Servers!started
  <2> QED BY <2>1, <2>3, <2>4
<1>2. PICK s \in Servers!Session : s = n + 1
  BY <1>1 DEF Servers!Reserve
<1>3. lOwner[s] = "nobody" /\ lStage[s] = "none" /\ c # "nobody"
  <2>1. lOwner[s] = "nobody"
    BY <1>1, <1>2 DEF Servers!Session
  <2> QED BY <2>1, ServerBounds DEF ServerInv, ServersBegan
<1>4. /\ \A k \in Servers!Session : lOwner'[k] = IF k = s THEN c ELSE lOwner[k]
      /\ \A k \in Servers!Session : lStage'[k] = IF k = s THEN "asked" ELSE lStage[k]
      /\ \A d \in ServersConn : lHub'[d] = IF d = c THEN [at |-> "starting", s |-> s] ELSE lHub[d]
      /\ lReserved' = lReserved \cup {s} /\ c \in lUp /\ lHub[c] = Servers!Idle
  BY <1>1, <1>2 DEF ServerInv, ServerTypes, Servers!Reserve
<1>5. UNCHANGED <<lUp, lListed, lKey, lTicket, lProxy, lToClose, lAged, lLost>>
  BY DEF Servers!Reserve
<1>6. \A d \in ServersConn : Counted(d)' \subseteq IF d = c THEN Counted(d) \cup {s} ELSE Counted(d)
  BY <1>3, <1>4, <1>5 DEF Counted
<1>7. ServerTypes'
  BY DEF ServerInv, ServerTypes, ServerCalls, ServerStages, Publishing, Begun, Servers!Reserve,
    Servers!Session, Servers!Idle, Servers!redis
<1>8. ServersNumbered'
  <2>1. n + 1 \in 0..ServersMaxStarts
    BY <1>1, <1>2 DEF Servers!Session
  <2>2. \A k \in Servers!Session : lOwner'[k] # "nobody" <=> k <= n + 1
    BY <1>1, <1>2, <1>3, <1>4 DEF Servers!Session
  <2> QED BY <2>1, <2>2 DEF ServersNumbered
<1>9. ServersBegan'
  BY <1>3, <1>4, <1>5 DEF ServerInv, ServersBegan, Begun, ServerTypes
<1>10. HubServes'
  BY <1>3, <1>4, <1>5 DEF ServerInv, HubServes, ServerTypes, ServerCalls, Publishing, Servers!Idle
<1>11. ServersWithin'
  <2>1. ASSUME NEW d \in ServersConn, d \in lUp', NEW k \in Counted(d)' PROVE Held(d, k)'
    <3>1. k = s \/ (k \in Counted(d) /\ d \in lUp)
      BY <1>4, <1>5, <1>6, <2>1
    <3>2. CASE k = s
      BY <1>4, <3>2 DEF Held
    <3>3. CASE k \in Counted(d) /\ d \in lUp
      <4>1. Held(d, k)
        BY <3>3 DEF ServerInv, ServersWithin
      <4> QED BY <1>4, <1>5, <4>1 DEF Held, Servers!Idle
    <3> QED BY <3>1, <3>2, <3>3
  <2>2. Cardinality(Counted(c)') <= ServersMaximumSessionsPerConnection
    <3> DEFINE L == Servers!Of(c, lListed)
               R == Servers!Of(c, lReserved)
    <3>1. Counted(c) \subseteq L \cup R
      <4>1. \A k \in Counted(c) : k \in lListed \cup lReserved /\ lOwner[k] = c
        <5>1. lHub[c].at # "list" /\ c \in lUp
          BY <1>4 DEF Servers!Idle
        <5>2. \A k \in Counted(c) : Held(c, k)
          BY <5>1 DEF ServerInv, ServersWithin
        <5> QED BY <5>1, <5>2 DEF Held, Counted
      <4> QED BY <4>1 DEF Servers!Of
    <3>2. IsFiniteSet(L) /\ IsFiniteSet(R) /\ IsFiniteSet(Counted(c)) /\ IsFiniteSet(L \cup R)
      BY CountedFinite DEF ServerInv, ServerTypes, Counted, Servers!Of
    <3>3. Cardinality(R) + Cardinality(L) < ServersMaximumSessionsPerConnection
      BY ServerCardinality DEF Servers!Reserve
    <3> HIDE DEF L, R
    <3>4. /\ Cardinality(L) \in Nat /\ Cardinality(R) \in Nat /\ Cardinality(L \cap R) \in Nat
          /\ Cardinality(L \cup R) \in Nat /\ Cardinality(Counted(c)) \in Nat
      BY <3>2, FS_CardinalityType, FS_Intersection
    <3>5. Cardinality(L \cup R) = Cardinality(L) + Cardinality(R) - Cardinality(L \cap R)
      BY <3>2, FS_Union
    <3>6. Cardinality(Counted(c)) <= Cardinality(L \cup R)
      BY <3>1, <3>2, FS_Subset
    <3>7. IsFiniteSet(Counted(c) \cup {s}) /\ Cardinality(Counted(c) \cup {s}) <= Cardinality(Counted(c)) + 1
      <4>1. s \notin Counted(c)
        BY <1>3 DEF Counted
      <4>2. /\ IsFiniteSet(Counted(c) \cup {s})
            /\ Cardinality(Counted(c) \cup {s}) = Cardinality(Counted(c)) + 1
        BY <3>2, <4>1, OneMore
      <4> QED BY <3>4, <4>2
    <3>8. Counted(c)' \subseteq Counted(c) \cup {s}
      BY <1>6
    <3>9. /\ Cardinality(Counted(c)') <= Cardinality(Counted(c) \cup {s}) /\ Cardinality(Counted(c)') \in Nat
          /\ Cardinality(Counted(c) \cup {s}) \in Nat
      BY <3>7, <3>8, FS_Subset, FS_CardinalityType
    <3> QED BY <3>3, <3>4, <3>5, <3>6, <3>7, <3>9, ServerBounds
  <2>3. ASSUME NEW d \in ServersConn, d # c
        PROVE Cardinality(Counted(d)') <= ServersMaximumSessionsPerConnection
    <3>1. IsFiniteSet(Counted(d)) /\ Counted(d)' \subseteq Counted(d)
      BY <1>6, <2>3, CountedFinite DEF Counted
    <3>2. /\ Cardinality(Counted(d)') <= Cardinality(Counted(d)) /\ Cardinality(Counted(d)') \in Nat
          /\ Cardinality(Counted(d)) \in Nat
      BY <3>1, FS_Subset, FS_CardinalityType
    <3>3. Cardinality(Counted(d)) <= ServersMaximumSessionsPerConnection
      BY DEF ServerInv, ServersWithin
    <3> QED BY <3>2, <3>3, ServerBounds
  <2> QED BY <2>1, <2>2, <2>3 DEF ServersWithin
<1>12. ServersFound'
  <2>1. \A d \in ServersConn : \A k \in Counted(d)' : (k = s /\ d = c) \/ (k # s /\ k \in Counted(d))
    BY <1>3, <1>4, <1>6 DEF Counted
  <2>2. Findable(c, s)'
    BY <1>4 DEF Findable
  <2>3. \A d \in ServersConn : \A k \in Servers!Session : k # s /\ Findable(d, k) => Findable(d, k)'
    BY <1>4, <1>5 DEF Findable, Servers!Idle, Servers!Session
  <2> QED BY <1>5, <2>1, <2>2, <2>3 DEF ServerInv, ServersFound, Counted
<1> QED BY <1>7, <1>8, <1>9, <1>10, <1>11, <1>12 DEF ServerInv

LEMMA ServerStartFails ==
  ASSUME ServerInv, NEW c \in ServersConn, Servers!StartFails(c)
  PROVE  ServerInv'
<1>1. ServerTypes'
  BY DEF ServerInv, ServerTypes, ServerCalls, ServerStages, Publishing, Begun, Servers!StartFails,
    Servers!MayFail, Servers!Session, Servers!Idle, Servers!redis
<1>2. ServersNumbered'
  BY DEF ServerInv, ServerTypes, Begun, ServersNumbered, Servers!StartFails, Servers!MayFail,
    Servers!Session, Servers!Idle, Servers!redis
<1>3. ServersBegan'
  BY DEF ServerInv, ServerTypes, Begun, ServersBegan, Servers!StartFails, Servers!MayFail,
    Servers!Session, Servers!Idle, Servers!redis
<1>4. HubServes'
  BY DEF ServerInv, ServerTypes, ServerCalls, ServerStages, Publishing, Begun, HubServes, ServersBegan,
    Servers!StartFails, Servers!MayFail, Servers!Session, Servers!Idle, Servers!redis
<1>5. \A d \in ServersConn : Counted(d)' \subseteq Counted(d)
  BY DEF ServerInv, ServerTypes, Begun, ServersBegan, Counted, Servers!StartFails, Servers!MayFail,
    Servers!Session, Servers!Idle, Servers!redis
<1>6. \A d \in ServersConn : d \in lUp' => d \in lUp /\ \A k \in Counted(d)' : Held(d, k) => Held(d, k)'
  BY DEF ServerInv, ServerTypes, ServerCalls, ServerStages, Publishing, Begun, ServersBegan, HubServes,
    Counted, Held, Servers!StartFails, Servers!MayFail, Servers!Session, Servers!Idle, Servers!redis
<1>7. ServersWithin'
  BY <1>5, <1>6, WithinKept DEF ServerInv
<1>8. ServersFound'
  BY DEF ServerInv, ServerTypes, ServerCalls, ServerStages, Publishing, Begun, ServersBegan, HubServes,
    ServersFound, Counted, Findable, Servers!StartFails, Servers!MayFail, Servers!Session,
    Servers!Idle, Servers!redis
<1> QED BY <1>1, <1>2, <1>3, <1>4, <1>7, <1>8 DEF ServerInv

LEMMA ServerUnreserve ==
  ASSUME ServerInv, NEW c \in ServersConn, Servers!Unreserve(c)
  PROVE  ServerInv'
<1>1. ServerTypes'
  BY DEF ServerInv, ServerTypes, ServerCalls, ServerStages, Publishing, Begun, Servers!Unreserve,
    Servers!Session, Servers!Idle, Servers!redis
<1>2. ServersNumbered'
  BY DEF ServerInv, ServerTypes, Begun, ServersNumbered, Servers!Unreserve, Servers!Session,
    Servers!Idle, Servers!redis
<1>3. ServersBegan'
  BY DEF ServerInv, ServerTypes, Begun, ServersBegan, Servers!Unreserve, Servers!Session, Servers!Idle,
    Servers!redis
<1>4. HubServes'
  BY DEF ServerInv, ServerTypes, ServerCalls, ServerStages, Publishing, Begun, HubServes, ServersBegan,
    Servers!Unreserve, Servers!Session, Servers!Idle, Servers!redis
<1>5. \A d \in ServersConn : Counted(d)' \subseteq Counted(d)
  BY DEF ServerInv, ServerTypes, Begun, ServersBegan, Counted, Servers!Unreserve, Servers!Session,
    Servers!Idle, Servers!redis
<1>6. \A d \in ServersConn : d \in lUp' => d \in lUp /\ \A k \in Counted(d)' : Held(d, k) => Held(d, k)'
  BY DEF ServerInv, ServerTypes, ServerCalls, ServerStages, Publishing, Begun, ServersBegan, HubServes,
    Counted, Held, Servers!Unreserve, Servers!Session, Servers!Idle, Servers!redis
<1>7. ServersWithin'
  BY <1>5, <1>6, WithinKept DEF ServerInv
<1>8. ServersFound'
  BY DEF ServerInv, ServerTypes, ServerCalls, ServerStages, Publishing, Begun, ServersBegan, HubServes,
    ServersFound, Counted, Findable, Servers!Unreserve, Servers!Session, Servers!Idle, Servers!redis
<1> QED BY <1>1, <1>2, <1>3, <1>4, <1>7, <1>8 DEF ServerInv

LEMMA ServerList ==
  ASSUME ServerInv, NEW c \in ServersConn, Servers!List(c)
  PROVE  ServerInv'
<1>1. ServerTypes'
  BY DEF ServerInv, ServerTypes, ServerCalls, ServerStages, Publishing, Begun, Servers!List,
    Servers!Session, Servers!Idle, Servers!redis
<1>2. ServersNumbered'
  BY DEF ServerInv, ServerTypes, Begun, ServersNumbered, Servers!List, Servers!Session, Servers!Idle,
    Servers!redis
<1>3. ServersBegan'
  BY DEF ServerInv, ServerTypes, ServerCalls, ServerStages, Publishing, Begun, ServersBegan, HubServes,
    Servers!List, Servers!Session, Servers!Idle, Servers!redis
<1>4. HubServes'
  BY DEF ServerInv, ServerTypes, ServerCalls, ServerStages, Publishing, Begun, HubServes, ServersBegan,
    Servers!List, Servers!Session, Servers!Idle, Servers!redis
<1>5. \A d \in ServersConn : Counted(d)' \subseteq Counted(d)
  BY DEF ServerInv, ServerTypes, Begun, ServersBegan, Counted, Servers!List, Servers!Session,
    Servers!Idle, Servers!redis
<1>6. \A d \in ServersConn : d \in lUp' => d \in lUp /\ \A k \in Counted(d)' : Held(d, k) => Held(d, k)'
  BY DEF ServerInv, ServerTypes, ServerCalls, ServerStages, Publishing, Begun, ServersBegan, HubServes,
    Counted, Held, Servers!List, Servers!Session, Servers!Idle, Servers!redis
<1>7. ServersWithin'
  BY <1>5, <1>6, WithinKept DEF ServerInv
<1>8. ServersFound'
  BY DEF ServerInv, ServerTypes, ServerCalls, ServerStages, Publishing, Begun, ServersBegan, HubServes,
    ServersFound, Counted, Findable, Servers!List, Servers!Session, Servers!Idle, Servers!redis
<1> QED BY <1>1, <1>2, <1>3, <1>4, <1>7, <1>8 DEF ServerInv

LEMMA ServerSetKey ==
  ASSUME ServerInv, NEW c \in ServersConn, Servers!SetKey(c)
  PROVE  ServerInv'
<1>1. ServerTypes'
  BY DEF ServerInv, ServerTypes, ServerCalls, ServerStages, Publishing, Begun, Servers!SetKey,
    Servers!Session, Servers!Idle, Servers!redis
<1>2. ServersNumbered'
  BY DEF ServerInv, ServerTypes, Begun, ServersNumbered, Servers!SetKey, Servers!Session, Servers!Idle,
    Servers!redis
<1>3. ServersBegan'
  BY DEF ServerInv, ServerTypes, ServerCalls, ServerStages, Publishing, Begun, ServersBegan, HubServes,
    Servers!SetKey, Servers!Session, Servers!Idle, Servers!redis
<1>4. HubServes'
  BY DEF ServerInv, ServerTypes, ServerCalls, ServerStages, Publishing, Begun, HubServes, ServersBegan,
    Servers!SetKey, Servers!Session, Servers!Idle, Servers!redis
<1>5. \A d \in ServersConn : Counted(d)' \subseteq Counted(d)
  BY DEF ServerInv, ServerTypes, Begun, ServersBegan, Counted, Servers!SetKey, Servers!Session,
    Servers!Idle, Servers!redis
<1>6. \A d \in ServersConn : d \in lUp' => d \in lUp /\ \A k \in Counted(d)' : Held(d, k) => Held(d, k)'
  BY DEF ServerInv, ServerTypes, ServerCalls, ServerStages, Publishing, Begun, ServersBegan, HubServes,
    Counted, Held, Servers!SetKey, Servers!Session, Servers!Idle, Servers!redis
<1>7. ServersWithin'
  BY <1>5, <1>6, WithinKept DEF ServerInv
<1>8. ServersFound'
  BY DEF ServerInv, ServerTypes, ServerCalls, ServerStages, Publishing, Begun, ServersBegan, HubServes,
    ServersFound, Counted, Findable, Servers!SetKey, Servers!Session, Servers!Idle, Servers!redis
<1> QED BY <1>1, <1>2, <1>3, <1>4, <1>7, <1>8 DEF ServerInv

LEMMA ServerSetTicket ==
  ASSUME ServerInv, NEW c \in ServersConn, Servers!SetTicket(c)
  PROVE  ServerInv'
<1>1. ServerTypes'
  BY DEF ServerInv, ServerTypes, ServerCalls, ServerStages, Publishing, Begun, Servers!SetTicket,
    Servers!Session, Servers!Idle, Servers!redis
<1>2. ServersNumbered'
  BY DEF ServerInv, ServerTypes, Begun, ServersNumbered, Servers!SetTicket, Servers!Session,
    Servers!Idle, Servers!redis
<1>3. ServersBegan'
  BY DEF ServerInv, ServerTypes, ServerCalls, ServerStages, Publishing, Begun, ServersBegan, HubServes,
    Servers!SetTicket, Servers!Session, Servers!Idle, Servers!redis
<1>4. HubServes'
  BY DEF ServerInv, ServerTypes, ServerCalls, ServerStages, Publishing, Begun, HubServes, ServersBegan,
    Servers!SetTicket, Servers!Session, Servers!Idle, Servers!redis
<1>5. \A d \in ServersConn : Counted(d)' \subseteq Counted(d)
  BY DEF ServerInv, ServerTypes, Begun, ServersBegan, Counted, Servers!SetTicket, Servers!Session,
    Servers!Idle, Servers!redis
<1>6. \A d \in ServersConn : d \in lUp' => d \in lUp /\ \A k \in Counted(d)' : Held(d, k) => Held(d, k)'
  BY DEF ServerInv, ServerTypes, ServerCalls, ServerStages, Publishing, Begun, ServersBegan, HubServes,
    Counted, Held, Servers!SetTicket, Servers!Session, Servers!Idle, Servers!redis
<1>7. ServersWithin'
  BY <1>5, <1>6, WithinKept DEF ServerInv
<1>8. ServersFound'
  BY DEF ServerInv, ServerTypes, ServerCalls, ServerStages, Publishing, Begun, ServersBegan, HubServes,
    ServersFound, Counted, Findable, Servers!SetTicket, Servers!Session, Servers!Idle, Servers!redis
<1> QED BY <1>1, <1>2, <1>3, <1>4, <1>7, <1>8 DEF ServerInv

LEMMA ServerPublishFails ==
  ASSUME ServerInv, NEW c \in ServersConn, Servers!PublishFails(c)
  PROVE  ServerInv'
<1>1. ServerTypes'
  BY DEF ServerInv, ServerTypes, ServerCalls, ServerStages, Publishing, Begun, Servers!PublishFails,
    Servers!MayFail, Servers!Session, Servers!Idle, Servers!redis
<1>2. ServersNumbered'
  BY DEF ServerInv, ServerTypes, Begun, ServersNumbered, Servers!PublishFails, Servers!MayFail,
    Servers!Session, Servers!Idle, Servers!redis
<1>3. ServersBegan'
  BY DEF ServerInv, ServerTypes, ServerCalls, ServerStages, Publishing, Begun, ServersBegan, HubServes,
    Servers!PublishFails, Servers!MayFail, Servers!Session, Servers!Idle, Servers!redis
<1>4. HubServes'
  BY DEF ServerInv, ServerTypes, ServerCalls, ServerStages, Publishing, Begun, HubServes, ServersBegan,
    Servers!PublishFails, Servers!MayFail, Servers!Session, Servers!Idle, Servers!redis
<1>5. \A d \in ServersConn : Counted(d)' \subseteq Counted(d)
  BY DEF ServerInv, ServerTypes, Begun, ServersBegan, Counted, Servers!PublishFails, Servers!MayFail,
    Servers!Session, Servers!Idle, Servers!redis
<1>6. \A d \in ServersConn : d \in lUp' => d \in lUp /\ \A k \in Counted(d)' : Held(d, k) => Held(d, k)'
  BY DEF ServerInv, ServerTypes, ServerCalls, ServerStages, Publishing, Begun, ServersBegan, HubServes,
    Counted, Held, Servers!PublishFails, Servers!MayFail, Servers!Session, Servers!Idle, Servers!redis
<1>7. ServersWithin'
  BY <1>5, <1>6, WithinKept DEF ServerInv
<1>8. ServersFound'
  BY DEF ServerInv, ServerTypes, ServerCalls, ServerStages, Publishing, Begun, ServersBegan, HubServes,
    ServersFound, Counted, Findable, Servers!PublishFails, Servers!MayFail, Servers!Session,
    Servers!Idle, Servers!redis
<1> QED BY <1>1, <1>2, <1>3, <1>4, <1>7, <1>8 DEF ServerInv

LEMMA ServerDrop ==
  ASSUME ServerInv, NEW c \in ServersConn, Servers!Drop(c)
  PROVE  ServerInv'
<1>1. ServerTypes'
  BY DEF ServerInv, ServerTypes, ServerCalls, ServerStages, Publishing, Begun, Servers!Drop,
    Servers!Session, Servers!Idle, Servers!redis
<1>2. ServersNumbered'
  BY DEF ServerInv, ServerTypes, Begun, ServersNumbered, Servers!Drop, Servers!Session, Servers!Idle,
    Servers!redis
<1>3. ServersBegan'
  BY DEF ServerInv, ServerTypes, Begun, ServersBegan, Servers!Drop, Servers!Session, Servers!Idle,
    Servers!redis
<1>4. HubServes'
  BY DEF ServerInv, ServerTypes, ServerCalls, ServerStages, Publishing, Begun, HubServes, ServersBegan,
    Servers!Drop, Servers!Session, Servers!Idle, Servers!redis
<1>5. \A d \in ServersConn : Counted(d)' \subseteq Counted(d)
  BY DEF ServerInv, ServerTypes, Begun, ServersBegan, Counted, Servers!Drop, Servers!Session,
    Servers!Idle, Servers!redis
<1>6. \A d \in ServersConn : d \in lUp' => d \in lUp /\ \A k \in Counted(d)' : Held(d, k) => Held(d, k)'
  BY DEF ServerInv, ServerTypes, ServerCalls, ServerStages, Publishing, Begun, ServersBegan, HubServes,
    Counted, Held, Servers!Drop, Servers!Session, Servers!Idle, Servers!redis
<1>7. ServersWithin'
  BY <1>5, <1>6, WithinKept DEF ServerInv
<1>8. ServersFound'
  BY DEF ServerInv, ServerTypes, ServerCalls, ServerStages, Publishing, Begun, ServersBegan, HubServes,
    ServersFound, Counted, Findable, Servers!Drop, Servers!Session, Servers!Idle, Servers!redis
<1> QED BY <1>1, <1>2, <1>3, <1>4, <1>7, <1>8 DEF ServerInv

LEMMA ServerCloseConnectionSession ==
  ASSUME ServerInv, NEW c \in ServersConn, Servers!CloseConnectionSession(c)
  PROVE  ServerInv'
<1>1. ServerTypes'
  BY DEF ServerInv, ServerTypes, ServerCalls, ServerStages, Publishing, Begun,
    Servers!CloseConnectionSession, Servers!CloseSession, Servers!Of, Servers!Session, Servers!Idle,
    Servers!redis
<1>2. ServersNumbered'
  BY DEF ServerInv, ServerTypes, Begun, ServersNumbered, Servers!CloseConnectionSession,
    Servers!CloseSession, Servers!Of, Servers!Session, Servers!Idle, Servers!redis
<1>3. ServersBegan'
  BY DEF ServerInv, ServerTypes, Begun, ServersBegan, Servers!CloseConnectionSession,
    Servers!CloseSession, Servers!Of, Servers!Session, Servers!Idle, Servers!redis
<1>4. HubServes'
  BY DEF ServerInv, ServerTypes, ServerCalls, ServerStages, Publishing, Begun, HubServes, ServersBegan,
    Servers!CloseConnectionSession, Servers!CloseSession, Servers!Of, Servers!Session, Servers!Idle,
    Servers!redis
<1>5. \A d \in ServersConn : Counted(d)' \subseteq Counted(d)
  BY DEF ServerInv, ServerTypes, Begun, ServersBegan, Counted, Servers!CloseConnectionSession,
    Servers!CloseSession, Servers!Of, Servers!Session, Servers!Idle, Servers!redis
<1>6. \A d \in ServersConn : d \in lUp' => d \in lUp /\ \A k \in Counted(d)' : Held(d, k) => Held(d, k)'
  BY DEF ServerInv, ServerTypes, ServerCalls, ServerStages, Publishing, Begun, ServersBegan, HubServes,
    Counted, Held, Servers!CloseConnectionSession, Servers!CloseSession, Servers!Of, Servers!Session,
    Servers!Idle, Servers!redis
<1>7. ServersWithin'
  BY <1>5, <1>6, WithinKept DEF ServerInv
<1>8. ServersFound'
  BY DEF ServerInv, ServerTypes, ServerCalls, ServerStages, Publishing, Begun, ServersBegan, HubServes,
    ServersFound, Counted, Findable, Servers!CloseConnectionSession, Servers!CloseSession, Servers!Of,
    Servers!Session, Servers!Idle, Servers!redis
<1> QED BY <1>1, <1>2, <1>3, <1>4, <1>7, <1>8 DEF ServerInv

LEMMA ServerDeleteConnection ==
  ASSUME ServerInv, NEW c \in ServersConn, Servers!DeleteConnection(c)
  PROVE  ServerInv'
<1>1. ServerTypes'
  BY DEF ServerInv, ServerTypes, ServerCalls, ServerStages, Publishing, Begun,
    Servers!DeleteConnection, Servers!Of, Servers!Session, Servers!Idle, Servers!redis
<1>2. ServersNumbered'
  BY DEF ServerInv, ServerTypes, Begun, ServersNumbered, Servers!DeleteConnection, Servers!Of,
    Servers!Session, Servers!Idle, Servers!redis
<1>3. ServersBegan'
  BY DEF ServerInv, ServerTypes, Begun, ServersBegan, Servers!DeleteConnection, Servers!Of,
    Servers!Session, Servers!Idle, Servers!redis
<1>4. HubServes'
  BY DEF ServerInv, ServerTypes, ServerCalls, ServerStages, Publishing, Begun, HubServes, ServersBegan,
    Servers!DeleteConnection, Servers!Of, Servers!Session, Servers!Idle, Servers!redis
<1>5. \A d \in ServersConn : Counted(d)' \subseteq Counted(d)
  BY DEF ServerInv, ServerTypes, Begun, ServersBegan, Counted, Servers!DeleteConnection, Servers!Of,
    Servers!Session, Servers!Idle, Servers!redis
<1>6. \A d \in ServersConn : d \in lUp' => d \in lUp /\ \A k \in Counted(d)' : Held(d, k) => Held(d, k)'
  BY DEF ServerInv, ServerTypes, ServerCalls, ServerStages, Publishing, Begun, ServersBegan, HubServes,
    Counted, Held, Servers!DeleteConnection, Servers!Of, Servers!Session, Servers!Idle, Servers!redis
<1>7. ServersWithin'
  BY <1>5, <1>6, WithinKept DEF ServerInv
<1>8. ServersFound'
  BY DEF ServerInv, ServerTypes, ServerCalls, ServerStages, Publishing, Begun, ServersBegan, HubServes,
    ServersFound, Counted, Findable, Servers!DeleteConnection, Servers!Of, Servers!Session,
    Servers!Idle, Servers!redis
<1> QED BY <1>1, <1>2, <1>3, <1>4, <1>7, <1>8 DEF ServerInv

LEMMA ServerConsumeTicket ==
  ASSUME ServerInv, NEW s \in Servers!Session, Servers!ConsumeTicket(s)
  PROVE  ServerInv'
<1>1. ServerTypes'
  BY DEF ServerInv, ServerTypes, ServerCalls, ServerStages, Publishing, Begun, Servers!ConsumeTicket,
    Servers!Session, Servers!Idle, Servers!redis
<1>2. ServersNumbered'
  BY DEF ServerInv, ServerTypes, Begun, ServersNumbered, Servers!ConsumeTicket, Servers!Session,
    Servers!Idle, Servers!redis
<1>3. ServersBegan'
  BY DEF ServerInv, ServerTypes, Begun, ServersBegan, Servers!ConsumeTicket, Servers!Session,
    Servers!Idle, Servers!redis
<1>4. HubServes'
  BY DEF ServerInv, ServerTypes, ServerCalls, ServerStages, Publishing, Begun, HubServes, ServersBegan,
    Servers!ConsumeTicket, Servers!Session, Servers!Idle, Servers!redis
<1>5. \A d \in ServersConn : Counted(d)' \subseteq Counted(d)
  BY DEF ServerInv, ServerTypes, Begun, ServersBegan, Counted, Servers!ConsumeTicket, Servers!Session,
    Servers!Idle, Servers!redis
<1>6. \A d \in ServersConn : d \in lUp' => d \in lUp /\ \A k \in Counted(d)' : Held(d, k) => Held(d, k)'
  BY DEF ServerInv, ServerTypes, ServerCalls, ServerStages, Publishing, Begun, ServersBegan, HubServes,
    Counted, Held, Servers!ConsumeTicket, Servers!Session, Servers!Idle, Servers!redis
<1>7. ServersWithin'
  BY <1>5, <1>6, WithinKept DEF ServerInv
<1>8. ServersFound'
  BY DEF ServerInv, ServerTypes, ServerCalls, ServerStages, Publishing, Begun, ServersBegan, HubServes,
    ServersFound, Counted, Findable, Servers!ConsumeTicket, Servers!Session, Servers!Idle,
    Servers!redis
<1> QED BY <1>1, <1>2, <1>3, <1>4, <1>7, <1>8 DEF ServerInv

LEMMA ServerCheckTicket ==
  ASSUME ServerInv, NEW s \in Servers!Session, Servers!CheckTicket(s)
  PROVE  ServerInv'
<1>1. ServerTypes'
  BY DEF ServerInv, ServerTypes, ServerCalls, ServerStages, Publishing, Begun, Servers!CheckTicket,
    Servers!CloseSession, Servers!Session, Servers!Idle, Servers!redis
<1>2. ServersNumbered'
  BY DEF ServerInv, ServerTypes, Begun, ServersNumbered, Servers!CheckTicket, Servers!CloseSession,
    Servers!Session, Servers!Idle, Servers!redis
<1>3. ServersBegan'
  BY DEF ServerInv, ServerTypes, Begun, ServersBegan, Servers!CheckTicket, Servers!CloseSession,
    Servers!Session, Servers!Idle, Servers!redis
<1>4. HubServes'
  BY DEF ServerInv, ServerTypes, ServerCalls, ServerStages, Publishing, Begun, HubServes, ServersBegan,
    Servers!CheckTicket, Servers!CloseSession, Servers!Session, Servers!Idle, Servers!redis
<1>5. \A d \in ServersConn : Counted(d)' \subseteq Counted(d)
  BY DEF ServerInv, ServerTypes, Begun, ServersBegan, Counted, Servers!CheckTicket,
    Servers!CloseSession, Servers!Session, Servers!Idle, Servers!redis
<1>6. \A d \in ServersConn : d \in lUp' => d \in lUp /\ \A k \in Counted(d)' : Held(d, k) => Held(d, k)'
  BY DEF ServerInv, ServerTypes, ServerCalls, ServerStages, Publishing, Begun, ServersBegan, HubServes,
    Counted, Held, Servers!CheckTicket, Servers!CloseSession, Servers!Session, Servers!Idle,
    Servers!redis
<1>7. ServersWithin'
  BY <1>5, <1>6, WithinKept DEF ServerInv
<1>8. ServersFound'
  BY DEF ServerInv, ServerTypes, ServerCalls, ServerStages, Publishing, Begun, ServersBegan, HubServes,
    ServersFound, Counted, Findable, Servers!CheckTicket, Servers!CloseSession, Servers!Session,
    Servers!Idle, Servers!redis
<1> QED BY <1>1, <1>2, <1>3, <1>4, <1>7, <1>8 DEF ServerInv

LEMMA ServerJoinSockets ==
  ASSUME ServerInv, NEW s \in Servers!Session, Servers!JoinSockets(s)
  PROVE  ServerInv'
<1>1. ServerTypes'
  BY DEF ServerInv, ServerTypes, ServerCalls, ServerStages, Publishing, Begun, Servers!JoinSockets,
    Servers!CloseSession, Servers!Session, Servers!Idle, Servers!redis
<1>2. ServersNumbered'
  BY DEF ServerInv, ServerTypes, Begun, ServersNumbered, Servers!JoinSockets, Servers!CloseSession,
    Servers!Session, Servers!Idle, Servers!redis
<1>3. ServersBegan'
  BY DEF ServerInv, ServerTypes, Begun, ServersBegan, Servers!JoinSockets, Servers!CloseSession,
    Servers!Session, Servers!Idle, Servers!redis
<1>4. HubServes'
  BY DEF ServerInv, ServerTypes, ServerCalls, ServerStages, Publishing, Begun, HubServes, ServersBegan,
    Servers!JoinSockets, Servers!CloseSession, Servers!Session, Servers!Idle, Servers!redis
<1>5. \A d \in ServersConn : Counted(d)' \subseteq Counted(d)
  BY DEF ServerInv, ServerTypes, Begun, ServersBegan, Counted, Servers!JoinSockets,
    Servers!CloseSession, Servers!Session, Servers!Idle, Servers!redis
<1>6. \A d \in ServersConn : d \in lUp' => d \in lUp /\ \A k \in Counted(d)' : Held(d, k) => Held(d, k)'
  BY DEF ServerInv, ServerTypes, ServerCalls, ServerStages, Publishing, Begun, ServersBegan, HubServes,
    Counted, Held, Servers!JoinSockets, Servers!CloseSession, Servers!Session, Servers!Idle,
    Servers!redis
<1>7. ServersWithin'
  BY <1>5, <1>6, WithinKept DEF ServerInv
<1>8. ServersFound'
  BY DEF ServerInv, ServerTypes, ServerCalls, ServerStages, Publishing, Begun, ServersBegan, HubServes,
    ServersFound, Counted, Findable, Servers!JoinSockets, Servers!CloseSession, Servers!Session,
    Servers!Idle, Servers!redis
<1> QED BY <1>1, <1>2, <1>3, <1>4, <1>7, <1>8 DEF ServerInv

LEMMA ServerEndSocket ==
  ASSUME ServerInv, NEW s \in Servers!Session, Servers!EndSocket(s)
  PROVE  ServerInv'
<1>1. ServerTypes'
  BY DEF ServerInv, ServerTypes, ServerCalls, ServerStages, Publishing, Begun, Servers!EndSocket,
    Servers!CloseSession, Servers!Session, Servers!Idle, Servers!redis
<1>2. ServersNumbered'
  BY DEF ServerInv, ServerTypes, Begun, ServersNumbered, Servers!EndSocket, Servers!CloseSession,
    Servers!Session, Servers!Idle, Servers!redis
<1>3. ServersBegan'
  BY DEF ServerInv, ServerTypes, Begun, ServersBegan, Servers!EndSocket, Servers!CloseSession,
    Servers!Session, Servers!Idle, Servers!redis
<1>4. HubServes'
  BY DEF ServerInv, ServerTypes, ServerCalls, ServerStages, Publishing, Begun, HubServes, ServersBegan,
    Servers!EndSocket, Servers!CloseSession, Servers!Session, Servers!Idle, Servers!redis
<1>5. \A d \in ServersConn : Counted(d)' \subseteq Counted(d)
  BY DEF ServerInv, ServerTypes, Begun, ServersBegan, Counted, Servers!EndSocket, Servers!CloseSession,
    Servers!Session, Servers!Idle, Servers!redis
<1>6. \A d \in ServersConn : d \in lUp' => d \in lUp /\ \A k \in Counted(d)' : Held(d, k) => Held(d, k)'
  BY DEF ServerInv, ServerTypes, ServerCalls, ServerStages, Publishing, Begun, ServersBegan, HubServes,
    Counted, Held, Servers!EndSocket, Servers!CloseSession, Servers!Session, Servers!Idle,
    Servers!redis
<1>7. ServersWithin'
  BY <1>5, <1>6, WithinKept DEF ServerInv
<1>8. ServersFound'
  BY DEF ServerInv, ServerTypes, ServerCalls, ServerStages, Publishing, Begun, ServersBegan, HubServes,
    ServersFound, Counted, Findable, Servers!EndSocket, Servers!CloseSession, Servers!Session,
    Servers!Idle, Servers!redis
<1> QED BY <1>1, <1>2, <1>3, <1>4, <1>7, <1>8 DEF ServerInv

LEMMA ServerExpireKey ==
  ASSUME ServerInv, NEW s \in Servers!Session, Servers!ExpireKey(s)
  PROVE  ServerInv'
<1>1. ServerTypes'
  BY DEF ServerInv, ServerTypes, ServerCalls, ServerStages, Publishing, Begun, Servers!ExpireKey,
    Servers!Session, Servers!Idle, Servers!redis
<1>2. ServersNumbered'
  BY DEF ServerInv, ServerTypes, Begun, ServersNumbered, Servers!ExpireKey, Servers!Session,
    Servers!Idle, Servers!redis
<1>3. ServersBegan'
  BY DEF ServerInv, ServerTypes, Begun, ServersBegan, Servers!ExpireKey, Servers!Session, Servers!Idle,
    Servers!redis
<1>4. HubServes'
  BY DEF ServerInv, ServerTypes, ServerCalls, ServerStages, Publishing, Begun, HubServes, ServersBegan,
    Servers!ExpireKey, Servers!Session, Servers!Idle, Servers!redis
<1>5. \A d \in ServersConn : Counted(d)' \subseteq Counted(d)
  BY DEF ServerInv, ServerTypes, Begun, ServersBegan, Counted, Servers!ExpireKey, Servers!Session,
    Servers!Idle, Servers!redis
<1>6. \A d \in ServersConn : d \in lUp' => d \in lUp /\ \A k \in Counted(d)' : Held(d, k) => Held(d, k)'
  BY DEF ServerInv, ServerTypes, ServerCalls, ServerStages, Publishing, Begun, ServersBegan, HubServes,
    Counted, Held, Servers!ExpireKey, Servers!Session, Servers!Idle, Servers!redis
<1>7. ServersWithin'
  BY <1>5, <1>6, WithinKept DEF ServerInv
<1>8. ServersFound'
  BY DEF ServerInv, ServerTypes, ServerCalls, ServerStages, Publishing, Begun, ServersBegan, HubServes,
    ServersFound, Counted, Findable, Servers!ExpireKey, Servers!Session, Servers!Idle, Servers!redis
<1> QED BY <1>1, <1>2, <1>3, <1>4, <1>7, <1>8 DEF ServerInv

LEMMA ServerAcquire ==
  ASSUME ServerInv, NEW s \in Servers!Session, Servers!Acquire(s)
  PROVE  ServerInv'
<1>1. /\ \A k \in Servers!Session : k # s => lStage'[k] = lStage[k]
      /\ lStage[s] = "asked" /\ lStage'[s] \in {"launching", "refused"}
  BY DEF ServerInv, ServerTypes, Begun, Servers!Acquire
<1>2. UNCHANGED <<lUp, lHub, lOwner, lReserved, lListed, lKey, lTicket, lProxy, lToClose, lAged, lLost>>
  BY DEF Servers!Acquire, Servers!redis
<1>3. ServerTypes'
  BY <1>1, <1>2 DEF ServerInv, ServerTypes, ServerCalls, ServerStages, Publishing, Begun,
    Servers!Acquire, Servers!Session, Servers!Idle, Servers!redis
<1>4. ServersNumbered'
  BY <1>1, <1>2 DEF ServerInv, ServerTypes, Begun, ServersNumbered, Servers!Acquire, Servers!Session,
    Servers!Idle, Servers!redis
<1>5. ServersBegan'
  BY <1>1, <1>2 DEF ServerInv, ServerTypes, Begun, ServersBegan, Servers!Acquire, Servers!Session,
    Servers!Idle, Servers!redis
<1>6. HubServes'
  <2>1. \A d \in ServersConn : lHub[d].at \in {"starting"} \cup Publishing => lHub[d].s \in Servers!Session
    BY DEF ServerInv, ServerTypes, ServerCalls, Publishing, Servers!Idle
  <2> QED BY <1>1, <1>2, <2>1 DEF ServerInv, HubServes, Begun, Publishing
<1>7. \A d \in ServersConn : Counted(d)' \subseteq Counted(d)
  BY <1>1, <1>2 DEF ServerInv, ServerTypes, Begun, ServersBegan, Counted, Servers!Acquire,
    Servers!Session, Servers!Idle, Servers!redis
<1>8. \A d \in ServersConn : d \in lUp' => d \in lUp /\ \A k \in Counted(d)' : Held(d, k) => Held(d, k)'
  BY <1>1, <1>2 DEF ServerInv, ServerTypes, ServerCalls, ServerStages, Publishing, Begun, ServersBegan,
    HubServes, Counted, Held, Servers!Acquire, Servers!Session, Servers!Idle, Servers!redis
<1>9. ServersWithin'
  BY <1>7, <1>8, WithinKept DEF ServerInv
<1>10. ServersFound'
  <2>1. \A d \in ServersConn : \A k \in Counted(d)' : k \in Counted(d)
    BY <1>7
  <2>2. \A d \in ServersConn : \A k \in Servers!Session : Findable(d, k) => Findable(d, k)'
    BY <1>2 DEF Findable
  <2> QED BY <1>2, <2>1, <2>2 DEF ServerInv, ServersFound, Counted
<1> QED BY <1>3, <1>4, <1>5, <1>6, <1>9, <1>10 DEF ServerInv

LEMMA ServerLaunch ==
  ASSUME ServerInv, NEW s \in Servers!Session, Servers!Launch(s)
  PROVE  ServerInv'
<1>1. ServerTypes'
  BY DEF ServerInv, ServerTypes, ServerCalls, ServerStages, Publishing, Begun, Servers!Launch,
    Servers!Session, Servers!Idle, Servers!redis
<1>2. ServersNumbered'
  BY DEF ServerInv, ServerTypes, Begun, ServersNumbered, Servers!Launch, Servers!Session, Servers!Idle,
    Servers!redis
<1>3. ServersBegan'
  BY DEF ServerInv, ServerTypes, Begun, ServersBegan, Servers!Launch, Servers!Session, Servers!Idle,
    Servers!redis
<1>4. HubServes'
  BY DEF ServerInv, ServerTypes, ServerCalls, ServerStages, Publishing, Begun, HubServes, ServersBegan,
    Servers!Launch, Servers!Session, Servers!Idle, Servers!redis
<1>5. \A d \in ServersConn : Counted(d)' \subseteq Counted(d)
  BY DEF ServerInv, ServerTypes, Begun, ServersBegan, Counted, Servers!Launch, Servers!Session,
    Servers!Idle, Servers!redis
<1>6. \A d \in ServersConn : d \in lUp' => d \in lUp /\ \A k \in Counted(d)' : Held(d, k) => Held(d, k)'
  BY DEF ServerInv, ServerTypes, ServerCalls, ServerStages, Publishing, Begun, ServersBegan, HubServes,
    Counted, Held, Servers!Launch, Servers!Session, Servers!Idle, Servers!redis
<1>7. ServersWithin'
  BY <1>5, <1>6, WithinKept DEF ServerInv
<1>8. ServersFound'
  BY DEF ServerInv, ServerTypes, ServerCalls, ServerStages, Publishing, Begun, ServersBegan, HubServes,
    ServersFound, Counted, Findable, Servers!Launch, Servers!Session, Servers!Idle, Servers!redis
<1> QED BY <1>1, <1>2, <1>3, <1>4, <1>7, <1>8 DEF ServerInv

LEMMA ServerLaunchFails ==
  ASSUME ServerInv, NEW s \in Servers!Session, Servers!LaunchFails(s)
  PROVE  ServerInv'
<1>1. ServerTypes'
  BY DEF ServerInv, ServerTypes, ServerCalls, ServerStages, Publishing, Begun, Servers!LaunchFails,
    Servers!MayFail, Servers!Session, Servers!Idle, Servers!redis
<1>2. ServersNumbered'
  BY DEF ServerInv, ServerTypes, Begun, ServersNumbered, Servers!LaunchFails, Servers!MayFail,
    Servers!Session, Servers!Idle, Servers!redis
<1>3. ServersBegan'
  BY DEF ServerInv, ServerTypes, Begun, ServersBegan, Servers!LaunchFails, Servers!MayFail,
    Servers!Session, Servers!Idle, Servers!redis
<1>4. HubServes'
  BY DEF ServerInv, ServerTypes, ServerCalls, ServerStages, Publishing, Begun, HubServes, ServersBegan,
    Servers!LaunchFails, Servers!MayFail, Servers!Session, Servers!Idle, Servers!redis
<1>5. \A d \in ServersConn : Counted(d)' \subseteq Counted(d)
  BY DEF ServerInv, ServerTypes, Begun, ServersBegan, Counted, Servers!LaunchFails, Servers!MayFail,
    Servers!Session, Servers!Idle, Servers!redis
<1>6. \A d \in ServersConn : d \in lUp' => d \in lUp /\ \A k \in Counted(d)' : Held(d, k) => Held(d, k)'
  BY DEF ServerInv, ServerTypes, ServerCalls, ServerStages, Publishing, Begun, ServersBegan, HubServes,
    Counted, Held, Servers!LaunchFails, Servers!MayFail, Servers!Session, Servers!Idle, Servers!redis
<1>7. ServersWithin'
  BY <1>5, <1>6, WithinKept DEF ServerInv
<1>8. ServersFound'
  BY DEF ServerInv, ServerTypes, ServerCalls, ServerStages, Publishing, Begun, ServersBegan, HubServes,
    ServersFound, Counted, Findable, Servers!LaunchFails, Servers!MayFail, Servers!Session,
    Servers!Idle, Servers!redis
<1> QED BY <1>1, <1>2, <1>3, <1>4, <1>7, <1>8 DEF ServerInv

LEMMA ServerCloseRequest ==
  ASSUME ServerInv, NEW s \in Servers!Session, Servers!CloseRequest(s)
  PROVE  ServerInv'
<1>1. \A k \in Servers!Session :
        lStage'[k] = lStage[k] \/ (lStage[k] = "live" /\ lStage'[k] = "closing")
  BY DEF ServerInv, ServerTypes, Begun, Servers!CloseRequest, Servers!CloseAsync
<1>2. UNCHANGED <<lUp, lHub, lOwner, lReserved, lListed, lKey, lTicket, lProxy, lAged>>
  BY DEF Servers!CloseRequest, Servers!redis
<1>3. ServerTypes'
  BY <1>1, <1>2 DEF ServerInv, ServerTypes, ServerCalls, ServerStages, Publishing, Begun,
    Servers!CloseRequest, Servers!MayFail, Servers!CloseAsync, Servers!Session, Servers!Idle,
    Servers!redis
<1>4. ServersNumbered'
  BY <1>1, <1>2 DEF ServerInv, ServerTypes, Begun, ServersNumbered, Servers!CloseRequest,
    Servers!MayFail, Servers!CloseAsync, Servers!Session, Servers!Idle, Servers!redis
<1>5. ServersBegan'
  BY <1>1, <1>2 DEF ServerInv, ServerTypes, Begun, ServersBegan, Servers!CloseRequest, Servers!MayFail,
    Servers!CloseAsync, Servers!Session, Servers!Idle, Servers!redis
<1>6. HubServes'
  <2>1. \A d \in ServersConn : lHub[d].at \in {"starting"} \cup Publishing => lHub[d].s \in Servers!Session
    BY DEF ServerInv, ServerTypes, ServerCalls, Publishing, Servers!Idle
  <2> QED BY <1>1, <1>2, <2>1 DEF ServerInv, HubServes, Begun, Publishing
<1>7. \A d \in ServersConn : Counted(d)' \subseteq Counted(d)
  BY DEF ServerInv, ServerTypes, Begun, ServersBegan, Counted, Servers!CloseRequest, Servers!MayFail,
    Servers!CloseAsync, Servers!Session, Servers!Idle, Servers!redis
<1>8. \A d \in ServersConn : d \in lUp' => d \in lUp /\ \A k \in Counted(d)' : Held(d, k) => Held(d, k)'
  BY <1>1, <1>2 DEF ServerInv, ServerTypes, ServerCalls, ServerStages, Publishing, Begun, ServersBegan,
    HubServes, Counted, Held, Servers!CloseRequest, Servers!MayFail, Servers!CloseAsync,
    Servers!Session, Servers!Idle, Servers!redis
<1>9. ServersWithin'
  BY <1>7, <1>8, WithinKept DEF ServerInv
<1>10. ServersFound'
  <2>1. \A d \in ServersConn : \A k \in Counted(d)' : k \in Counted(d)
    BY <1>7
  <2>2. \A d \in ServersConn : \A k \in Servers!Session : Findable(d, k) => Findable(d, k)'
    BY <1>2 DEF Findable
  <2> QED BY <1>2, <2>1, <2>2 DEF ServerInv, ServersFound, Counted
<1> QED BY <1>3, <1>4, <1>5, <1>6, <1>9, <1>10 DEF ServerInv

LEMMA ServerRemove ==
  ASSUME ServerInv, NEW s \in Servers!Session, Servers!Remove(s)
  PROVE  ServerInv'
<1>1. ServerTypes'
  BY DEF ServerInv, ServerTypes, ServerCalls, ServerStages, Publishing, Begun, Servers!Remove,
    Servers!Session, Servers!Idle, Servers!redis
<1>2. ServersNumbered'
  BY DEF ServerInv, ServerTypes, Begun, ServersNumbered, Servers!Remove, Servers!Session, Servers!Idle,
    Servers!redis
<1>3. ServersBegan'
  BY DEF ServerInv, ServerTypes, Begun, ServersBegan, Servers!Remove, Servers!Session, Servers!Idle,
    Servers!redis
<1>4. HubServes'
  BY DEF ServerInv, ServerTypes, ServerCalls, ServerStages, Publishing, Begun, HubServes, ServersBegan,
    Servers!Remove, Servers!Session, Servers!Idle, Servers!redis
<1>5. \A d \in ServersConn : Counted(d)' \subseteq Counted(d)
  BY DEF ServerInv, ServerTypes, Begun, ServersBegan, Counted, Servers!Remove, Servers!Session,
    Servers!Idle, Servers!redis
<1>6. \A d \in ServersConn : d \in lUp' => d \in lUp /\ \A k \in Counted(d)' : Held(d, k) => Held(d, k)'
  BY DEF ServerInv, ServerTypes, ServerCalls, ServerStages, Publishing, Begun, ServersBegan, HubServes,
    Counted, Held, Servers!Remove, Servers!Session, Servers!Idle, Servers!redis
<1>7. ServersWithin'
  BY <1>5, <1>6, WithinKept DEF ServerInv
<1>8. ServersFound'
  BY DEF ServerInv, ServerTypes, ServerCalls, ServerStages, Publishing, Begun, ServersBegan, HubServes,
    ServersFound, Counted, Findable, Servers!Remove, Servers!Session, Servers!Idle, Servers!redis
<1> QED BY <1>1, <1>2, <1>3, <1>4, <1>7, <1>8 DEF ServerInv

LEMMA ServerAge ==
  ASSUME ServerInv, NEW s \in Servers!Session, Servers!Age(s)
  PROVE  ServerInv'
<1>1. ServerTypes'
  BY DEF ServerInv, ServerTypes, ServerCalls, ServerStages, Publishing, Begun, Servers!Age,
    Servers!Session, Servers!Idle, Servers!redis
<1>2. ServersNumbered'
  BY DEF ServerInv, ServerTypes, Begun, ServersNumbered, Servers!Age, Servers!Session, Servers!Idle,
    Servers!redis
<1>3. ServersBegan'
  BY DEF ServerInv, ServerTypes, Begun, ServersBegan, Servers!Age, Servers!Session, Servers!Idle,
    Servers!redis
<1>4. HubServes'
  BY DEF ServerInv, ServerTypes, ServerCalls, ServerStages, Publishing, Begun, HubServes, ServersBegan,
    Servers!Age, Servers!Session, Servers!Idle, Servers!redis
<1>5. \A d \in ServersConn : Counted(d)' \subseteq Counted(d)
  BY DEF ServerInv, ServerTypes, Begun, ServersBegan, Counted, Servers!Age, Servers!Session,
    Servers!Idle, Servers!redis
<1>6. \A d \in ServersConn : d \in lUp' => d \in lUp /\ \A k \in Counted(d)' : Held(d, k) => Held(d, k)'
  BY DEF ServerInv, ServerTypes, ServerCalls, ServerStages, Publishing, Begun, ServersBegan, HubServes,
    Counted, Held, Servers!Age, Servers!Session, Servers!Idle, Servers!redis
<1>7. ServersWithin'
  BY <1>5, <1>6, WithinKept DEF ServerInv
<1>8. ServersFound'
  BY DEF ServerInv, ServerTypes, ServerCalls, ServerStages, Publishing, Begun, ServersBegan, HubServes,
    ServersFound, Counted, Findable, Servers!Age, Servers!Session, Servers!Idle, Servers!redis
<1> QED BY <1>1, <1>2, <1>3, <1>4, <1>7, <1>8 DEF ServerInv

LEMMA ServerCleanupExpired ==
  ASSUME ServerInv, NEW s \in Servers!Session, Servers!CleanupExpired(s)
  PROVE  ServerInv'
<1>1. ServerTypes'
  BY DEF ServerInv, ServerTypes, ServerCalls, ServerStages, Publishing, Begun, Servers!CleanupExpired,
    Servers!CloseAsync, Servers!Session, Servers!Idle, Servers!redis
<1>2. ServersNumbered'
  BY DEF ServerInv, ServerTypes, Begun, ServersNumbered, Servers!CleanupExpired, Servers!CloseAsync,
    Servers!Session, Servers!Idle, Servers!redis
<1>3. ServersBegan'
  BY DEF ServerInv, ServerTypes, Begun, ServersBegan, Servers!CleanupExpired, Servers!CloseAsync,
    Servers!Session, Servers!Idle, Servers!redis
<1>4. HubServes'
  BY DEF ServerInv, ServerTypes, ServerCalls, ServerStages, Publishing, Begun, HubServes, ServersBegan,
    Servers!CleanupExpired, Servers!CloseAsync, Servers!Session, Servers!Idle, Servers!redis
<1>5. \A d \in ServersConn : Counted(d)' \subseteq Counted(d)
  BY DEF ServerInv, ServerTypes, Begun, ServersBegan, Counted, Servers!CleanupExpired,
    Servers!CloseAsync, Servers!Session, Servers!Idle, Servers!redis
<1>6. \A d \in ServersConn : d \in lUp' => d \in lUp /\ \A k \in Counted(d)' : Held(d, k) => Held(d, k)'
  BY DEF ServerInv, ServerTypes, ServerCalls, ServerStages, Publishing, Begun, ServersBegan, HubServes,
    Counted, Held, Servers!CleanupExpired, Servers!CloseAsync, Servers!Session, Servers!Idle,
    Servers!redis
<1>7. ServersWithin'
  BY <1>5, <1>6, WithinKept DEF ServerInv
<1>8. ServersFound'
  BY DEF ServerInv, ServerTypes, ServerCalls, ServerStages, Publishing, Begun, ServersBegan, HubServes,
    ServersFound, Counted, Findable, Servers!CleanupExpired, Servers!CloseAsync, Servers!Session,
    Servers!Idle, Servers!redis
<1> QED BY <1>1, <1>2, <1>3, <1>4, <1>7, <1>8 DEF ServerInv

LEMMA ServerInit == ASSUME Servers!Init PROVE ServerInv
<1>1. ServerTypes
  BY DEF Servers!Init, ServerTypes, ServerCalls, ServerStages, Servers!Idle
<1>2. ServersNumbered
  BY ServerBounds DEF Servers!Init, ServersNumbered, Servers!Session
<1>3. ServersBegan /\ HubServes
  BY DEF Servers!Init, ServersBegan, HubServes, Servers!Idle, Publishing
<1>4. \A c \in ServersConn : Counted(c) = {}
  BY DEF Servers!Init, Counted
<1>5. ServersWithin /\ ServersFound
  BY <1>4, ServerBounds, FS_EmptySet DEF ServersWithin, ServersFound
<1> QED BY <1>1, <1>2, <1>3, <1>5 DEF ServerInv

LEMMA ServerIdles == ASSUME ServerInv, UNCHANGED Servers!vars PROVE ServerInv'
<1> USE DEF Servers!vars, Servers!redis
<1>1. ServerTypes' /\ ServersNumbered' /\ ServersBegan' /\ HubServes'
  BY DEF ServerInv, ServerTypes, ServersNumbered, ServersBegan, HubServes
<1>2. \A c \in ServersConn : Counted(c)' = Counted(c)
  BY DEF Counted
<1>3. ServersWithin' /\ ServersFound'
  BY <1>2 DEF ServerInv, ServersWithin, ServersFound, Held, Findable
<1> QED BY <1>1, <1>3 DEF ServerInv

LEMMA ServerStep == ASSUME ServerInv, [Servers!Next]_(Servers!vars) PROVE ServerInv'
<1>1. ASSUME NEW c \in ServersConn,
             \/ Servers!Reserve(c) \/ Servers!StartFails(c) \/ Servers!Unreserve(c) \/ Servers!List(c)
             \/ Servers!SetKey(c) \/ Servers!SetTicket(c) \/ Servers!PublishFails(c)
             \/ Servers!Drop(c) \/ Servers!CloseConnectionSession(c) \/ Servers!DeleteConnection(c)
      PROVE  ServerInv'
  BY <1>1, ServerReserve, ServerStartFails, ServerUnreserve, ServerList, ServerSetKey, ServerSetTicket,
    ServerPublishFails, ServerDrop, ServerCloseConnectionSession, ServerDeleteConnection
<1>2. ASSUME NEW s \in Servers!Session,
             \/ Servers!ConsumeTicket(s) \/ Servers!CheckTicket(s) \/ Servers!JoinSockets(s)
             \/ Servers!EndSocket(s) \/ Servers!ExpireKey(s) \/ Servers!Acquire(s) \/ Servers!Launch(s)
             \/ Servers!LaunchFails(s) \/ Servers!CloseRequest(s) \/ Servers!Remove(s)
             \/ Servers!Age(s) \/ Servers!CleanupExpired(s)
      PROVE  ServerInv'
  BY <1>2, ServerConsumeTicket, ServerCheckTicket, ServerJoinSockets, ServerEndSocket, ServerExpireKey,
    ServerAcquire, ServerLaunch, ServerLaunchFails, ServerCloseRequest, ServerRemove, ServerAge,
    ServerCleanupExpired
<1>3. CASE UNCHANGED Servers!vars
  BY <1>3, ServerIdles
<1> QED BY <1>1, <1>2, <1>3 DEF Servers!Next

LEMMA ServerAlways == Servers!Spec => []ServerInv
BY ServerInit, ServerStep, PTL DEF Servers!Spec

LEMMA ServersAccounted == ASSUME ServerInv PROVE NoStrayServers
<1>1. ASSUME NEW c \in ServersConn
      PROVE  Servers!Cardinality({s \in Servers!Of(c, Servers!Session) :
               lStage[s] \in {"launching", "live"} /\ s \notin lLost \cup lToClose})
               <= ServersMaximumSessionsPerConnection
  <2> DEFINE L == {s \in Servers!Of(c, Servers!Session) :
                     lStage[s] \in {"launching", "live"} /\ s \notin lLost \cup lToClose}
  <2>1. L \subseteq Counted(c) /\ IsFiniteSet(Counted(c))
    BY CountedFinite DEF Counted, Servers!Of
  <2>2. Cardinality(Counted(c)) <= ServersMaximumSessionsPerConnection
    BY DEF ServerInv, ServersWithin
  <2> HIDE DEF L
  <2>3. Cardinality(L) <= Cardinality(Counted(c)) /\ Cardinality(L) \in Nat /\ Cardinality(Counted(c)) \in Nat
    BY <2>1, FS_Subset, FS_CardinalityType
  <2>4. Servers!Cardinality(L) <= ServersMaximumSessionsPerConnection
    BY <2>2, <2>3, ServerBounds, ServerCardinality
  <2> QED BY <2>4 DEF L
<1>2. ASSUME NEW s \in Servers!Session, lStage[s] \in {"launching", "live"}, lHub[lOwner[s]].at = "over",
             s \notin lLost \cup lAged \cup lToClose
      PROVE  FALSE
  <2>1. lOwner[s] \in ServersConn
    BY <1>2 DEF ServerInv, ServerTypes, ServersBegan
  <2>2. s \in Counted(lOwner[s])
    BY <1>2, <2>1 DEF Counted
  <2>3. Findable(lOwner[s], s)
    BY <1>2, <2>1, <2>2 DEF ServerInv, ServersFound
  <2> QED BY <1>2, <2>1, <2>3 DEF ServerInv, HubServes, Findable
<1> QED BY <1>1, <1>2 DEF NoStrayServers, Servers!NoStrayServers, Servers!LiveWithinLimit,
  Servers!EndedConnectionsLeaveNothing

\* A connection holds its language servers within its limit, and leaves none behind
\* but aged ones and those that a lost message hides, for any numbers of connections
\* and servers, though what the limit counts moves from the reservations to the set
\* of the connection in several commands and sockets take it off on their own.
THEOREM ServersAreAccountedFor == Servers!Spec => []NoStrayServers
BY ServerAlways, ServersAccounted, PTL

-----------------------------------------------------------------------------
(* Containers: what the sweep takes is of calls that are over or end, because a    *)
(* call is registered before its container exists, and its workspace is old only   *)
(* when the sweep can see the container.                                           *)

Flows == {"none", "files", "network", "added", "live", "closing", "over"}
Boxes == {"none", "wanted", "created", "running", "exited", "removed"}
Sweeps ==
  [at : {"idle", "check", "remove"}, names : SUBSET DockerBox, todo : SUBSET DockerBox,
    stale : SUBSET DockerBox]

DockerTypes ==
  /\ dFlow \in [DockerBox -> Flows] /\ dDir \in [DockerBox -> {"none", "fresh", "old"}]
  /\ dBox \in [DockerBox -> Boxes] /\ dActive \subseteq DockerBox /\ dSweep \in Sweeps

\* A container is asked for after the call is registered, and the call leaves the
\* registry when it ends or the container is gone.
Registered ==
  \A b \in DockerBox :
    /\ dFlow[b] \in {"none", "files", "network", "added"} => dBox[b] = "none"
    /\ dFlow[b] \in {"added", "live"} => b \in dActive \/ dBox[b] = "removed"
    /\ dFlow[b] = "live" /\ b \in DockerTerminal => dBox[b] # "exited"

\* The workspace of a call that uses it exists, and the sweep that meets it old
\* listed the container.
Sheltered ==
  \A b \in DockerBox : Docker!Uses(b) =>
    /\ dDir[b] # "none"
    /\ dDir[b] = "old" => Docker!Exists(b) /\ (dSweep.at = "idle" \/ b \in dSweep.names)

StaleIsOver == \A b \in dSweep.stale : dFlow[b] \in {"closing", "over"}

DockerInv == DockerTypes /\ Registered /\ Sheltered /\ StaleIsOver /\ SweepSparesSessions

LEMMA BoxWriteWorkspace ==
  ASSUME DockerInv, DockerCalmHost, NEW b \in DockerBox, Docker!WriteWorkspace(b)
  PROVE  DockerInv'
<1>1. DockerTypes'
  BY DEF DockerInv, DockerTypes, Flows, Boxes, Sweeps, Docker!WriteWorkspace
<1>2. Registered'
  BY DEF DockerInv, DockerTypes, Registered, Docker!Exists, Docker!WriteWorkspace
<1>3. Sheltered'
  BY DEF DockerInv, DockerTypes, Sweeps, Registered, Sheltered, StaleIsOver, Docker!Uses,
    Docker!Exists, Docker!WriteWorkspace
<1>4. StaleIsOver'
  BY DEF DockerInv, DockerTypes, Sweeps, Registered, StaleIsOver, Docker!Exists, Docker!WriteWorkspace
<1>5. SweepSparesSessions'
  BY DEF DockerInv, DockerTypes, Sheltered, StaleIsOver, SweepSparesSessions,
    Docker!SweepSparesSessions, Docker!Uses, Docker!WriteWorkspace
<1> QED BY <1>1, <1>2, <1>3, <1>4, <1>5 DEF DockerInv

LEMMA BoxCreateSessionNetwork ==
  ASSUME DockerInv, DockerCalmHost, NEW b \in DockerBox, Docker!CreateSessionNetwork(b)
  PROVE  DockerInv'
<1>1. DockerTypes'
  BY DEF DockerInv, DockerTypes, Flows, Boxes, Sweeps, Docker!CreateSessionNetwork, Docker!MayFail
<1>2. Registered'
  BY DEF DockerInv, DockerTypes, Registered, Docker!Exists, Docker!CreateSessionNetwork, Docker!MayFail
<1>3. Sheltered'
  BY DEF DockerInv, DockerTypes, Sweeps, Registered, Sheltered, StaleIsOver, Docker!Uses,
    Docker!Exists, Docker!CreateSessionNetwork, Docker!MayFail
<1>4. StaleIsOver'
  BY DEF DockerInv, DockerTypes, Sweeps, Registered, StaleIsOver, Docker!Exists,
    Docker!CreateSessionNetwork, Docker!MayFail
<1>5. SweepSparesSessions'
  BY DEF DockerInv, DockerTypes, Sheltered, StaleIsOver, SweepSparesSessions,
    Docker!SweepSparesSessions, Docker!Uses, Docker!CreateSessionNetwork, Docker!MayFail
<1> QED BY <1>1, <1>2, <1>3, <1>4, <1>5 DEF DockerInv

LEMMA BoxAddActive ==
  ASSUME DockerInv, DockerCalmHost, NEW b \in DockerBox, Docker!AddActive(b)
  PROVE  DockerInv'
<1>1. DockerTypes'
  BY DEF DockerInv, DockerTypes, Flows, Boxes, Sweeps, Docker!AddActive
<1>2. Registered'
  BY DEF DockerInv, DockerTypes, Registered, Docker!Exists, Docker!AddActive
<1>3. Sheltered'
  BY DEF DockerInv, DockerTypes, Sweeps, Registered, Sheltered, StaleIsOver, Docker!Uses,
    Docker!Exists, Docker!AddActive
<1>4. StaleIsOver'
  BY DEF DockerInv, DockerTypes, Sweeps, Registered, StaleIsOver, Docker!Exists, Docker!AddActive
<1>5. SweepSparesSessions'
  BY DEF DockerInv, DockerTypes, Sheltered, StaleIsOver, SweepSparesSessions,
    Docker!SweepSparesSessions, Docker!Uses, Docker!AddActive
<1> QED BY <1>1, <1>2, <1>3, <1>4, <1>5 DEF DockerInv

LEMMA BoxLaunch ==
  ASSUME DockerInv, DockerCalmHost, NEW b \in DockerBox, Docker!Launch(b)
  PROVE  DockerInv'
<1>1. DockerTypes'
  BY DEF DockerInv, DockerTypes, Flows, Boxes, Sweeps, Docker!Launch
<1>2. Registered'
  BY DEF DockerInv, DockerTypes, Registered, Docker!Exists, Docker!Launch
<1>3. Sheltered'
  BY DEF DockerInv, DockerTypes, Sweeps, Registered, Sheltered, StaleIsOver, Docker!Uses,
    Docker!Exists, Docker!Launch
<1>4. StaleIsOver'
  BY DEF DockerInv, DockerTypes, Sweeps, Registered, StaleIsOver, Docker!Exists, Docker!Launch
<1>5. SweepSparesSessions'
  BY DEF DockerInv, DockerTypes, Sheltered, StaleIsOver, SweepSparesSessions,
    Docker!SweepSparesSessions, Docker!Uses, Docker!Launch
<1> QED BY <1>1, <1>2, <1>3, <1>4, <1>5 DEF DockerInv

LEMMA BoxLaunchFails ==
  ASSUME DockerInv, DockerCalmHost, NEW b \in DockerBox, Docker!LaunchFails(b)
  PROVE  DockerInv'
<1>1. DockerTypes'
  BY DEF DockerInv, DockerTypes, Flows, Boxes, Sweeps, Docker!LaunchFails, Docker!MayFail
<1>2. Registered'
  BY DEF DockerInv, DockerTypes, Registered, Docker!Exists, Docker!LaunchFails, Docker!MayFail
<1>3. Sheltered'
  BY DEF DockerInv, DockerTypes, Sweeps, Registered, Sheltered, StaleIsOver, Docker!Uses,
    Docker!Exists, Docker!LaunchFails, Docker!MayFail
<1>4. StaleIsOver'
  BY DEF DockerInv, DockerTypes, Sweeps, Registered, StaleIsOver, Docker!Exists, Docker!LaunchFails,
    Docker!MayFail
<1>5. SweepSparesSessions'
  BY DEF DockerInv, DockerTypes, Sheltered, StaleIsOver, SweepSparesSessions,
    Docker!SweepSparesSessions, Docker!Uses, Docker!LaunchFails, Docker!MayFail
<1> QED BY <1>1, <1>2, <1>3, <1>4, <1>5 DEF DockerInv

LEMMA BoxDockerCreates ==
  ASSUME DockerInv, DockerCalmHost, NEW b \in DockerBox, Docker!DockerCreates(b)
  PROVE  DockerInv'
<1>1. DockerTypes'
  BY DEF DockerInv, DockerTypes, Flows, Boxes, Sweeps, Docker!DockerCreates
<1>2. Registered'
  BY DEF DockerInv, DockerTypes, Registered, Docker!Exists, Docker!DockerCreates
<1>3. Sheltered'
  BY DEF DockerInv, DockerTypes, Sweeps, Registered, Sheltered, StaleIsOver, Docker!Uses,
    Docker!Exists, Docker!DockerCreates
<1>4. StaleIsOver'
  BY DEF DockerInv, DockerTypes, Sweeps, Registered, StaleIsOver, Docker!Exists, Docker!DockerCreates
<1>5. SweepSparesSessions'
  BY DEF DockerInv, DockerTypes, Sheltered, StaleIsOver, SweepSparesSessions,
    Docker!SweepSparesSessions, Docker!Uses, Docker!DockerCreates
<1> QED BY <1>1, <1>2, <1>3, <1>4, <1>5 DEF DockerInv

LEMMA BoxDockerStarts ==
  ASSUME DockerInv, DockerCalmHost, NEW b \in DockerBox, Docker!DockerStarts(b)
  PROVE  DockerInv'
<1>1. DockerTypes'
  BY DEF DockerInv, DockerTypes, Flows, Boxes, Sweeps, Docker!DockerStarts
<1>2. Registered'
  BY DEF DockerInv, DockerTypes, Registered, Sheltered, Docker!Uses, Docker!DockerStarts
<1>3. Sheltered'
  BY DEF DockerInv, DockerTypes, Sweeps, Registered, Sheltered, StaleIsOver, Docker!Uses,
    Docker!Exists, Docker!DockerStarts
<1>4. StaleIsOver'
  BY DEF DockerInv, DockerTypes, Sweeps, Registered, StaleIsOver, Docker!Exists, Docker!DockerStarts
<1>5. SweepSparesSessions'
  BY DEF DockerInv, DockerTypes, Sheltered, StaleIsOver, SweepSparesSessions,
    Docker!SweepSparesSessions, Docker!Uses, Docker!DockerStarts
<1> QED BY <1>1, <1>2, <1>3, <1>4, <1>5 DEF DockerInv

LEMMA BoxProgramEnds ==
  ASSUME DockerInv, DockerCalmHost, NEW b \in DockerBox, Docker!ProgramEnds(b)
  PROVE  DockerInv'
<1>1. DockerTypes'
  BY DEF DockerInv, DockerTypes, Flows, Boxes, Sweeps, Docker!ProgramEnds
<1>2. Registered'
  BY DEF DockerInv, DockerTypes, Registered, Docker!Exists, Docker!ProgramEnds
<1>3. Sheltered'
  BY DEF DockerInv, DockerTypes, Sweeps, Registered, Sheltered, StaleIsOver, Docker!Uses,
    Docker!Exists, Docker!ProgramEnds
<1>4. StaleIsOver'
  BY DEF DockerInv, DockerTypes, Sweeps, Registered, StaleIsOver, Docker!Exists, Docker!ProgramEnds
<1>5. SweepSparesSessions'
  BY DEF DockerInv, DockerTypes, Sheltered, StaleIsOver, SweepSparesSessions,
    Docker!SweepSparesSessions, Docker!Uses, Docker!ProgramEnds
<1> QED BY <1>1, <1>2, <1>3, <1>4, <1>5 DEF DockerInv

LEMMA BoxAge ==
  ASSUME DockerInv, DockerCalmHost, NEW b \in DockerBox, Docker!Age(b)
  PROVE  DockerInv'
<1>1. DockerTypes'
  BY DEF DockerInv, DockerTypes, Flows, Boxes, Sweeps, Docker!Age
<1>2. Registered'
  BY DEF DockerInv, DockerTypes, Registered, Docker!Exists, Docker!Age
<1>3. Sheltered'
  BY DEF DockerInv, DockerTypes, Sweeps, Registered, Sheltered, StaleIsOver, Docker!Uses,
    Docker!Exists, Docker!Age
<1>4. StaleIsOver'
  BY DEF DockerInv, DockerTypes, Sweeps, Registered, StaleIsOver, Docker!Exists, Docker!Age
<1>5. SweepSparesSessions'
  BY DEF DockerInv, DockerTypes, Sheltered, StaleIsOver, SweepSparesSessions,
    Docker!SweepSparesSessions, Docker!Uses, Docker!Age
<1> QED BY <1>1, <1>2, <1>3, <1>4, <1>5 DEF DockerInv

LEMMA BoxAgeWorkspace ==
  ASSUME DockerInv, DockerCalmHost, NEW b \in DockerBox, Docker!AgeWorkspace(b)
  PROVE  DockerInv'
<1>1. DockerTypes'
  BY DEF DockerInv, DockerTypes, Flows, Boxes, Sweeps, Docker!AgeWorkspace
<1>2. Registered'
  BY DEF DockerInv, DockerTypes, Registered, Docker!Exists, Docker!AgeWorkspace
<1>3. Sheltered'
  BY DEF DockerInv, DockerTypes, Sweeps, Registered, Sheltered, StaleIsOver, Docker!Uses,
    Docker!Exists, Docker!AgeWorkspace
<1>4. StaleIsOver'
  BY DEF DockerInv, DockerTypes, Sweeps, Registered, StaleIsOver, Docker!Exists, Docker!AgeWorkspace
<1>5. SweepSparesSessions'
  BY DEF DockerInv, DockerTypes, Sheltered, StaleIsOver, SweepSparesSessions,
    Docker!SweepSparesSessions, Docker!Uses, Docker!AgeWorkspace
<1> QED BY <1>1, <1>2, <1>3, <1>4, <1>5 DEF DockerInv

LEMMA BoxWatchExit ==
  ASSUME DockerInv, DockerCalmHost, NEW b \in DockerBox, Docker!WatchExit(b)
  PROVE  DockerInv'
<1>1. DockerTypes'
  BY DEF DockerInv, DockerTypes, Flows, Boxes, Sweeps, Docker!WatchExit
<1>2. Registered'
  BY DEF DockerInv, DockerTypes, Registered, Docker!Exists, Docker!WatchExit
<1>3. Sheltered'
  BY DEF DockerInv, DockerTypes, Sweeps, Registered, Sheltered, StaleIsOver, Docker!Uses,
    Docker!Exists, Docker!WatchExit
<1>4. StaleIsOver'
  BY DEF DockerInv, DockerTypes, Sweeps, Registered, StaleIsOver, Docker!Exists, Docker!WatchExit
<1>5. SweepSparesSessions'
  BY DEF DockerInv, DockerTypes, Sheltered, StaleIsOver, SweepSparesSessions,
    Docker!SweepSparesSessions, Docker!Uses, Docker!WatchExit
<1> QED BY <1>1, <1>2, <1>3, <1>4, <1>5 DEF DockerInv

LEMMA BoxStopAndRemove ==
  ASSUME DockerInv, DockerCalmHost, NEW b \in DockerBox, Docker!StopAndRemove(b)
  PROVE  DockerInv'
<1>1. DockerTypes'
  BY DEF DockerInv, DockerTypes, Flows, Boxes, Sweeps, Docker!StopAndRemove, Docker!MayFail
<1>2. Registered'
  BY DEF DockerInv, DockerTypes, Registered, Docker!Exists, Docker!StopAndRemove, Docker!MayFail
<1>3. Sheltered'
  BY DEF DockerInv, DockerTypes, Sweeps, Registered, Sheltered, StaleIsOver, Docker!Uses,
    Docker!Exists, Docker!StopAndRemove, Docker!MayFail
<1>4. StaleIsOver'
  BY DEF DockerInv, DockerTypes, Sweeps, Registered, StaleIsOver, Docker!Exists, Docker!StopAndRemove,
    Docker!MayFail
<1>5. SweepSparesSessions'
  BY DEF DockerInv, DockerTypes, Sheltered, StaleIsOver, SweepSparesSessions,
    Docker!SweepSparesSessions, Docker!Uses, Docker!StopAndRemove, Docker!MayFail
<1> QED BY <1>1, <1>2, <1>3, <1>4, <1>5 DEF DockerInv

LEMMA BoxRelease ==
  ASSUME DockerInv, DockerCalmHost, NEW b \in DockerBox, Docker!Release(b)
  PROVE  DockerInv'
<1>1. DockerTypes'
  BY DEF DockerInv, DockerTypes, Flows, Boxes, Sweeps, Docker!Release, Docker!MayFail
<1>2. Registered'
  BY DEF DockerInv, DockerTypes, Registered, Docker!Exists, Docker!Release, Docker!MayFail
<1>3. Sheltered'
  BY DEF DockerInv, DockerTypes, Sweeps, Registered, Sheltered, StaleIsOver, Docker!Uses,
    Docker!Exists, Docker!Release, Docker!MayFail
<1>4. StaleIsOver'
  BY DEF DockerInv, DockerTypes, Sweeps, Registered, StaleIsOver, Docker!Exists, Docker!Release,
    Docker!MayFail
<1>5. SweepSparesSessions'
  BY DEF DockerInv, DockerTypes, Sheltered, StaleIsOver, SweepSparesSessions,
    Docker!SweepSparesSessions, Docker!Uses, Docker!Release, Docker!MayFail
<1> QED BY <1>1, <1>2, <1>3, <1>4, <1>5 DEF DockerInv

LEMMA BoxCheckContainer ==
  ASSUME DockerInv, DockerCalmHost, NEW b \in DockerBox, Docker!CheckContainer(b)
  PROVE  DockerInv'
<1>1. b \notin dActive /\ Docker!Exists(b) => dFlow[b] \in {"closing", "over"}
  BY DEF DockerInv, DockerTypes, Flows, Registered, Docker!Exists
<1>2. dSweep'.stale \subseteq dSweep.stale \/ (dSweep'.stale = {b} /\ b \notin dActive /\ Docker!Exists(b))
  BY DEF DockerInv, DockerTypes, Sweeps, Docker!CheckContainer, Docker!NoSweep
<1>3. DockerTypes'
  BY DEF DockerInv, DockerTypes, Flows, Boxes, Sweeps, Docker!CheckContainer, Docker!NoSweep
<1>4. Registered'
  BY DEF DockerInv, DockerTypes, Registered, Docker!Exists, Docker!CheckContainer, Docker!NoSweep
<1>5. Sheltered'
  BY DEF DockerInv, DockerTypes, Sweeps, Registered, Sheltered, StaleIsOver, Docker!Uses,
    Docker!Exists, Docker!CheckContainer, Docker!NoSweep
<1>6. StaleIsOver'
  BY <1>1, <1>2 DEF DockerInv, StaleIsOver, Docker!CheckContainer
<1>7. SweepSparesSessions'
  BY DEF DockerInv, DockerTypes, Sheltered, StaleIsOver, SweepSparesSessions,
    Docker!SweepSparesSessions, Docker!Uses, Docker!CheckContainer, Docker!NoSweep
<1> QED BY <1>3, <1>4, <1>5, <1>6, <1>7 DEF DockerInv

LEMMA BoxCrash ==
  ASSUME DockerInv, DockerCalmHost, Docker!Crash
  PROVE  DockerInv'
<1>1. DockerTypes'
  BY DEF DockerInv, DockerTypes, Flows, Boxes, Sweeps, Docker!Crash, Docker!MayFail, Docker!NoSweep
<1>2. Registered'
  BY DEF DockerInv, DockerTypes, Registered, Docker!Exists, Docker!Crash, Docker!MayFail,
    Docker!NoSweep
<1>3. Sheltered'
  BY DEF DockerInv, DockerTypes, Sweeps, Registered, Sheltered, StaleIsOver, Docker!Uses,
    Docker!Exists, Docker!Crash, Docker!MayFail, Docker!NoSweep
<1>4. StaleIsOver'
  BY DEF DockerInv, DockerTypes, Sweeps, Registered, StaleIsOver, Docker!Exists, Docker!Crash,
    Docker!MayFail, Docker!NoSweep
<1>5. SweepSparesSessions'
  BY DEF DockerInv, DockerTypes, Sheltered, StaleIsOver, SweepSparesSessions,
    Docker!SweepSparesSessions, Docker!Uses, Docker!Crash, Docker!MayFail, Docker!NoSweep
<1> QED BY <1>1, <1>2, <1>3, <1>4, <1>5 DEF DockerInv

LEMMA BoxRestart ==
  ASSUME DockerInv, DockerCalmHost, Docker!Restart
  PROVE  DockerInv'
<1>1. DockerTypes'
  BY DEF DockerInv, DockerTypes, Flows, Boxes, Sweeps, Docker!Restart
<1>2. Registered'
  BY DEF DockerInv, DockerTypes, Registered, Docker!Exists, Docker!Restart
<1>3. Sheltered'
  BY DEF DockerInv, DockerTypes, Sweeps, Registered, Sheltered, StaleIsOver, Docker!Uses,
    Docker!Exists, Docker!Restart
<1>4. StaleIsOver'
  BY DEF DockerInv, DockerTypes, Sweeps, Registered, StaleIsOver, Docker!Exists, Docker!Restart
<1>5. SweepSparesSessions'
  BY DEF DockerInv, DockerTypes, Sheltered, StaleIsOver, SweepSparesSessions,
    Docker!SweepSparesSessions, Docker!Uses, Docker!Restart
<1> QED BY <1>1, <1>2, <1>3, <1>4, <1>5 DEF DockerInv

LEMMA BoxListContainers ==
  ASSUME DockerInv, DockerCalmHost, Docker!ListContainers
  PROVE  DockerInv'
<1>1. DockerTypes'
  BY DEF DockerInv, DockerTypes, Flows, Boxes, Sweeps, Docker!ListContainers
<1>2. Registered'
  BY DEF DockerInv, DockerTypes, Registered, Docker!Exists, Docker!ListContainers
<1>3. Sheltered'
  BY DEF DockerInv, DockerTypes, Sweeps, Registered, Sheltered, StaleIsOver, Docker!Uses,
    Docker!Exists, Docker!ListContainers
<1>4. StaleIsOver'
  BY DEF DockerInv, DockerTypes, Sweeps, Registered, StaleIsOver, Docker!Exists, Docker!ListContainers
<1>5. SweepSparesSessions'
  BY DEF DockerInv, DockerTypes, Sheltered, StaleIsOver, SweepSparesSessions,
    Docker!SweepSparesSessions, Docker!Uses, Docker!ListContainers
<1> QED BY <1>1, <1>2, <1>3, <1>4, <1>5 DEF DockerInv

LEMMA BoxRemoveStale ==
  ASSUME DockerInv, DockerCalmHost, Docker!RemoveStale
  PROVE  DockerInv'
<1>1. DockerTypes'
  BY DEF DockerInv, DockerTypes, Flows, Boxes, Sweeps, Docker!RemoveStale
<1>2. Registered'
  BY DEF DockerInv, DockerTypes, Registered, StaleIsOver, Docker!RemoveStale
<1>3. Sheltered'
  BY DEF DockerInv, DockerTypes, Sweeps, Registered, Sheltered, StaleIsOver, Docker!Uses,
    Docker!Exists, Docker!RemoveStale
<1>4. StaleIsOver'
  BY DEF DockerInv, DockerTypes, Sweeps, Registered, StaleIsOver, Docker!Exists, Docker!RemoveStale
<1>5. SweepSparesSessions'
  BY DEF DockerInv, DockerTypes, Sheltered, StaleIsOver, SweepSparesSessions,
    Docker!SweepSparesSessions, Docker!Uses, Docker!RemoveStale
<1> QED BY <1>1, <1>2, <1>3, <1>4, <1>5 DEF DockerInv

LEMMA BoxCleanupOrphanedWorkspaces ==
  ASSUME DockerInv, DockerCalmHost, Docker!CleanupOrphanedWorkspaces
  PROVE  DockerInv'
<1>1. DockerTypes'
  BY DEF DockerInv, DockerTypes, Flows, Boxes, Sweeps, Docker!CleanupOrphanedWorkspaces, Docker!NoSweep
<1>2. Registered'
  BY DEF DockerInv, DockerTypes, Registered, Docker!Exists, Docker!CleanupOrphanedWorkspaces,
    Docker!NoSweep
<1>3. Sheltered'
  BY DEF DockerInv, DockerTypes, Sweeps, Registered, Sheltered, StaleIsOver, Docker!Uses,
    Docker!Exists, Docker!CleanupOrphanedWorkspaces, Docker!NoSweep
<1>4. StaleIsOver'
  BY DEF DockerInv, DockerTypes, Sweeps, Registered, StaleIsOver, Docker!Exists,
    Docker!CleanupOrphanedWorkspaces, Docker!NoSweep
<1>5. SweepSparesSessions'
  BY DEF DockerInv, DockerTypes, Sheltered, StaleIsOver, SweepSparesSessions,
    Docker!SweepSparesSessions, Docker!Uses, Docker!CleanupOrphanedWorkspaces, Docker!NoSweep
<1> QED BY <1>1, <1>2, <1>3, <1>4, <1>5 DEF DockerInv

LEMMA DockerInit == ASSUME Docker!Init PROVE DockerInv
BY DEF Docker!Init, DockerInv, DockerTypes, Flows, Boxes, Sweeps, Registered, Sheltered, StaleIsOver,
  SweepSparesSessions, Docker!SweepSparesSessions, Docker!Uses, Docker!NoSweep

LEMMA DockerStep == ASSUME DockerInv, DockerCalmHost, [Docker!Next]_(Docker!vars) PROVE DockerInv'
<1>1. ASSUME NEW b \in DockerBox,
             \/ Docker!WriteWorkspace(b) \/ Docker!CreateSessionNetwork(b) \/ Docker!AddActive(b)
             \/ Docker!Launch(b) \/ Docker!LaunchFails(b) \/ Docker!DockerCreates(b)
             \/ Docker!DockerStarts(b) \/ Docker!ProgramEnds(b) \/ Docker!Age(b) \/ Docker!AgeWorkspace(b)
             \/ Docker!WatchExit(b) \/ Docker!StopAndRemove(b) \/ Docker!Release(b)
                    \/ Docker!CheckContainer(b)
      PROVE  DockerInv'
  BY <1>1, BoxWriteWorkspace, BoxCreateSessionNetwork, BoxAddActive, BoxLaunch, BoxLaunchFails,
    BoxDockerCreates, BoxDockerStarts, BoxProgramEnds, BoxAge, BoxAgeWorkspace, BoxWatchExit,
    BoxStopAndRemove, BoxRelease, BoxCheckContainer
<1>2. CASE \/ Docker!Crash \/ Docker!Restart \/ Docker!ListContainers \/ Docker!RemoveStale
           \/ Docker!CleanupOrphanedWorkspaces
  BY <1>2, BoxCrash, BoxRestart, BoxListContainers, BoxRemoveStale, BoxCleanupOrphanedWorkspaces
<1>3. CASE UNCHANGED Docker!vars
  BY <1>3 DEF Docker!vars, DockerInv, DockerTypes, Registered, Sheltered, StaleIsOver, SweepSparesSessions,
    Docker!SweepSparesSessions, Docker!Uses, Docker!Exists
<1> QED BY <1>1, <1>2, <1>3 DEF Docker!Next

\* The sweep takes neither its container nor its workspace from a call that starts or
\* runs, for any containers and at any crash, on a host where a start and a sweep are
\* over before its workspace counts as abandoned: the code has no lock here, only the
\* order in which a call registers, and these thirty seconds.
THEOREM SweepIsSafe == ASSUME DockerCalmHost PROVE Docker!Spec => []SweepSparesSessions
<1>1. DockerInv => SweepSparesSessions
  BY DEF DockerInv
<1>2. DockerInv /\ [Docker!Next]_(Docker!vars) => DockerInv'
  BY DockerStep
<1> QED BY <1>1, <1>2, DockerInit, PTL DEF Docker!Spec

-----------------------------------------------------------------------------
(* LanguageClient: a path belongs to one file, so what is sent for a file is what  *)
(* the server has at its path.                                                     *)

ClientTypes ==
  /\ cPath \in [ClientFile -> ClientPath \cup {"none"}] /\ cText \in [ClientFile -> Int]
  /\ cDocs \in [ClientPath -> {Client!Closed} \cup (ClientFile \X Int)]

OneFileAtPath == \A f, g \in ClientFile : cPath[f] = cPath[g] /\ cPath[f] # "none" => f = g

ClientInv == ClientTypes /\ OneFileAtPath /\ ServerHasRoomTexts

LEMMA PathsHaveNames == "none" \notin ClientPath
BY ExecutionAssumption DEF Client!LanguageClientAssumption

LEMMA SentIsNotClosed == \A f, t : <<f, t>> # Client!Closed
BY DEF Client!Closed

\* What syncWorkspace sends: at each path the text of its file.
LEMMA SentTexts ==
  ASSUME NEW files \in [ClientFile -> ClientPath \cup {"none"}], cText \in [ClientFile -> Int],
         \A f, g \in ClientFile : files[f] = files[g] /\ files[f] # "none" => f = g,
         NEW sent, sent = [p \in ClientPath |->
           IF {f \in ClientFile : files[f] = p} = {} THEN Client!Closed
           ELSE Client!TextOf(CHOOSE f \in {g \in ClientFile : files[g] = p} : TRUE)]
  PROVE  /\ sent \in [ClientPath -> {Client!Closed} \cup (ClientFile \X Int)]
         /\ \A f \in ClientFile : files[f] # "none" => sent[files[f]] = <<f, cText[f]>>
<1>1. ASSUME NEW p \in ClientPath, NEW f \in ClientFile, files[f] = p
      PROVE  sent[p] = <<f, cText[f]>>
  <2>1. {g \in ClientFile : files[g] = p} = {f}
    BY <1>1, PathsHaveNames
  <2>2. (CHOOSE g \in {g \in ClientFile : files[g] = p} : TRUE) = f
    BY <2>1
  <2> QED BY <1>1, <2>1, <2>2 DEF Client!TextOf
<1>2. ASSUME NEW p \in ClientPath, {f \in ClientFile : files[f] = p} = {} PROVE sent[p] = Client!Closed
  BY <1>2
<1>3. ASSUME NEW p \in ClientPath PROVE sent[p] \in {Client!Closed} \cup (ClientFile \X Int)
  <2>1. CASE \E f \in ClientFile : files[f] = p
    <3>1. PICK f \in ClientFile : files[f] = p
      BY <2>1
    <3>2. sent[p] = <<f, cText[f]>> /\ cText[f] \in Int
      BY <1>1, <3>1
    <3> QED BY <3>2
  <2>2. CASE ~\E f \in ClientFile : files[f] = p
    BY <1>2, <2>2
  <2> QED BY <2>1, <2>2
<1> QED BY <1>1, <1>3

LEMMA ClientStep == ASSUME ClientInv, [Client!Next]_(Client!vars) PROVE ClientInv'
<1> USE DEF Client!room
<1>1. ASSUME NEW f \in ClientFile, Client!OpenPane(f) PROVE ClientInv'
  <2>1. UNCHANGED <<cPath, cText>>
    BY <1>1 DEF Client!OpenPane
  <2>2. CASE cPhase = "connected"
    <3>1. cDocs' = [cDocs EXCEPT ![cPath[f]] = IF @ = Client!Closed THEN Client!TextOf(f) ELSE @]
          /\ cPhase' = cPhase /\ cPath[f] \in ClientPath
      BY <1>1, <2>2 DEF Client!OpenPane, ClientInv, ClientTypes
    <3>2. cDocs[cPath[f]] = Client!TextOf(f)
      BY <1>1, <2>2 DEF Client!OpenPane, ClientInv, ServerHasRoomTexts, Client!ServerHasRoomTexts
    <3>3. cDocs' = cDocs
      BY <3>1, <3>2 DEF ClientInv, ClientTypes
    <3> QED BY <2>1, <3>1, <3>3 DEF ClientInv, ClientTypes, OneFileAtPath, ServerHasRoomTexts,
      Client!ServerHasRoomTexts, Client!TextOf
  <2>3. CASE cPhase # "connected"
    <3>1. cPhase' = "connecting" /\ cDocs' = cDocs
      BY <1>1, <2>3 DEF Client!OpenPane
    <3> QED BY <2>1, <3>1 DEF ClientInv, ClientTypes, OneFileAtPath, ServerHasRoomTexts,
      Client!ServerHasRoomTexts
  <2> QED BY <2>2, <2>3
<1>2. ASSUME NEW f \in ClientFile, Client!ClosePane(f) PROVE ClientInv'
  BY <1>2 DEF Client!ClosePane, ClientInv, ClientTypes, OneFileAtPath, ServerHasRoomTexts,
    Client!ServerHasRoomTexts, Client!TextOf
<1>3. ASSUME NEW f \in ClientFile, Client!Edit(f) PROVE ClientInv'
  <2>1. /\ cPath' = cPath /\ cPhase' = cPhase /\ cPath[f] \in ClientPath /\ cPath[f] # "none"
        /\ cText' = [cText EXCEPT ![f] = @ + 1] /\ cText'[f] \in Int
        /\ cDocs' = IF cPhase = "connected" THEN [cDocs EXCEPT ![cPath[f]] = <<f, cText'[f]>>] ELSE cDocs
    BY <1>3 DEF Client!Edit, Client!SyncFile, ClientInv, ClientTypes
  <2>2. ClientTypes' /\ OneFileAtPath'
    BY <2>1 DEF ClientInv, ClientTypes, OneFileAtPath
  <2>3. ASSUME cPhase = "connected", NEW g \in ClientFile, cPath[g] # "none"
        PROVE  cDocs'[cPath[g]] = <<g, cText'[g]>>
    <3>1. CASE g = f
      BY <2>1, <2>3, <3>1 DEF ClientInv, ClientTypes
    <3>2. CASE g # f
      <4>1. cPath[g] # cPath[f] /\ cPath[g] \in ClientPath
        BY <2>1, <2>3, <3>2 DEF ClientInv, ClientTypes, OneFileAtPath
      <4>2. cDocs[cPath[g]] = <<g, cText[g]>>
        BY <2>3 DEF ClientInv, ServerHasRoomTexts, Client!ServerHasRoomTexts, Client!TextOf
      <4> QED BY <2>1, <2>3, <3>2, <4>1, <4>2 DEF ClientInv, ClientTypes
    <3> QED BY <3>1, <3>2
  <2> QED BY <2>1, <2>2, <2>3 DEF ClientInv, ServerHasRoomTexts, Client!ServerHasRoomTexts, Client!TextOf
<1>4. ASSUME NEW f \in ClientFile, NEW p \in ClientPath \cup {"none"}, Client!Rename(f, p) PROVE ClientInv'
  <2>1. /\ cPath' = [cPath EXCEPT ![f] = p] /\ cText' = cText /\ cPhase' = cPhase
        /\ p = "none" \/ \A g \in ClientFile : cPath[g] # p
    BY <1>4 DEF Client!Rename, Client!FileAt
  <2>2. cPath' \in [ClientFile -> ClientPath \cup {"none"}] /\ cText \in [ClientFile -> Int]
    BY <2>1 DEF ClientInv, ClientTypes
  <2>3. OneFileAtPath'
    BY <2>1 DEF ClientInv, ClientTypes, OneFileAtPath
  <2>4. CASE cPhase = "connected"
    <3>1. cDocs' = [q \in ClientPath |->
            IF {g \in ClientFile : cPath'[g] = q} = {} THEN Client!Closed
            ELSE Client!TextOf(CHOOSE g \in {h \in ClientFile : cPath'[h] = q} : TRUE)]
      BY <1>4, <2>4 DEF Client!Rename, Client!SyncWorkspace
    <3>2. \A g, h \in ClientFile : cPath'[g] = cPath'[h] /\ cPath'[g] # "none" => g = h
      BY <2>3 DEF OneFileAtPath
    <3>3. /\ cDocs' \in [ClientPath -> {Client!Closed} \cup (ClientFile \X Int)]
          /\ \A g \in ClientFile : cPath'[g] # "none" => cDocs'[cPath'[g]] = <<g, cText[g]>>
      <4> DEFINE files == cPath'
                 sent == cDocs'
      <4>1. /\ files \in [ClientFile -> ClientPath \cup {"none"}]
            /\ \A g, h \in ClientFile : files[g] = files[h] /\ files[g] # "none" => g = h
            /\ sent = [q \in ClientPath |->
                 IF {g \in ClientFile : files[g] = q} = {} THEN Client!Closed
                 ELSE Client!TextOf(CHOOSE g \in {h \in ClientFile : files[h] = q} : TRUE)]
        BY <2>2, <3>1, <3>2
      <4> HIDE DEF files, sent
      <4>2. /\ sent \in [ClientPath -> {Client!Closed} \cup (ClientFile \X Int)]
            /\ \A g \in ClientFile : files[g] # "none" => sent[files[g]] = <<g, cText[g]>>
        BY <2>2, <4>1, SentTexts
      <4> QED BY <4>2 DEF files, sent
    <3> QED BY <2>1, <2>2, <2>3, <3>3 DEF ClientInv, ClientTypes, ServerHasRoomTexts,
      Client!ServerHasRoomTexts, Client!TextOf
  <2>5. CASE cPhase # "connected"
    <3>1. cDocs' = cDocs
      BY <1>4, <2>5 DEF Client!Rename
    <3> QED BY <2>1, <2>2, <2>3, <2>5, <3>1 DEF ClientInv, ClientTypes, ServerHasRoomTexts,
      Client!ServerHasRoomTexts
  <2> QED BY <2>4, <2>5
<1>5. ASSUME Client!Connect PROVE ClientInv'
  <2> DEFINE ps == {f \in ClientFile : cPane[f] = "waiting"}
             sent == [p \in ClientPath |->
               IF {f \in ClientFile : cPath[f] = p} = {} THEN Client!Closed
               ELSE Client!TextOf(CHOOSE f \in {g \in ClientFile : cPath[g] = p} : TRUE)]
  <2>1. /\ UNCHANGED <<cPath, cText>>
        /\ cDocs' = [p \in ClientPath |->
             IF sent[p] = Client!Closed /\ \E f \in ps : cUsed[f] = p
             THEN Client!TextOf(CHOOSE f \in ps : cUsed[f] = p) ELSE sent[p]]
    BY <1>5 DEF Client!Connect, Client!OpenDocuments, Client!FileAt
  <2>2. ps \subseteq ClientFile
    OBVIOUS
  <2>3. sent = [p \in ClientPath |->
          IF {f \in ClientFile : cPath[f] = p} = {} THEN Client!Closed
          ELSE Client!TextOf(CHOOSE f \in {g \in ClientFile : cPath[g] = p} : TRUE)]
    OBVIOUS
  <2> HIDE DEF ps, sent
  <2>4. /\ sent \in [ClientPath -> {Client!Closed} \cup (ClientFile \X Int)]
        /\ \A f \in ClientFile : cPath[f] # "none" => sent[cPath[f]] = <<f, cText[f]>>
    BY <2>3, SentTexts DEF ClientInv, ClientTypes, OneFileAtPath
  <2>5. ASSUME NEW p \in ClientPath PROVE cDocs'[p] \in {Client!Closed} \cup (ClientFile \X Int)
    <3>1. CASE sent[p] = Client!Closed /\ \E f \in ps : cUsed[f] = p
      <4>1. PICK f \in ps : f = CHOOSE g \in ps : cUsed[g] = p
        BY <3>1
      <4> QED BY <2>1, <2>2, <3>1, <4>1 DEF Client!TextOf, ClientInv, ClientTypes
    <3> QED BY <2>1, <2>4, <3>1
  <2>6. ASSUME NEW f \in ClientFile, cPath[f] # "none" PROVE cDocs'[cPath[f]] = <<f, cText[f]>>
    BY <2>1, <2>4, <2>6, SentIsNotClosed DEF ClientInv, ClientTypes
  <2> QED BY <2>1, <2>5, <2>6 DEF ClientInv, ClientTypes, OneFileAtPath, ServerHasRoomTexts,
    Client!ServerHasRoomTexts, Client!TextOf
<1>6. ASSUME Client!EndSocket \/ Client!IdleTimeout PROVE ClientInv'
  <2>1. UNCHANGED <<cPath, cText>> /\ cPhase' = "none" /\ cDocs' = [p \in ClientPath |-> Client!Closed]
    BY <1>6 DEF Client!EndSocket, Client!IdleTimeout, Client!Dispose, Client!NoDocs
  <2> QED BY <2>1 DEF ClientInv, ClientTypes, OneFileAtPath, ServerHasRoomTexts, Client!ServerHasRoomTexts
<1>7. CASE UNCHANGED Client!vars
  BY <1>7 DEF Client!vars, ClientInv, ClientTypes, OneFileAtPath, ServerHasRoomTexts,
    Client!ServerHasRoomTexts, Client!TextOf
<1> QED BY <1>1, <1>2, <1>3, <1>4, <1>5, <1>6, <1>7 DEF Client!Next

\* A connected language server has the text of every file at the path it has now,
\* whatever was edited and renamed before and while it started, for any files, paths
\* and panes.
THEOREM LanguageServersHaveTheRoom == Client!Spec => []ServerHasRoomTexts
<1>1. Client!Init => ClientInv
  BY DEF Client!Init, Client!NoDocs, ClientInv, ClientTypes, OneFileAtPath, ServerHasRoomTexts,
    Client!ServerHasRoomTexts
<1>2. ClientInv => ServerHasRoomTexts
  BY DEF ClientInv
<1> QED BY <1>1, <1>2, ClientStep, PTL DEF Client!Spec

-----------------------------------------------------------------------------
(* TerminalFiles: for a file that nobody refused, texts only grow on their way     *)
(* from the container to the room and back.                                        *)

Texts == [FilesFile -> SUBSET Nat]
FileAnswers == [poll : Nat, todo : SUBSET FilesFile, text : Texts, previous : Texts]
FileRuns ==
  [at : {"idle", "flush terminal", "flush room", "asked", "sync", "runs"}, poll : Nat, entries : Texts]

FileCounts == [edits : Nat, changes : Nat, runs : Nat, lost : Nat, polls : Nat]

FileTypes ==
  /\ {fShared, fStored, fDisk, fKnown, fClicked} \subseteq Texts
  /\ fAnswers \subseteq FileAnswers /\ fRun \in FileRuns
  /\ fCount \in FileCounts
  /\ fTyped \subseteq Nat /\ fSeen \subseteq Nat /\ fRefused \subseteq FilesFile

\* An edit has a number that no text had before.
EditsNumbered ==
  /\ \A e \in fTyped : 1 <= e /\ e <= fCount.edits
  /\ \A f \in FilesFile :
       \A e \in fShared[f] \cup fStored[f] \cup fDisk[f] \cup fKnown[f] \cup fRun.entries[f] :
         e <= fCount.edits
  /\ \A a \in fAnswers : \A f \in FilesFile : \A e \in a.text[f] \cup a.previous[f] : e <= fCount.edits

\* What the container has of the edits of the room it has seen.
ContainerSaw ==
  /\ \A f \in FilesFile : \A e \in fDisk[f] \cup fKnown[f] : e \in fTyped => e \in fSeen
  /\ \A a \in fAnswers : \A f \in FilesFile : \A e \in a.text[f] \cup a.previous[f] :
       e \in fTyped => e \in fSeen

\* The container adds to what the service knows, and an answer adds to what it replaces.
ContainerAdds ==
  /\ \A f \in FilesFile \ fRefused : fKnown[f] \subseteq fDisk[f]
  /\ \A a \in fAnswers : \A f \in a.todo \ fRefused :
       a.previous[f] \subseteq a.text[f] /\ a.previous[f] # a.text[f]

\* What the service knows is in the room or in an answer.
Brought ==
  \A f \in FilesFile \ fRefused : \A e \in fKnown[f] \ {0} :
    e \in fShared[f] \/ \E a \in fAnswers : f \in a.todo /\ e \in a.text[f]

\* Snapshots, and what a run read of them, are texts the room had.
RoomSaved ==
  \A f \in FilesFile \ fRefused :
    /\ fStored[f] \ {0} \subseteq fShared[f]
    /\ fRun.at = "sync" => fRun.entries[f] \ {0} \subseteq fShared[f]

\* How far the texts of the tab are on their way to the container.
TabSent ==
  \A f \in FilesFile \ fRefused :
    /\ fRun.at \in {"flush terminal", "flush room", "asked"} => fClicked[f] \subseteq fShared[f]
    /\ fRun.at = "asked" => fClicked[f] \subseteq fStored[f]
    /\ fRun.at \in {"sync", "runs"} => fClicked[f] \subseteq fRun.entries[f]

FileInv ==
  FileTypes /\ EditsNumbered /\ ContainerSaw /\ ContainerAdds /\ Brought /\ RoomSaved /\ TabSent

LEMMA FilesBounds == FilesMaxEdits \in Nat
BY ExecutionAssumption DEF Files!FilesAssumption

LEMMA FileNumbers ==
  ASSUME FileTypes
  PROVE  /\ fCount.edits \in Nat
         /\ \A f \in FilesFile :
              fShared[f] \cup fStored[f] \cup fDisk[f] \cup fKnown[f] \cup fRun.entries[f] \subseteq Nat
         /\ \A a \in fAnswers : \A f \in FilesFile : a.text[f] \cup a.previous[f] \subseteq Nat
<1>1. fCount.edits \in Nat
  BY DEF FileTypes, FileCounts
<1>2. fRun.entries \in Texts
  BY DEF FileTypes, FileRuns
<1>3. \A f \in FilesFile :
        fShared[f] \cup fStored[f] \cup fDisk[f] \cup fKnown[f] \cup fRun.entries[f] \subseteq Nat
  BY <1>2 DEF FileTypes, Texts
<1>4. \A a \in fAnswers : \A f \in FilesFile : a.text[f] \cup a.previous[f] \subseteq Nat
  BY DEF FileTypes, FileAnswers, Texts
<1> QED BY <1>1, <1>3, <1>4

LEMMA FileType ==
  ASSUME FileInv, NEW f \in FilesFile, Files!Type(f)
  PROVE  FileInv'
<1>1. /\ fCount' \in FileCounts
      /\ fCount'.edits = fCount.edits + 1 /\ fCount.edits \in Nat
  BY DEF FileInv, FileTypes, FileCounts, Files!Type
<1>2. /\ fShared' \in Texts
      /\ \A g \in FilesFile :
           fShared'[g] = IF g = f THEN fShared[f] \cup {fCount.edits + 1} ELSE fShared[g]
  <2>1. fShared[f] \cup {fCount.edits + 1} \in SUBSET Nat
    BY DEF FileInv, FileTypes, Texts, FileCounts
  <2> QED BY <2>1 DEF FileInv, FileTypes, Texts, Files!Type
<1>3. /\ fTyped' = fTyped \cup {fCount.edits + 1}
      /\ UNCHANGED <<fStored, fDisk, fKnown, fAnswers, fRun, fSeen, fRefused, fClicked>>
  BY DEF Files!Type
<1>4. /\ fCount.edits \in Nat
      /\ \A g \in FilesFile :
           fShared[g] \cup fStored[g] \cup fDisk[g] \cup fKnown[g] \cup fRun.entries[g] \subseteq Nat
      /\ \A a \in fAnswers : \A g \in FilesFile : a.text[g] \cup a.previous[g] \subseteq Nat
  BY FileNumbers DEF FileInv
<1>5. FileTypes'
  BY <1>1, <1>2, <1>3 DEF FileInv, FileTypes, Texts, FileAnswers, FileRuns
<1>6. EditsNumbered'
  <2>1. /\ 1 <= fCount.edits + 1 /\ fCount.edits + 1 <= fCount.edits + 1
        /\ \A e \in Nat : e <= fCount.edits => e <= fCount.edits + 1
    BY <1>4
  <2>2. \A e \in fTyped : e \in Nat
    BY DEF FileInv, FileTypes
  <2> QED BY <1>1, <1>2, <1>3, <1>4, <2>1, <2>2 DEF FileInv, EditsNumbered
<1>7. ContainerSaw'
  BY <1>1, <1>2, <1>3, <1>4 DEF FileInv, EditsNumbered, ContainerSaw
<1>8. ContainerAdds'
  BY <1>1, <1>2, <1>3 DEF FileInv, FileTypes, Texts, FileAnswers, ContainerAdds
<1>9. Brought'
  BY <1>1, <1>2, <1>3 DEF FileInv, FileTypes, Texts, FileAnswers, Brought
<1>10. RoomSaved'
  BY <1>1, <1>2, <1>3 DEF FileInv, FileTypes, Texts, FileRuns, RoomSaved
<1>11. TabSent'
  BY <1>1, <1>2, <1>3 DEF FileInv, FileTypes, Texts, FileRuns, RoomSaved, TabSent
<1> QED BY <1>5, <1>6, <1>7, <1>8, <1>9, <1>10, <1>11 DEF FileInv

LEMMA FileSaveSnapshot ==
  ASSUME FileInv, NEW f \in FilesFile, Files!SaveSnapshot(f)
  PROVE  FileInv'
<1>1. /\ fStored' \in Texts
      /\ \A g \in FilesFile :
           fStored'[g] = IF g = f THEN fShared[f] ELSE fStored[g]
  <2>1. fShared[f] \in SUBSET Nat
    BY DEF FileInv, FileTypes, Texts, FileCounts
  <2> QED BY <2>1 DEF FileInv, FileTypes, Texts, Files!SaveSnapshot
<1>2. UNCHANGED <<fShared, fDisk, fKnown, fAnswers, fRun, fCount, fTyped, fSeen, fRefused, fClicked>>
  BY DEF Files!SaveSnapshot
<1>3. FileTypes'
  BY <1>1, <1>2 DEF FileInv, FileTypes, Texts, FileAnswers, FileRuns
<1>4. EditsNumbered'
  BY <1>1, <1>2 DEF FileInv, FileTypes, Texts, FileAnswers, FileRuns, EditsNumbered
<1>5. ContainerSaw'
  BY <1>1, <1>2 DEF FileInv, FileTypes, Texts, FileAnswers, FileRuns, EditsNumbered, ContainerSaw
<1>6. ContainerAdds'
  BY <1>1, <1>2 DEF FileInv, FileTypes, Texts, FileAnswers, ContainerAdds
<1>7. Brought'
  BY <1>1, <1>2 DEF FileInv, FileTypes, Texts, FileAnswers, Brought
<1>8. RoomSaved'
  BY <1>1, <1>2 DEF FileInv, FileTypes, Texts, FileRuns, RoomSaved
<1>9. TabSent'
  BY <1>1, <1>2 DEF FileInv, FileTypes, Texts, FileRuns, RoomSaved, TabSent
<1> QED BY <1>3, <1>4, <1>5, <1>6, <1>7, <1>8, <1>9 DEF FileInv

LEMMA FileChangeTree ==
  ASSUME FileInv, NEW f \in FilesFile, Files!ChangeTree(f)
  PROVE  FileInv'
<1>1. /\ fCount' \in FileCounts
      /\ fCount'.edits = fCount.edits
  BY DEF FileInv, FileTypes, FileCounts, Files!ChangeTree
<1>2. /\ fShared' \in Texts
      /\ \A g \in FilesFile :
           fShared'[g] = IF g = f THEN (IF fShared[f] = {} THEN {0} ELSE {}) ELSE fShared[g]
  <2>1. (IF fShared[f] = {} THEN {0} ELSE {}) \in SUBSET Nat
    BY DEF FileInv, FileTypes, Texts, FileCounts
  <2> QED BY <2>1 DEF FileInv, FileTypes, Texts, Files!ChangeTree, Files!Absent
<1>3. /\ fStored' \in Texts
      /\ \A g \in FilesFile : fStored'[g] = IF g = f THEN fShared'[g] ELSE fStored[g]
  BY <1>2 DEF FileInv, FileTypes, Texts, Files!ChangeTree
<1>4. /\ fRefused' = fRefused \cup {f}
      /\ UNCHANGED <<fDisk, fKnown, fAnswers, fRun, fTyped, fSeen, fClicked>>
  BY DEF Files!ChangeTree
<1>5. /\ fCount.edits \in Nat
      /\ \A g \in FilesFile :
           fShared[g] \cup fStored[g] \cup fDisk[g] \cup fKnown[g] \cup fRun.entries[g] \subseteq Nat
      /\ \A a \in fAnswers : \A g \in FilesFile : a.text[g] \cup a.previous[g] \subseteq Nat
  BY FileNumbers DEF FileInv
<1>6. FileTypes'
  BY <1>1, <1>2, <1>3, <1>4 DEF FileInv, FileTypes, Texts, FileAnswers, FileRuns
<1>7. EditsNumbered'
  BY <1>1, <1>2, <1>3, <1>4, <1>5 DEF FileInv, EditsNumbered
<1>8. ContainerSaw'
  BY <1>1, <1>2, <1>3, <1>4 DEF FileInv, FileTypes, Texts, FileAnswers, FileRuns, EditsNumbered,
    ContainerSaw
<1>9. ContainerAdds'
  BY <1>1, <1>2, <1>3, <1>4 DEF FileInv, FileTypes, Texts, FileAnswers, ContainerAdds
<1>10. Brought'
  BY <1>1, <1>2, <1>3, <1>4 DEF FileInv, FileTypes, Texts, FileAnswers, Brought
<1>11. RoomSaved'
  BY <1>1, <1>2, <1>3, <1>4 DEF FileInv, FileTypes, Texts, FileRuns, RoomSaved
<1>12. TabSent'
  BY <1>1, <1>2, <1>3, <1>4 DEF FileInv, FileTypes, Texts, FileRuns, RoomSaved, TabSent
<1> QED BY <1>6, <1>7, <1>8, <1>9, <1>10, <1>11, <1>12 DEF FileInv

LEMMA FileProgramEdits ==
  ASSUME FileInv, NEW f \in FilesFile, Files!ProgramEdits(f)
  PROVE  FileInv'
<1>1. /\ fCount' \in FileCounts
      /\ fCount'.edits = fCount.edits + 1 /\ fCount.edits \in Nat
  BY DEF FileInv, FileTypes, FileCounts, Files!ProgramEdits
<1>2. /\ fDisk' \in Texts
      /\ \A g \in FilesFile :
           fDisk'[g] = IF g = f THEN fDisk[f] \cup {fCount.edits + 1} ELSE fDisk[g]
  <2>1. fDisk[f] \cup {fCount.edits + 1} \in SUBSET Nat
    BY DEF FileInv, FileTypes, Texts, FileCounts
  <2> QED BY <2>1 DEF FileInv, FileTypes, Texts, Files!ProgramEdits
<1>3. UNCHANGED <<fShared, fStored, fKnown, fAnswers, fRun, fTyped, fSeen, fRefused, fClicked>>
  BY DEF Files!ProgramEdits
<1>4. /\ fCount.edits \in Nat
      /\ \A g \in FilesFile :
           fShared[g] \cup fStored[g] \cup fDisk[g] \cup fKnown[g] \cup fRun.entries[g] \subseteq Nat
      /\ \A a \in fAnswers : \A g \in FilesFile : a.text[g] \cup a.previous[g] \subseteq Nat
  BY FileNumbers DEF FileInv
<1>5. FileTypes'
  BY <1>1, <1>2, <1>3 DEF FileInv, FileTypes
<1>6. EditsNumbered'
  <2>1. /\ 1 <= fCount.edits + 1 /\ fCount.edits + 1 <= fCount.edits + 1
        /\ \A e \in Nat : e <= fCount.edits => e <= fCount.edits + 1
    BY <1>4
  <2>2. \A e \in fTyped : e \in Nat
    BY DEF FileInv, FileTypes
  <2> QED BY <1>1, <1>2, <1>3, <1>4, <2>1, <2>2 DEF FileInv, EditsNumbered
<1>7. ContainerSaw'
  BY <1>1, <1>2, <1>3, <1>4 DEF FileInv, EditsNumbered, ContainerSaw
<1>8. ContainerAdds'
  BY <1>1, <1>2, <1>3 DEF FileInv, FileTypes, Texts, FileAnswers, ContainerAdds
<1>9. Brought'
  BY <1>1, <1>2, <1>3 DEF FileInv, FileTypes, Texts, FileAnswers, Brought
<1>10. RoomSaved'
  BY <1>1, <1>2, <1>3 DEF FileInv, FileTypes, Texts, FileRuns, RoomSaved
<1>11. TabSent'
  BY <1>1, <1>2, <1>3 DEF FileInv, FileTypes, Texts, FileRuns, RoomSaved, TabSent
<1> QED BY <1>5, <1>6, <1>7, <1>8, <1>9, <1>10, <1>11 DEF FileInv

LEMMA FileProgramChanges ==
  ASSUME FileInv, NEW f \in FilesFile, Files!ProgramChanges(f)
  PROVE  FileInv'
<1>1. /\ fCount' \in FileCounts
      /\ fCount'.edits = fCount.edits
  BY DEF FileInv, FileTypes, FileCounts, Files!ProgramChanges
<1>2. /\ fDisk' \in Texts
      /\ \A g \in FilesFile :
           fDisk'[g] = IF g = f THEN (IF fDisk[f] = {} THEN {0} ELSE {}) ELSE fDisk[g]
  <2>1. (IF fDisk[f] = {} THEN {0} ELSE {}) \in SUBSET Nat
    BY DEF FileInv, FileTypes, Texts, FileCounts
  <2> QED BY <2>1 DEF FileInv, FileTypes, Texts, Files!ProgramChanges, Files!Absent
<1>3. /\ fRefused' = (IF fDisk[f] = {} THEN fRefused ELSE fRefused \cup {f})
      /\ UNCHANGED <<fShared, fStored, fKnown, fAnswers, fRun, fTyped, fSeen, fClicked>>
  BY DEF Files!ProgramChanges, Files!Absent
<1>4. /\ fCount.edits \in Nat
      /\ \A g \in FilesFile :
           fShared[g] \cup fStored[g] \cup fDisk[g] \cup fKnown[g] \cup fRun.entries[g] \subseteq Nat
      /\ \A a \in fAnswers : \A g \in FilesFile : a.text[g] \cup a.previous[g] \subseteq Nat
  BY FileNumbers DEF FileInv
<1>5. FileTypes'
  BY <1>1, <1>2, <1>3 DEF FileInv, FileTypes, Texts, FileAnswers, FileRuns
<1>6. EditsNumbered'
  BY <1>1, <1>2, <1>3, <1>4 DEF FileInv, EditsNumbered
<1>7. ContainerSaw'
  BY <1>1, <1>2, <1>3, <1>4 DEF FileInv, EditsNumbered, ContainerSaw
<1>8. ContainerAdds'
  BY <1>1, <1>2, <1>3 DEF FileInv, FileTypes, Texts, FileAnswers, ContainerAdds
<1>9. Brought'
  BY <1>1, <1>2, <1>3 DEF FileInv, FileTypes, Texts, FileAnswers, Brought
<1>10. RoomSaved'
  BY <1>1, <1>2, <1>3 DEF FileInv, FileTypes, Texts, FileRuns, RoomSaved
<1>11. TabSent'
  BY <1>1, <1>2, <1>3 DEF FileInv, FileTypes, Texts, FileRuns, RoomSaved, TabSent
<1> QED BY <1>5, <1>6, <1>7, <1>8, <1>9, <1>10, <1>11 DEF FileInv

LEMMA FileApplyEntry ==
  ASSUME FileInv, NEW f \in FilesFile, NEW a \in fAnswers, Files!ApplyEntry(a, f)
  PROVE  FileInv'
<1>1. PICK r \in SUBSET Nat :
        /\ r = (IF a.text[f] = {} THEN Files!DeleteFile(f, a.previous[f])
                ELSE IF fShared[f] # {} THEN Files!UpdateFile(f, a.text[f], a.previous[f])
                ELSE Files!CreateFile(f, a.text[f], a.previous[f]))
        /\ IF r = Files!Conflict THEN fRefused' = fRefused \cup {f} /\ UNCHANGED <<fShared, fStored>>
           ELSE /\ fShared' = [fShared EXCEPT ![f] = r] /\ fRefused' = fRefused
                /\ fStored' = IF (r = {}) # (fShared[f] = {})
                           THEN [fStored EXCEPT ![f] = IF r = {} THEN {} ELSE {0}] ELSE fStored
  <2>1. (IF a.text[f] = {} THEN Files!DeleteFile(f, a.previous[f])
          ELSE IF fShared[f] # {} THEN Files!UpdateFile(f, a.text[f], a.previous[f])
          ELSE Files!CreateFile(f, a.text[f], a.previous[f])) \in SUBSET Nat
    BY FilesBounds DEF FileInv, FileTypes, FileAnswers, Texts, Files!DeleteFile, Files!UpdateFile,
      Files!CreateFile,
      Files!Conflict, Files!Absent
  <2> QED BY <2>1 DEF Files!ApplyEntry, Files!Absent
<1>2. r # Files!Conflict =>
        /\ r = a.text[f]
        /\ fShared[f] \in {a.text[f], a.previous[f]} \/ fShared[f] = {}
  BY <1>1 DEF Files!DeleteFile, Files!UpdateFile, Files!CreateFile, Files!Absent
<1>3. f \notin fRefused' =>
        /\ r # Files!Conflict /\ fShared' = [fShared EXCEPT ![f] = a.text[f]]
        /\ fShared[f] \subseteq a.text[f] /\ a.text[f] # {}
  BY <1>1, <1>2 DEF FileInv, ContainerAdds, Files!ApplyEntry
<1>4. /\ \A g \in FilesFile : g # f => fShared'[g] = fShared[g] /\ fStored'[g] = fStored[g]
      /\ \A g \in FilesFile : g # f => (g \in fRefused' <=> g \in fRefused)
      /\ \A g \in FilesFile : g \in fRefused => g \in fRefused'
      /\ UNCHANGED <<fDisk, fKnown, fRun, fCount, fTyped, fSeen, fClicked>>
  BY <1>1 DEF FileInv, FileTypes, Texts, Files!ApplyEntry
<1>5. /\ fAnswers' \subseteq FileAnswers
      /\ \A b \in fAnswers' : \E c \in fAnswers :
           b.todo \subseteq c.todo /\ b.text = c.text /\ b.previous = c.previous
      /\ \A c \in fAnswers : \A g \in c.todo :
           (c = a /\ g = f) \/ \E b \in fAnswers' : g \in b.todo /\ b.text = c.text
  <2> DEFINE b == [a EXCEPT !.todo = @ \ {f}]
  <2>1. b \in FileAnswers /\ b.todo = a.todo \ {f} /\ b.text = a.text /\ b.previous = a.previous
    BY DEF FileInv, FileTypes, FileAnswers
  <2>2. fAnswers' = (fAnswers \ {a}) \cup (IF a.todo = {f} THEN {} ELSE {b})
    BY DEF Files!ApplyEntry
  <2> HIDE DEF b
  <2>3. ASSUME NEW c \in fAnswers, NEW g \in c.todo, ~(c = a /\ g = f)
        PROVE  \E d \in fAnswers' : g \in d.todo /\ d.text = c.text
    <3>1. CASE c # a
      BY <2>2, <3>1
    <3>2. CASE c = a
      BY <2>1, <2>2, <2>3, <3>2
    <3> QED BY <3>1, <3>2
  <2> QED BY <2>1, <2>2, <2>3 DEF FileInv, FileTypes
<1>6. f \notin fRefused' =>
        /\ fStored'[f] \in {fStored[f], {0}}
        /\ fStored'[f] # fStored[f] => fShared[f] = {}
  BY <1>1, <1>2, <1>3 DEF FileInv, FileTypes, Texts
<1>7. FileTypes'
  BY <1>1, <1>4, <1>5 DEF FileInv, FileTypes, Texts, Files!ApplyEntry
<1>8. EditsNumbered'
  <2>1. \A e \in fShared'[f] \cup fStored'[f] : e <= fCount.edits
    BY <1>1, <1>2 DEF FileInv, FileTypes, Texts, FileCounts, EditsNumbered
  <2> QED BY <1>4, <1>5, <2>1 DEF FileInv, EditsNumbered
<1>9. ContainerSaw'
  BY <1>4, <1>5 DEF FileInv, ContainerSaw
<1>10. ContainerAdds'
  <2>1. \A b \in fAnswers' : \A g \in b.todo \ fRefused' :
          b.previous[g] \subseteq b.text[g] /\ b.previous[g] # b.text[g]
    <3>1. ASSUME NEW b \in fAnswers', NEW g \in b.todo \ fRefused'
          PROVE  b.previous[g] \subseteq b.text[g] /\ b.previous[g] # b.text[g]
      <4>1. PICK c \in fAnswers : b.todo \subseteq c.todo /\ b.text = c.text /\ b.previous = c.previous
        BY <1>5
      <4>2. g \in c.todo \ fRefused
        BY <1>4, <1>5, <4>1 DEF FileAnswers
      <4> QED BY <4>1, <4>2 DEF FileInv, ContainerAdds
    <3> QED BY <3>1
  <2> QED BY <1>4, <2>1 DEF FileInv, ContainerAdds
<1>11. Brought'
  <2>1. ASSUME NEW g \in FilesFile \ fRefused', NEW e \in fKnown[g] \ {0}
        PROVE  e \in fShared'[g] \/ \E b \in fAnswers' : g \in b.todo /\ e \in b.text[g]
    <3>1. e \in fShared[g] \/ \E c \in fAnswers : g \in c.todo /\ e \in c.text[g]
      BY <1>4, <2>1 DEF FileInv, Brought
    <3>2. fShared[g] \subseteq fShared'[g]
      BY <1>3, <1>4, <2>1 DEF FileInv, FileTypes, Texts
    <3>3. ASSUME NEW c \in fAnswers, g \in c.todo, e \in c.text[g]
          PROVE  e \in fShared'[g] \/ \E b \in fAnswers' : g \in b.todo /\ e \in b.text[g]
      <4>1. CASE c = a /\ g = f
        BY <1>3, <2>1, <3>3, <4>1 DEF FileInv, FileTypes, Texts
      <4>2. CASE ~(c = a /\ g = f)
        BY <1>5, <3>3, <4>2
      <4> QED BY <4>1, <4>2
    <3> QED BY <3>1, <3>2, <3>3
  <2> QED BY <1>4, <2>1 DEF Brought
<1>12. RoomSaved'
  <2>1. \A g \in FilesFile \ fRefused' : fShared[g] \subseteq fShared'[g]
    BY <1>3, <1>4 DEF FileInv, FileTypes, Texts
  <2> QED BY <1>4, <1>6, <2>1 DEF FileInv, RoomSaved
<1>13. TabSent'
  <2>1. \A g \in FilesFile \ fRefused' : fShared[g] \subseteq fShared'[g]
    BY <1>3, <1>4 DEF FileInv, FileTypes, Texts
  <2>2. \A g \in FilesFile \ fRefused' : g \notin fRefused /\ (fStored'[g] = fStored[g] \/ fShared[g] = {})
    BY <1>4, <1>6
  <2> QED BY <1>4, <2>1, <2>2 DEF FileInv, TabSent
<1> QED BY <1>7, <1>8, <1>9, <1>10, <1>11, <1>12, <1>13 DEF FileInv

LEMMA FileLoseAnswer ==
  ASSUME FileInv, NEW a \in fAnswers, Files!LoseAnswer(a)
  PROVE  FileInv'
<1>1. fCount' \in FileCounts /\ fCount'.edits = fCount.edits
  <2>1. fCount.lost + 1 \in Nat
    BY DEF FileInv, FileTypes, FileCounts
  <2> QED BY <2>1 DEF FileInv, FileTypes, FileCounts, Files!LoseAnswer
<1>2. /\ fAnswers' = fAnswers \ {a} /\ fRefused' = fRefused \cup a.todo
      /\ UNCHANGED <<fShared, fStored, fDisk, fKnown, fTyped, fSeen, fClicked>>
  BY DEF Files!LoseAnswer
<1>3. /\ fRun' \in FileRuns
      /\ fRun' = fRun \/ fRun' = [at |-> "idle", poll |-> 0, entries |-> [g \in FilesFile |-> {}]]
  BY DEF FileInv, FileTypes, FileRuns, Texts, Files!LoseAnswer, Files!NoRun, Files!Absent
<1>4. \/ fRun' = fRun
      \/ fRun'.at = "idle" /\ \A g \in FilesFile : fRun'.entries[g] = {}
  BY <1>3
<1>5. FileTypes'
  BY <1>1, <1>2, <1>3, <1>4 DEF FileInv, FileTypes, Texts, FileAnswers, FileRuns
<1>6. EditsNumbered'
  BY <1>1, <1>2, <1>4 DEF FileInv, EditsNumbered
<1>7. ContainerSaw'
  BY <1>1, <1>2, <1>3, <1>4 DEF FileInv, FileTypes, Texts, FileAnswers, FileRuns, EditsNumbered,
    ContainerSaw
<1>8. ContainerAdds'
  BY <1>1, <1>2, <1>3, <1>4 DEF FileInv, FileTypes, Texts, FileAnswers, ContainerAdds
<1>9. Brought'
  BY <1>1, <1>2, <1>3, <1>4 DEF FileInv, FileTypes, Texts, FileAnswers, Brought
<1>10. RoomSaved'
  BY <1>2, <1>4 DEF FileInv, RoomSaved
<1>11. TabSent'
  BY <1>2, <1>4 DEF FileInv, TabSent
<1> QED BY <1>5, <1>6, <1>7, <1>8, <1>9, <1>10, <1>11 DEF FileInv

LEMMA FileReadTerminalOutput ==
  ASSUME FileInv, Files!ReadTerminalOutput
  PROVE  FileInv'
<1>1. PICK b \in FileAnswers :
        /\ b.todo = Files!Changes /\ b.text = fDisk /\ b.previous = fKnown
        /\ fAnswers' = fAnswers \cup {b} /\ fKnown' = fDisk
  <2>1. [poll |-> fCount.polls + 1, todo |-> Files!Changes, text |-> fDisk, previous |-> fKnown]
          \in FileAnswers
    BY DEF FileInv, FileTypes, Texts, FileCounts, FileAnswers, Files!Changes
  <2> QED BY <2>1 DEF Files!ReadTerminalOutput, Files!Poll
<1>2. UNCHANGED <<fShared, fStored, fDisk, fTyped, fSeen, fRefused, fClicked>> /\ fRun' = fRun
  BY DEF Files!ReadTerminalOutput
<1>3. fCount' \in FileCounts /\ fCount'.edits = fCount.edits
  BY DEF FileInv, FileTypes, FileCounts, Files!ReadTerminalOutput, Files!Poll
<1>4. FileTypes'
  BY <1>1, <1>2, <1>3 DEF FileInv, FileTypes
<1>5. EditsNumbered'
  BY <1>1, <1>2, <1>3 DEF FileInv, FileTypes, Texts, FileAnswers, FileRuns, EditsNumbered,
    Files!Changes
<1>6. ContainerSaw'
  BY <1>1, <1>2, <1>3 DEF FileInv, FileTypes, Texts, FileAnswers, FileRuns, EditsNumbered,
    ContainerSaw, Files!Changes
<1>7. ContainerAdds'
  BY <1>1, <1>2, <1>3 DEF FileInv, FileTypes, Texts, FileAnswers, ContainerAdds, Files!Changes
<1>8. Brought'
  BY <1>1, <1>2, <1>3 DEF FileInv, FileTypes, Texts, FileAnswers, Brought, Files!Changes
<1>9. RoomSaved'
  BY <1>1, <1>2, <1>3 DEF FileInv, FileTypes, Texts, FileRuns, RoomSaved, Files!Changes
<1>10. TabSent'
  BY <1>1, <1>2, <1>3 DEF FileInv, FileTypes, Texts, FileRuns, RoomSaved, TabSent, Files!Changes
<1> QED BY <1>4, <1>5, <1>6, <1>7, <1>8, <1>9, <1>10 DEF FileInv

LEMMA FileAskForRun ==
  ASSUME FileInv, Files!AskForRun
  PROVE  FileInv'
<1>1. fCount' \in FileCounts /\ fCount'.edits = fCount.edits
  <2>1. fCount.runs + 1 \in Nat
    BY DEF FileInv, FileTypes, FileCounts
  <2> QED BY <2>1 DEF FileInv, FileTypes, FileCounts, Files!AskForRun
<1>2. /\ fClicked' = fShared
      /\ UNCHANGED <<fShared, fStored, fDisk, fKnown, fAnswers, fTyped, fSeen, fRefused>>
  BY DEF Files!AskForRun
<1>3. fRun' \in FileRuns /\ fRun'.at = "flush terminal" /\ fRun'.entries = fRun.entries
  BY DEF FileInv, FileTypes, FileRuns, Files!AskForRun
<1>4. FileTypes'
  BY <1>1, <1>2, <1>3 DEF FileInv, FileTypes, Texts, FileAnswers, FileRuns
<1>5. EditsNumbered'
  BY <1>1, <1>2, <1>3 DEF FileInv, FileTypes, Texts, FileAnswers, FileRuns, EditsNumbered
<1>6. ContainerSaw'
  BY <1>1, <1>2, <1>3 DEF FileInv, FileTypes, Texts, FileAnswers, FileRuns, EditsNumbered, ContainerSaw
<1>7. ContainerAdds'
  BY <1>1, <1>2, <1>3 DEF FileInv, FileTypes, Texts, FileAnswers, ContainerAdds
<1>8. Brought'
  BY <1>1, <1>2, <1>3 DEF FileInv, FileTypes, Texts, FileAnswers, Brought
<1>9. RoomSaved'
  BY <1>1, <1>2, <1>3 DEF FileInv, FileTypes, Texts, FileRuns, RoomSaved
<1>10. TabSent'
  BY <1>1, <1>2, <1>3 DEF FileInv, FileTypes, Texts, FileRuns, RoomSaved, TabSent
<1> QED BY <1>4, <1>5, <1>6, <1>7, <1>8, <1>9, <1>10 DEF FileInv

LEMMA FileFlushTerminal ==
  ASSUME FileInv, Files!FlushTerminal
  PROVE  FileInv'
<1>1. UNCHANGED <<fShared, fStored, fDisk, fTyped, fSeen, fRefused, fClicked>>
  BY DEF Files!FlushTerminal
<1>2. fRun.at = "flush terminal"
  BY DEF Files!FlushTerminal
<1>3. fRun' \in FileRuns /\ fRun'.at = "flush room" /\ fRun'.entries = fRun.entries
  <2>1. fCount.polls + 1 \in Nat
    BY DEF FileInv, FileTypes, FileCounts
  <2> QED BY <2>1 DEF FileInv, FileTypes, FileRuns, Files!FlushTerminal
<1>4. fCount' \in FileCounts /\ fCount'.edits = fCount.edits
  <2>1. fCount.polls + 1 \in Nat
    BY DEF FileInv, FileTypes, FileCounts
  <2> QED BY <2>1 DEF FileInv, FileTypes, FileCounts, Files!FlushTerminal, Files!Poll
<1>5. \/ fAnswers' = fAnswers /\ fKnown' = fKnown /\ fDisk = fKnown
      \/ \E b \in FileAnswers :
           /\ b.todo = Files!Changes /\ b.text = fDisk /\ b.previous = fKnown
           /\ fAnswers' = fAnswers \cup {b} /\ fKnown' = fDisk
  <2>1. [poll |-> fCount.polls + 1, todo |-> Files!Changes, text |-> fDisk, previous |-> fKnown]
          \in FileAnswers
    BY DEF FileInv, FileTypes, Texts, FileCounts, FileAnswers, Files!Changes
  <2>2. CASE Files!Changes = {}
    <3>1. \A g \in FilesFile : fDisk[g] = fKnown[g]
      BY <2>2 DEF Files!Changes
    <3>2. fDisk = fKnown
      BY <3>1 DEF FileInv, FileTypes, Texts
    <3> QED BY <2>2, <3>2 DEF Files!FlushTerminal
  <2>3. CASE Files!Changes # {}
    BY <2>1, <2>3 DEF Files!FlushTerminal, Files!Poll
  <2> QED BY <2>2, <2>3
<1>6. FileTypes'
  BY <1>1, <1>3, <1>4, <1>5 DEF FileInv, FileTypes
<1>7. EditsNumbered'
  BY <1>1, <1>2, <1>3, <1>4, <1>5 DEF FileInv, FileTypes, Texts, FileAnswers, FileRuns, EditsNumbered,
    Files!Changes
<1>8. ContainerSaw'
  BY <1>1, <1>2, <1>3, <1>4, <1>5 DEF FileInv, FileTypes, Texts, FileAnswers, FileRuns, EditsNumbered,
    ContainerSaw, Files!Changes
<1>9. ContainerAdds'
  <2>1. CASE fAnswers' = fAnswers /\ fKnown' = fKnown
    BY <1>1, <2>1 DEF FileInv, ContainerAdds
  <2>2. CASE ~(fAnswers' = fAnswers /\ fKnown' = fKnown)
    <3>1. PICK d \in FileAnswers :
            /\ d.todo = Files!Changes /\ d.text = fDisk /\ d.previous = fKnown
            /\ fAnswers' = fAnswers \cup {d} /\ fKnown' = fDisk
      BY <1>5, <2>2
    <3>2. \A f \in d.todo \ fRefused : d.previous[f] \subseteq d.text[f] /\ d.previous[f] # d.text[f]
      BY <3>1 DEF FileInv, ContainerAdds, Files!Changes
    <3> QED BY <1>1, <3>1, <3>2 DEF FileInv, ContainerAdds
  <2> QED BY <2>1, <2>2
<1>10. Brought'
  BY <1>1, <1>2, <1>3, <1>4, <1>5 DEF FileInv, FileTypes, Texts, FileAnswers, Brought, Files!Changes
<1>11. RoomSaved'
  BY <1>1, <1>2, <1>3, <1>4, <1>5 DEF FileInv, FileTypes, Texts, FileRuns, RoomSaved, Files!Changes
<1>12. TabSent'
  BY <1>1, <1>2, <1>3, <1>4, <1>5 DEF FileInv, FileTypes, Texts, FileRuns, RoomSaved, TabSent,
    Files!Changes
<1> QED BY <1>6, <1>7, <1>8, <1>9, <1>10, <1>11, <1>12 DEF FileInv

LEMMA FileFlushRoom ==
  ASSUME FileInv, Files!FlushRoom
  PROVE  FileInv'
<1>1. FileTypes'
  BY DEF FileInv, FileTypes, Texts, FileAnswers, FileRuns, Files!FlushRoom
<1>2. EditsNumbered'
  BY DEF FileInv, FileTypes, Texts, FileAnswers, FileRuns, EditsNumbered, Files!FlushRoom
<1>3. ContainerSaw'
  BY DEF FileInv, FileTypes, Texts, FileAnswers, FileRuns, EditsNumbered, ContainerSaw, Files!FlushRoom
<1>4. ContainerAdds'
  BY DEF FileInv, FileTypes, Texts, FileAnswers, ContainerAdds, Files!FlushRoom
<1>5. Brought'
  BY DEF FileInv, FileTypes, Texts, FileAnswers, Brought, Files!FlushRoom
<1>6. RoomSaved'
  BY DEF FileInv, FileTypes, Texts, FileRuns, RoomSaved, Files!FlushRoom
<1>7. TabSent'
  BY DEF FileInv, FileTypes, Texts, FileRuns, RoomSaved, TabSent, Files!FlushRoom
<1> QED BY <1>1, <1>2, <1>3, <1>4, <1>5, <1>6, <1>7 DEF FileInv

LEMMA FileMaterialize ==
  ASSUME FileInv, Files!Materialize
  PROVE  FileInv'
<1>1. FileTypes'
  BY DEF FileInv, FileTypes, Texts, FileAnswers, FileRuns, Files!Materialize
<1>2. EditsNumbered'
  BY DEF FileInv, FileTypes, Texts, FileAnswers, FileRuns, EditsNumbered, Files!Materialize
<1>3. ContainerSaw'
  BY DEF FileInv, FileTypes, Texts, FileAnswers, FileRuns, EditsNumbered, ContainerSaw,
    Files!Materialize
<1>4. ContainerAdds'
  BY DEF FileInv, FileTypes, Texts, FileAnswers, ContainerAdds, Files!Materialize
<1>5. Brought'
  BY DEF FileInv, FileTypes, Texts, FileAnswers, Brought, Files!Materialize
<1>6. RoomSaved'
  BY DEF FileInv, FileTypes, Texts, FileRuns, RoomSaved, Files!Materialize
<1>7. TabSent'
  BY DEF FileInv, FileTypes, Texts, FileRuns, RoomSaved, TabSent, Files!Materialize
<1> QED BY <1>1, <1>2, <1>3, <1>4, <1>5, <1>6, <1>7 DEF FileInv

LEMMA FileSyncWorkspace ==
  ASSUME FileInv, Files!SyncWorkspace
  PROVE  FileInv'
<1>1. /\ fRun.at = "sync" /\ fKnown' = fRun.entries
      /\ UNCHANGED <<fShared, fStored, fAnswers, fCount, fTyped, fRefused, fClicked>>
  BY DEF Files!SyncWorkspace
<1>2. fRun' \in FileRuns /\ fRun'.at = "runs" /\ fRun'.entries = fRun.entries
  BY DEF FileInv, FileTypes, FileRuns, Files!SyncWorkspace
<1>3. fRun.entries \in Texts
  BY DEF FileInv, FileTypes, FileRuns
<1>4. /\ fDisk' \in Texts
      /\ \A g \in FilesFile :
           fDisk'[g] = IF fRun.entries[g] # {} \/ fKnown[g] # {} THEN fRun.entries[g] ELSE fDisk[g]
  BY <1>3 DEF FileInv, FileTypes, Texts, Files!SyncWorkspace, Files!Absent
<1>5. /\ fSeen \subseteq fSeen' /\ fSeen' \subseteq Nat
      /\ \A g \in FilesFile : \A e \in fRun.entries[g] : e \in fTyped => e \in fSeen'
  BY <1>3 DEF FileInv, FileTypes, Texts, Files!SyncWorkspace, Files!All
<1>6. FileTypes'
  BY <1>1, <1>2, <1>3, <1>4, <1>5 DEF FileInv, FileTypes
<1>7. EditsNumbered'
  BY <1>1, <1>2, <1>3, <1>4, <1>5 DEF FileInv, FileTypes, Texts, FileAnswers, FileRuns, EditsNumbered
<1>8. ContainerSaw'
  BY <1>1, <1>2, <1>3, <1>4, <1>5 DEF FileInv, FileTypes, Texts, FileAnswers, FileRuns, EditsNumbered,
    ContainerSaw
<1>9. ContainerAdds'
  BY <1>1, <1>2, <1>3, <1>4, <1>5 DEF FileInv, FileTypes, Texts, FileAnswers, ContainerAdds
<1>10. Brought'
  BY <1>1, <1>3 DEF FileInv, RoomSaved, Brought
<1>11. RoomSaved'
  BY <1>1, <1>2, <1>3, <1>4, <1>5 DEF FileInv, FileTypes, Texts, FileRuns, RoomSaved
<1>12. TabSent'
  BY <1>1, <1>2, <1>3, <1>4, <1>5 DEF FileInv, FileTypes, Texts, FileRuns, RoomSaved, TabSent
<1> QED BY <1>6, <1>7, <1>8, <1>9, <1>10, <1>11, <1>12 DEF FileInv

LEMMA FileStarted ==
  ASSUME FileInv, Files!Started
  PROVE  FileInv'
<1>1. FileTypes'
  BY DEF FileInv, FileTypes, Texts, FileAnswers, FileRuns, Files!Started, Files!NoRun, Files!Absent
<1>2. EditsNumbered'
  BY DEF FileInv, FileTypes, Texts, FileAnswers, FileRuns, EditsNumbered, Files!Started, Files!NoRun,
    Files!Absent
<1>3. ContainerSaw'
  BY DEF FileInv, FileTypes, Texts, FileAnswers, FileRuns, EditsNumbered, ContainerSaw, Files!Started,
    Files!NoRun, Files!Absent
<1>4. ContainerAdds'
  BY DEF FileInv, FileTypes, Texts, FileAnswers, ContainerAdds, Files!Started, Files!NoRun,
    Files!Absent
<1>5. Brought'
  BY DEF FileInv, FileTypes, Texts, FileAnswers, Brought, Files!Started, Files!NoRun, Files!Absent
<1>6. RoomSaved'
  BY DEF FileInv, FileTypes, Texts, FileRuns, RoomSaved, Files!Started, Files!NoRun, Files!Absent
<1>7. TabSent'
  BY DEF FileInv, FileTypes, Texts, FileRuns, RoomSaved, TabSent, Files!Started, Files!NoRun,
    Files!Absent
<1> QED BY <1>1, <1>2, <1>3, <1>4, <1>5, <1>6, <1>7 DEF FileInv

LEMMA FileInit == Files!Init => FileInv
<1> SUFFICES ASSUME Files!Init PROVE FileInv
  OBVIOUS
<1>1. /\ fShared \in [FilesFile -> {{}, {0}}] /\ fStored = fShared /\ fDisk = fShared /\ fKnown = fShared
      /\ fAnswers = {} /\ fTyped = {} /\ fSeen = {} /\ fRefused = {} /\ fClicked = fShared
      /\ fCount = [edits |-> 0, changes |-> 0, runs |-> 0, lost |-> 0, polls |-> 0]
      /\ fRun = [at |-> "idle", poll |-> 0, entries |-> [f \in FilesFile |-> {}]]
  BY DEF Files!Init, Files!Absent, Files!NoRun
<1>2. fShared \in Texts /\ \A f \in FilesFile : fShared[f] \subseteq {0}
  BY <1>1 DEF Texts
<1>3. fRun \in FileRuns /\ fRun.at = "idle" /\ \A f \in FilesFile : fRun.entries[f] = {}
  BY <1>1 DEF FileRuns, Texts
<1>4. fCount \in FileCounts /\ fCount.edits = 0
  BY <1>1 DEF FileCounts
<1>5. FileTypes
  BY <1>1, <1>2, <1>3, <1>4 DEF FileTypes
<1>6. EditsNumbered /\ ContainerSaw
  BY <1>1, <1>2, <1>3, <1>4 DEF EditsNumbered, ContainerSaw
<1>7. ContainerAdds /\ Brought /\ RoomSaved /\ TabSent
  BY <1>1, <1>2, <1>3 DEF ContainerAdds, Brought, RoomSaved, TabSent
<1> QED BY <1>5, <1>6, <1>7 DEF FileInv

LEMMA FileStep == FileInv /\ [Files!Next]_Files!vars => FileInv'
<1> SUFFICES ASSUME FileInv, [Files!Next]_Files!vars PROVE FileInv'
  OBVIOUS
<1>1. CASE UNCHANGED Files!vars
  BY <1>1 DEF Files!vars, FileInv, FileTypes, EditsNumbered, ContainerSaw, ContainerAdds, Brought,
    RoomSaved,
    TabSent
<1>2. CASE Files!Next
  BY <1>2, FileType, FileSaveSnapshot, FileChangeTree, FileProgramEdits, FileProgramChanges, FileApplyEntry,
    FileLoseAnswer, FileReadTerminalOutput, FileAskForRun, FileFlushTerminal, FileFlushRoom,
    FileMaterialize,
    FileSyncWorkspace, FileStarted DEF Files!Next
<1> QED BY <1>1, <1>2

LEMMA FileAlways == Files!Spec => []FileInv
BY FileInit, FileStep, PTL DEF Files!Spec

LEMMA FilesExchanged == ASSUME FileInv PROVE RunsExchangeEdits
<1>1. ASSUME fRun.at = "runs", NEW f \in FilesFile \ fRefused
      PROVE  (fClicked[f] \cap fTyped) \ fSeen \subseteq fRun.entries[f]
  BY <1>1 DEF FileInv, TabSent
<1>2. ASSUME NEW f \in FilesFile, f \notin fRefused, fDisk[f] = fKnown[f],
             \A a \in fAnswers : f \notin a.todo
      PROVE  fDisk[f] \ {0} \subseteq fShared[f]
  BY <1>2 DEF FileInv, Brought
<1> QED BY <1>1, <1>2 DEF RunsExchangeEdits, Files!RunsExchangeEdits, Files!RunSeesTab,
  Files!TerminalEditsArrive

\* When a program starts, its container has every edit the tab showed when the run
\* was asked for, and an edit a program made arrives in the room, for any files,
\* edits, polls and runs, though a poll forgets a change before the tab applied it.
THEOREM RunsAndRoomExchangeEdits == Files!Spec => []RunsExchangeEdits
BY FileAlways, FilesExchanged, PTL

LEMMA EntryResult ==
  ASSUME FileInv, NEW f \in FilesFile, NEW a \in fAnswers, Files!ApplyEntry(a, f)
  PROVE  /\ fTyped' = fTyped /\ fSeen' = fSeen
         /\ \A g \in FilesFile : \/ fShared'[g] = fShared[g]
                                 \/ g = f /\ fShared'[f] = a.text[f]
                                    /\ fShared[f] \in {a.text[f], a.previous[f], {}}
<1>1. PICK r :
        /\ r = (IF a.text[f] = {} THEN Files!DeleteFile(f, a.previous[f])
                ELSE IF fShared[f] # {} THEN Files!UpdateFile(f, a.text[f], a.previous[f])
                ELSE Files!CreateFile(f, a.text[f], a.previous[f]))
        /\ IF r = Files!Conflict THEN fShared' = fShared ELSE fShared' = [fShared EXCEPT ![f] = r]
  BY DEF Files!ApplyEntry, Files!Absent
<1>2. r # Files!Conflict => r = a.text[f] /\ fShared[f] \in {a.text[f], a.previous[f], {}}
  BY <1>1 DEF Files!DeleteFile, Files!UpdateFile, Files!CreateFile, Files!Absent
<1>3. fTyped' = fTyped /\ fSeen' = fSeen
  BY DEF Files!ApplyEntry
<1>4. fShared \in Texts
  BY DEF FileInv, FileTypes
<1> QED BY <1>1, <1>2, <1>3, <1>4 DEF Texts

\* The room's text of a file loses an edit only when the tree changes, or when the
\* container that wrote the file had seen the edit: for any files, polls and edits.
THEOREM TerminalsSpareUnseenEdits == Files!Spec => UnseenEditsSurvive
<1>1. ASSUME FileInv, [Files!Next]_Files!vars
      PROVE  [\A f \in FilesFile : ~Files!ChangeTree(f) =>
                (fShared[f] \cap fTyped) \ fSeen \subseteq fShared'[f]]_Files!vars
  <2>1. CASE UNCHANGED Files!vars
    BY <2>1
  <2>2. ASSUME Files!Next, NEW f \in FilesFile, ~Files!ChangeTree(f)
        PROVE  (fShared[f] \cap fTyped) \ fSeen \subseteq fShared'[f]
    <3> USE <1>1
    <3>1. fShared \in Texts
      BY DEF FileInv, FileTypes
    <3>2. ASSUME NEW g \in FilesFile, Files!Type(g) \/ Files!ChangeTree(g)
          PROVE  fShared[f] \subseteq fShared'[f]
      BY <2>2, <3>1, <3>2 DEF Texts, Files!Type, Files!ChangeTree
    <3>3. ASSUME NEW g \in FilesFile, NEW a \in fAnswers, Files!ApplyEntry(a, g)
          PROVE  (fShared[f] \cap fTyped) \ fSeen \subseteq fShared'[f]
      <4>1. CASE fShared'[f] = fShared[f]
        BY <4>1
      <4>2. CASE fShared'[f] = a.text[f] /\ fShared[f] \in {a.text[f], a.previous[f], {}}
        BY <4>2 DEF FileInv, ContainerSaw
      <4> QED BY <3>3, <4>1, <4>2, EntryResult
    <3>4. ASSUME ~\E g \in FilesFile :
                    Files!Type(g) \/ Files!ChangeTree(g) \/ \E a \in fAnswers : Files!ApplyEntry(a, g)
          PROVE  fShared' = fShared
      <4>1. ASSUME NEW g \in FilesFile,
                   Files!SaveSnapshot(g) \/ Files!ProgramEdits(g) \/ Files!ProgramChanges(g)
            PROVE  fShared' = fShared
        BY <4>1 DEF Files!SaveSnapshot, Files!ProgramEdits, Files!ProgramChanges
      <4>2. ASSUME NEW a \in fAnswers, Files!LoseAnswer(a)
            PROVE  fShared' = fShared
        BY <4>2 DEF Files!LoseAnswer
      <4>3. ASSUME Files!ReadTerminalOutput \/ Files!AskForRun \/ Files!FlushTerminal \/ Files!FlushRoom
                   \/ Files!Materialize \/ Files!SyncWorkspace \/ Files!Started
            PROVE  fShared' = fShared
        BY <4>3 DEF Files!ReadTerminalOutput, Files!AskForRun, Files!FlushTerminal, Files!FlushRoom,
          Files!Materialize, Files!SyncWorkspace, Files!Started
      <4> QED BY <2>2, <3>4, <4>1, <4>2, <4>3 DEF Files!Next
    <3> QED BY <3>2, <3>3, <3>4
  <2> QED BY <1>1, <2>1, <2>2
<1> QED BY <1>1, FileAlways, PTL DEF Files!Spec, UnseenEditsSurvive, Files!UnseenEditsSurvive

=============================================================================
