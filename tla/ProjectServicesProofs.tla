----------------------- MODULE ProjectServicesProofs ------------------------
(* Proofs about the services that hold a room's project, each for any values of *)
(* its constants. A part is proved with an inductive invariant of its own; the   *)
(* theorems name the properties as ProjectServices does.                         *)
EXTENDS ProjectServices, Naturals, Sequences, FiniteSetTheorems, SequenceTheorems, TLAPS

-----------------------------------------------------------------------------
(* GithubSession: one request refreshes at a time, and what it holds is what     *)
(* GitHub takes until a call fails or the member signs out.                      *)

Stage == {"idle", "refresh", "locked", "waiting", "asking", "refused", "rotated", "leaving"}
Reply == {"none", "expired", "session", "busy", "failed"}
Entry == [gen : Nat, due : BOOLEAN]
Calls == [SessionRequest -> [at : Stage, entry : Entry, answer : Reply]]

SessionTypes ==
  /\ sValid \in Nat /\ sVault \in Entry /\ sCall \in Calls
  /\ sSignOut \in [at : {"idle", "read", "gone", "deleted", "revoked", "failed"}, gen : Nat]
  /\ sFaults \in Nat

\* Nobody signs out or uses a session before it is stored.
SignedIn ==
  /\ sLogin # "done" => sSignOut.at = "idle" /\ \A r \in SessionRequest : sCall[r] = Session!Idle
  /\ sLogin = "granted" => sValid = 1

AsksWithToken == \A r \in SessionRequest : sCall[r].at = "asking" => sCall[r].entry.gen # 0

\* One request refreshes at a time: the one that holds the lock.
RefreshesAlone ==
  \A r \in SessionRequest : sCall[r].at \in {"locked", "asking", "refused", "rotated"} => sLock = r

Undisturbed == sFaults = 0 /\ sSignOut.at = "idle" /\ sLogin = "done"

\* What a request that refreshes holds is what GitHub takes.
RefreshesInTurn ==
  Undisturbed =>
    \A r \in SessionRequest :
      /\ sCall[r].at # "refused"
      /\ sCall[r].at = "asking" => sCall[r].entry.gen = sValid
      /\ sCall[r].at = "rotated" => sCall[r].entry.gen = sValid /\ sValid # 0

SessionInv ==
  /\ SessionTypes /\ SignedIn /\ AsksWithToken /\ RefreshesAlone /\ RefreshesInTurn
  /\ Session!SignOutRevokes /\ Session!SessionSurvives

\* The effect of a step on the calls: r is there, and the others are where they were.
Only(r, at, entry, answer) ==
  /\ sCall' \in Calls
  /\ sCall'[r].at = at /\ sCall'[r].entry = entry /\ sCall'[r].answer = answer
  /\ \A s \in SessionRequest : s # r => sCall'[s] = sCall[s]

LEMMA Moves ==
  ASSUME SessionTypes, NEW r \in SessionRequest, NEW at \in Stage, NEW entry \in Entry, Session!At(r, at,
         entry)
  PROVE  Only(r, at, entry, sCall[r].answer)
<1> DEFINE old == sCall[r]
           new == [old EXCEPT !.at = at, !.entry = entry]
<1>1. old \in [at : Stage, entry : Entry, answer : Reply]
  BY DEF SessionTypes, Calls
<1>2. /\ new \in [at : Stage, entry : Entry, answer : Reply]
      /\ new.at = at /\ new.entry = entry /\ new.answer = old.answer
  BY <1>1
<1>3. sCall' = [sCall EXCEPT ![r] = new]
  BY <1>1 DEF Session!At, SessionTypes, Calls
<1> QED BY <1>2, <1>3 DEF SessionTypes, Calls, Only

LEMMA Answers ==
  ASSUME SessionTypes, NEW r \in SessionRequest, NEW answer \in Reply, Session!Answer(r, answer)
  PROVE  Only(r, "leaving", Session!NoEntry, answer)
BY DEF SessionTypes, Calls, Session!Answer, Entry, Session!NoEntry, Stage, Only

LEMMA SessionInit == Session!Init => SessionInv
BY DEF SessionInv, SessionTypes, SignedIn, AsksWithToken, RefreshesAlone, RefreshesInTurn, Calls,
  Undisturbed, Stage, Reply, Entry, Session!NoEntry, Session!Idle,
  Session!Init, Session!SignOutRevokes, Session!SessionSurvives

LEMMA SessionStep ==
  ASSUME Session!SessionAssumption, SessionInv, [Session!Next]_(Session!vars)
  PROVE  SessionInv'
<1> USE DEF Session!NoEntry, Session!Fresh, Session!MayFail, Session!SessionAssumption, Undisturbed, Only
<1>0. /\ SessionTypes /\ SignedIn /\ AsksWithToken /\ RefreshesAlone /\ RefreshesInTurn
      /\ Session!SignOutRevokes /\ Session!SessionSurvives
  BY DEF SessionInv
<1>1. CASE Session!Exchange
  BY <1>1 DEF Session!Exchange, Session!Idle, Calls, Entry, SessionInv, SessionTypes, SignedIn,
    AsksWithToken, RefreshesAlone, RefreshesInTurn, Session!SignOutRevokes, Session!SessionSurvives
<1>2. CASE Session!StoreSession
  BY <1>2 DEF Session!StoreSession, Session!Idle, Calls, Entry, SessionInv, SessionTypes, SignedIn,
    AsksWithToken, RefreshesAlone, RefreshesInTurn, Session!SignOutRevokes, Session!SessionSurvives
<1>3. CASE Session!TryRevokeGrant
  BY <1>3 DEF Session!TryRevokeGrant, Session!Idle, Calls, Entry, SessionInv, SessionTypes, SignedIn,
    AsksWithToken, RefreshesAlone, RefreshesInTurn, Session!SignOutRevokes, Session!SessionSurvives
<1>4. CASE Session!BecomeDue
  BY <1>4 DEF Session!BecomeDue, Session!Idle, Calls, Entry, SessionInv, SessionTypes, SignedIn,
    AsksWithToken, RefreshesAlone, RefreshesInTurn, Session!SignOutRevokes, Session!SessionSurvives
<1>5. CASE Session!RevokeSession
  BY <1>5 DEF Session!RevokeSession, Session!Idle, Calls, Entry, SessionInv, SessionTypes, SignedIn,
    AsksWithToken, RefreshesAlone, RefreshesInTurn, Session!SignOutRevokes, Session!SessionSurvives
<1>6. CASE Session!DeleteEntry
  BY <1>6 DEF Session!DeleteEntry, Session!Idle, Calls, Entry, SessionInv, SessionTypes, SignedIn,
    AsksWithToken, RefreshesAlone, RefreshesInTurn, Session!SignOutRevokes, Session!SessionSurvives
<1>7. CASE Session!RevokeGrant
  BY <1>7 DEF Session!RevokeGrant, Session!Idle, Calls, Entry, SessionInv, SessionTypes, SignedIn,
    AsksWithToken, RefreshesAlone, RefreshesInTurn, Session!SignOutRevokes, Session!SessionSurvives
<1>8. ASSUME NEW r \in SessionRequest, Session!GetSession(r) PROVE SessionInv'
  <2>1. CASE sVault.gen = 0
    <3>1. Only(r, "leaving", Session!NoEntry, "expired")
      BY <1>8, <2>1, <1>0, Answers DEF Session!GetSession, Stage, Reply, Entry, SessionTypes, Calls
    <3>2. UNCHANGED <<sValid, sVault, sLock, sLogin, sSignOut, sFaults>> /\ sLogin = "done"
              /\ sCall[r].at = "idle"
      BY <1>8, <2>1, <1>0 DEF Session!GetSession
    <3>3. SessionTypes'
      BY <2>1, <3>1, <3>2, <1>0 DEF SessionTypes, Calls
    <3>4. SignedIn'
      BY <2>1, <3>1, <3>2, <1>0 DEF SessionTypes, SignedIn, Session!Idle
    <3>5. AsksWithToken'
      BY <2>1, <3>1, <3>2, <1>0 DEF SessionTypes, AsksWithToken
    <3>6. RefreshesAlone'
      BY <2>1, <3>1, <3>2, <1>0 DEF RefreshesAlone
    <3>7. RefreshesInTurn'
      BY <2>1, <3>1, <3>2, <1>0 DEF SessionTypes, Entry, SignedIn, RefreshesAlone, RefreshesInTurn,
        Session!SessionSurvives
    <3>8. Session!SignOutRevokes'
      BY <2>1, <3>1, <3>2, <1>0 DEF SessionTypes, Entry, SignedIn, AsksWithToken, Session!SignOutRevokes
    <3>9. Session!SessionSurvives'
      BY <2>1, <3>1, <3>2, <1>0 DEF SessionTypes, Entry, SignedIn, RefreshesAlone, RefreshesInTurn,
        Session!SessionSurvives
    <3> QED BY <3>3, <3>4, <3>5, <3>6, <3>7, <3>8, <3>9 DEF SessionInv
  <2>2. CASE sVault.gen # 0 /\ Session!Fresh(sVault)
    <3>1. Only(r, "leaving", Session!NoEntry, "session")
      BY <1>8, <2>2, <1>0, Answers DEF Session!GetSession, Stage, Reply, Entry, SessionTypes, Calls
    <3>2. UNCHANGED <<sValid, sVault, sLock, sLogin, sSignOut, sFaults>> /\ sLogin = "done"
              /\ sCall[r].at = "idle"
      BY <1>8, <2>2, <1>0 DEF Session!GetSession
    <3>3. SessionTypes'
      BY <2>2, <3>1, <3>2, <1>0 DEF SessionTypes, Calls
    <3>4. SignedIn'
      BY <2>2, <3>1, <3>2, <1>0 DEF SessionTypes, SignedIn, Session!Idle
    <3>5. AsksWithToken'
      BY <2>2, <3>1, <3>2, <1>0 DEF SessionTypes, AsksWithToken
    <3>6. RefreshesAlone'
      BY <2>2, <3>1, <3>2, <1>0 DEF RefreshesAlone
    <3>7. RefreshesInTurn'
      BY <2>2, <3>1, <3>2, <1>0 DEF SessionTypes, Entry, SignedIn, RefreshesAlone, RefreshesInTurn,
        Session!SessionSurvives
    <3>8. Session!SignOutRevokes'
      BY <2>2, <3>1, <3>2, <1>0 DEF SessionTypes, Entry, SignedIn, AsksWithToken, Session!SignOutRevokes
    <3>9. Session!SessionSurvives'
      BY <2>2, <3>1, <3>2, <1>0 DEF SessionTypes, Entry, SignedIn, RefreshesAlone, RefreshesInTurn,
        Session!SessionSurvives
    <3> QED BY <3>3, <3>4, <3>5, <3>6, <3>7, <3>8, <3>9 DEF SessionInv
  <2>3. CASE sVault.gen # 0 /\ ~Session!Fresh(sVault)
    <3>1. Only(r, "refresh", sVault, sCall[r].answer)
      BY <1>8, <2>3, <1>0, Moves DEF Session!GetSession, Stage, Reply, Entry, SessionTypes, Calls
    <3>2. UNCHANGED <<sValid, sVault, sLock, sLogin, sSignOut, sFaults>> /\ sLogin = "done"
              /\ sCall[r].at = "idle"
      BY <1>8, <2>3, <1>0 DEF Session!GetSession
    <3>3. SessionTypes'
      BY <2>3, <3>1, <3>2, <1>0 DEF SessionTypes, Calls
    <3>4. SignedIn'
      BY <2>3, <3>1, <3>2, <1>0 DEF SessionTypes, SignedIn, Session!Idle
    <3>5. AsksWithToken'
      BY <2>3, <3>1, <3>2, <1>0 DEF SessionTypes, AsksWithToken
    <3>6. RefreshesAlone'
      BY <2>3, <3>1, <3>2, <1>0 DEF RefreshesAlone
    <3>7. RefreshesInTurn'
      BY <2>3, <3>1, <3>2, <1>0 DEF SessionTypes, Entry, SignedIn, RefreshesAlone, RefreshesInTurn,
        Session!SessionSurvives
    <3>8. Session!SignOutRevokes'
      BY <2>3, <3>1, <3>2, <1>0 DEF SessionTypes, Entry, SignedIn, AsksWithToken, Session!SignOutRevokes
    <3>9. Session!SessionSurvives'
      BY <2>3, <3>1, <3>2, <1>0 DEF SessionTypes, Entry, SignedIn, RefreshesAlone, RefreshesInTurn,
        Session!SessionSurvives
    <3> QED BY <3>3, <3>4, <3>5, <3>6, <3>7, <3>8, <3>9 DEF SessionInv
  <2> QED BY <1>8, <2>1, <2>2, <2>3 DEF Session!GetSession
<1>9. ASSUME NEW r \in SessionRequest, Session!RefreshSession(r) PROVE SessionInv'
  <2>1. CASE sLock = "free"
    <3>1. Only(r, "locked", sCall[r].entry, sCall[r].answer)
      BY <1>9, <2>1, <1>0, Moves DEF Session!RefreshSession, Stage, Reply, Entry, SessionTypes, Calls
    <3>2. UNCHANGED <<sValid, sVault, sLogin, sSignOut, sFaults>> /\ sLock' = r /\ sCall[r].at = "refresh"
      BY <1>9, <2>1, <1>0 DEF Session!RefreshSession
    <3>3. SessionTypes'
      BY <2>1, <3>1, <3>2, <1>0 DEF SessionTypes, Calls
    <3>4. SignedIn'
      BY <2>1, <3>1, <3>2, <1>0 DEF SessionTypes, SignedIn, Session!Idle
    <3>5. AsksWithToken'
      BY <2>1, <3>1, <3>2, <1>0 DEF SessionTypes, AsksWithToken
    <3>6. RefreshesAlone'
      BY <2>1, <3>1, <3>2, <1>0 DEF RefreshesAlone
    <3>7. RefreshesInTurn'
      BY <2>1, <3>1, <3>2, <1>0 DEF SessionTypes, Entry, SignedIn, RefreshesAlone, RefreshesInTurn,
        Session!SessionSurvives
    <3>8. Session!SignOutRevokes'
      BY <2>1, <3>1, <3>2, <1>0 DEF SessionTypes, Entry, SignedIn, AsksWithToken, Session!SignOutRevokes
    <3>9. Session!SessionSurvives'
      BY <2>1, <3>1, <3>2, <1>0 DEF SessionTypes, Entry, SignedIn, RefreshesAlone, RefreshesInTurn,
        Session!SessionSurvives
    <3> QED BY <3>3, <3>4, <3>5, <3>6, <3>7, <3>8, <3>9 DEF SessionInv
  <2>2. CASE sLock # "free"
    <3>1. Only(r, "waiting", Session!NoEntry, sCall[r].answer)
      BY <1>9, <2>2, <1>0, Moves DEF Session!RefreshSession, Stage, Reply, Entry, SessionTypes, Calls
    <3>2. UNCHANGED <<sValid, sVault, sLock, sLogin, sSignOut, sFaults>> /\ sCall[r].at = "refresh"
      BY <1>9, <2>2, <1>0 DEF Session!RefreshSession
    <3>3. SessionTypes'
      BY <2>2, <3>1, <3>2, <1>0 DEF SessionTypes, Calls
    <3>4. SignedIn'
      BY <2>2, <3>1, <3>2, <1>0 DEF SessionTypes, SignedIn, Session!Idle
    <3>5. AsksWithToken'
      BY <2>2, <3>1, <3>2, <1>0 DEF SessionTypes, AsksWithToken
    <3>6. RefreshesAlone'
      BY <2>2, <3>1, <3>2, <1>0 DEF RefreshesAlone
    <3>7. RefreshesInTurn'
      BY <2>2, <3>1, <3>2, <1>0 DEF SessionTypes, Entry, SignedIn, RefreshesAlone, RefreshesInTurn,
        Session!SessionSurvives
    <3>8. Session!SignOutRevokes'
      BY <2>2, <3>1, <3>2, <1>0 DEF SessionTypes, Entry, SignedIn, AsksWithToken, Session!SignOutRevokes
    <3>9. Session!SessionSurvives'
      BY <2>2, <3>1, <3>2, <1>0 DEF SessionTypes, Entry, SignedIn, RefreshesAlone, RefreshesInTurn,
        Session!SessionSurvives
    <3> QED BY <3>3, <3>4, <3>5, <3>6, <3>7, <3>8, <3>9 DEF SessionInv
  <2> QED BY <1>9, <2>1, <2>2 DEF Session!RefreshSession
<1>10. ASSUME NEW r \in SessionRequest, Session!Poll(r) PROVE SessionInv'
  <2>1. Only(r, "leaving", Session!NoEntry,
            IF sVault.gen = 0 THEN "expired" ELSE IF Session!Fresh(sVault) THEN "session" ELSE "busy")
    BY <1>10, <1>0, Answers DEF Session!Poll, Stage, Reply, Entry, SessionTypes, Calls
  <2>2. UNCHANGED <<sValid, sVault, sLock, sLogin, sSignOut, sFaults>> /\ sCall[r].at = "waiting"
    BY <1>10 DEF Session!Poll
  <2>3. SessionTypes'
    BY <2>1, <2>2, <1>0 DEF SessionTypes, Calls
  <2>4. SignedIn'
    BY <2>1, <2>2, <1>0 DEF SessionTypes, SignedIn, Session!Idle
  <2>5. AsksWithToken'
    BY <2>1, <2>2, <1>0 DEF SessionTypes, AsksWithToken
  <2>6. RefreshesAlone'
    BY <2>1, <2>2, <1>0 DEF RefreshesAlone
  <2>7. RefreshesInTurn'
    BY <2>1, <2>2, <1>0 DEF SessionTypes, Entry, SignedIn, RefreshesAlone, RefreshesInTurn,
      Session!SessionSurvives
  <2>8. Session!SignOutRevokes'
    BY <2>1, <2>2, <1>0 DEF SessionTypes, Entry, SignedIn, AsksWithToken, Session!SignOutRevokes
  <2>9. Session!SessionSurvives'
    BY <2>1, <2>2, <1>0 DEF SessionTypes, Entry, SignedIn, RefreshesAlone, RefreshesInTurn,
      Session!SessionSurvives
  <2> QED BY <2>3, <2>4, <2>5, <2>6, <2>7, <2>8, <2>9 DEF SessionInv
<1>11. ASSUME NEW r \in SessionRequest, Session!ReadLatest(r) PROVE SessionInv'
  <2>1. CASE sVault.gen = 0
    <3>1. Only(r, "leaving", Session!NoEntry, "expired")
      BY <1>11, <2>1, <1>0, Answers DEF Session!ReadLatest, Stage, Reply, Entry, SessionTypes, Calls
    <3>2. UNCHANGED <<sValid, sVault, sLock, sLogin, sSignOut, sFaults>> /\ sCall[r].at = "locked"
      BY <1>11, <2>1, <1>0 DEF Session!ReadLatest
    <3>3. SessionTypes'
      BY <2>1, <3>1, <3>2, <1>0 DEF SessionTypes, Calls
    <3>4. SignedIn'
      BY <2>1, <3>1, <3>2, <1>0 DEF SessionTypes, SignedIn, Session!Idle
    <3>5. AsksWithToken'
      BY <2>1, <3>1, <3>2, <1>0 DEF SessionTypes, AsksWithToken
    <3>6. RefreshesAlone'
      BY <2>1, <3>1, <3>2, <1>0 DEF RefreshesAlone
    <3>7. RefreshesInTurn'
      BY <2>1, <3>1, <3>2, <1>0 DEF SessionTypes, Entry, SignedIn, RefreshesAlone, RefreshesInTurn,
        Session!SessionSurvives
    <3>8. Session!SignOutRevokes'
      BY <2>1, <3>1, <3>2, <1>0 DEF SessionTypes, Entry, SignedIn, AsksWithToken, Session!SignOutRevokes
    <3>9. Session!SessionSurvives'
      BY <2>1, <3>1, <3>2, <1>0 DEF SessionTypes, Entry, SignedIn, RefreshesAlone, RefreshesInTurn,
        Session!SessionSurvives
    <3> QED BY <3>3, <3>4, <3>5, <3>6, <3>7, <3>8, <3>9 DEF SessionInv
  <2>2. CASE sVault.gen # 0 /\ Session!Fresh(sVault)
    <3>1. Only(r, "leaving", Session!NoEntry, "session")
      BY <1>11, <2>2, <1>0, Answers DEF Session!ReadLatest, Stage, Reply, Entry, SessionTypes, Calls
    <3>2. UNCHANGED <<sValid, sVault, sLock, sLogin, sSignOut, sFaults>> /\ sCall[r].at = "locked"
      BY <1>11, <2>2, <1>0 DEF Session!ReadLatest
    <3>3. SessionTypes'
      BY <2>2, <3>1, <3>2, <1>0 DEF SessionTypes, Calls
    <3>4. SignedIn'
      BY <2>2, <3>1, <3>2, <1>0 DEF SessionTypes, SignedIn, Session!Idle
    <3>5. AsksWithToken'
      BY <2>2, <3>1, <3>2, <1>0 DEF SessionTypes, AsksWithToken
    <3>6. RefreshesAlone'
      BY <2>2, <3>1, <3>2, <1>0 DEF RefreshesAlone
    <3>7. RefreshesInTurn'
      BY <2>2, <3>1, <3>2, <1>0 DEF SessionTypes, Entry, SignedIn, RefreshesAlone, RefreshesInTurn,
        Session!SessionSurvives
    <3>8. Session!SignOutRevokes'
      BY <2>2, <3>1, <3>2, <1>0 DEF SessionTypes, Entry, SignedIn, AsksWithToken, Session!SignOutRevokes
    <3>9. Session!SessionSurvives'
      BY <2>2, <3>1, <3>2, <1>0 DEF SessionTypes, Entry, SignedIn, RefreshesAlone, RefreshesInTurn,
        Session!SessionSurvives
    <3> QED BY <3>3, <3>4, <3>5, <3>6, <3>7, <3>8, <3>9 DEF SessionInv
  <2>3. CASE sVault.gen # 0 /\ ~Session!Fresh(sVault)
    <3>1. Only(r, "asking", sVault, sCall[r].answer)
      BY <1>11, <2>3, <1>0, Moves DEF Session!ReadLatest, Stage, Reply, Entry, SessionTypes, Calls
    <3>2. UNCHANGED <<sValid, sVault, sLock, sLogin, sSignOut, sFaults>> /\ sCall[r].at = "locked"
      BY <1>11, <2>3, <1>0 DEF Session!ReadLatest
    <3>3. SessionTypes'
      BY <2>3, <3>1, <3>2, <1>0 DEF SessionTypes, Calls
    <3>4. SignedIn'
      BY <2>3, <3>1, <3>2, <1>0 DEF SessionTypes, SignedIn, Session!Idle
    <3>5. AsksWithToken'
      BY <2>3, <3>1, <3>2, <1>0 DEF SessionTypes, AsksWithToken
    <3>6. RefreshesAlone'
      BY <2>3, <3>1, <3>2, <1>0 DEF RefreshesAlone
    <3>7. RefreshesInTurn'
      BY <2>3, <3>1, <3>2, <1>0 DEF SessionTypes, Entry, SignedIn, RefreshesAlone, RefreshesInTurn,
        Session!SessionSurvives
    <3>8. Session!SignOutRevokes'
      BY <2>3, <3>1, <3>2, <1>0 DEF SessionTypes, Entry, SignedIn, AsksWithToken, Session!SignOutRevokes
    <3>9. Session!SessionSurvives'
      BY <2>3, <3>1, <3>2, <1>0 DEF SessionTypes, Entry, SignedIn, RefreshesAlone, RefreshesInTurn,
        Session!SessionSurvives
    <3> QED BY <3>3, <3>4, <3>5, <3>6, <3>7, <3>8, <3>9 DEF SessionInv
  <2> QED BY <1>11, <2>1, <2>2, <2>3 DEF Session!ReadLatest
<1>12. ASSUME NEW r \in SessionRequest, Session!RequestToken(r) PROVE SessionInv'
  <2>1. PICK gen \in Nat : gen = sCall[r].entry.gen
    BY <1>0 DEF Stage, Reply, Entry, SessionTypes, Calls
  <2>2. [gen |-> gen + 1, due |-> FALSE] \in Entry
    BY <2>1 DEF Entry
  <2>3. CASE gen # sValid /\ Session!At(r, "refused", Session!NoEntry) /\ UNCHANGED <<sValid, sFaults>>
    <3>1. Only(r, "refused", Session!NoEntry, sCall[r].answer)
      BY <1>12, <2>3, <1>0, Moves, <2>1, <2>2 DEF Session!RequestToken, Stage, Reply, Entry, SessionTypes,
        Calls
    <3>2. UNCHANGED <<sVault, sLock, sLogin, sSignOut>> /\ sCall[r].at = "asking"
      BY <1>12, <2>3, <1>0, <2>1, <2>2 DEF Session!RequestToken
    <3>3. SessionTypes'
      BY <2>3, <3>1, <3>2, <1>0, <2>1, <2>2 DEF SessionTypes, Calls
    <3>4. SignedIn'
      BY <2>3, <3>1, <3>2, <1>0, <2>1, <2>2 DEF SessionTypes, SignedIn, Session!Idle
    <3>5. AsksWithToken'
      BY <2>3, <3>1, <3>2, <1>0, <2>1, <2>2 DEF SessionTypes, AsksWithToken
    <3>6. RefreshesAlone'
      BY <2>3, <3>1, <3>2, <1>0, <2>1, <2>2 DEF RefreshesAlone
    <3>7. RefreshesInTurn'
      BY <2>3, <3>1, <3>2, <1>0, <2>1, <2>2 DEF SessionTypes, Entry, SignedIn, RefreshesAlone,
        RefreshesInTurn, Session!SessionSurvives
    <3>8. Session!SignOutRevokes'
      BY <2>3, <3>1, <3>2, <1>0, <2>1, <2>2 DEF SessionTypes, Entry, SignedIn, AsksWithToken,
        Session!SignOutRevokes
    <3>9. Session!SessionSurvives'
      BY <2>3, <3>1, <3>2, <1>0, <2>1, <2>2 DEF SessionTypes, Entry, SignedIn, RefreshesAlone,
        RefreshesInTurn, Session!SessionSurvives
    <3> QED BY <3>3, <3>4, <3>5, <3>6, <3>7, <3>8, <3>9 DEF SessionInv
  <2>4. CASE gen = sValid /\ sValid' = gen + 1
                 /\ Session!At(r, "rotated", [gen |-> gen + 1, due |-> FALSE]) /\ UNCHANGED sFaults
    <3>1. Only(r, "rotated", [gen |-> gen + 1, due |-> FALSE], sCall[r].answer)
      BY <1>12, <2>4, <1>0, Moves, <2>1, <2>2 DEF Session!RequestToken, Stage, Reply, Entry, SessionTypes,
        Calls
    <3>2. UNCHANGED <<sVault, sLock, sLogin, sSignOut>> /\ sCall[r].at = "asking"
      BY <1>12, <2>4, <1>0, <2>1, <2>2 DEF Session!RequestToken
    <3>3. SessionTypes'
      BY <2>4, <3>1, <3>2, <1>0, <2>1, <2>2 DEF SessionTypes, Calls
    <3>4. SignedIn'
      BY <2>4, <3>1, <3>2, <1>0, <2>1, <2>2 DEF SessionTypes, SignedIn, Session!Idle
    <3>5. AsksWithToken'
      BY <2>4, <3>1, <3>2, <1>0, <2>1, <2>2 DEF SessionTypes, AsksWithToken
    <3>6. RefreshesAlone'
      BY <2>4, <3>1, <3>2, <1>0, <2>1, <2>2 DEF RefreshesAlone
    <3>7. RefreshesInTurn'
      BY <2>4, <3>1, <3>2, <1>0, <2>1, <2>2 DEF SessionTypes, Entry, SignedIn, RefreshesAlone,
        RefreshesInTurn, Session!SessionSurvives
    <3>8. Session!SignOutRevokes'
      BY <2>4, <3>1, <3>2, <1>0, <2>1, <2>2 DEF SessionTypes, Entry, SignedIn, AsksWithToken,
        Session!SignOutRevokes
    <3>9. Session!SessionSurvives'
      BY <2>4, <3>1, <3>2, <1>0, <2>1, <2>2 DEF SessionTypes, Entry, SignedIn, RefreshesAlone,
        RefreshesInTurn, Session!SessionSurvives
    <3> QED BY <3>3, <3>4, <3>5, <3>6, <3>7, <3>8, <3>9 DEF SessionInv
  <2>5. CASE /\ (gen = sValid /\ sValid' = gen + 1) \/ UNCHANGED sValid
             /\ Session!MayFail /\ Session!Answer(r, "failed")
    <3>1. Only(r, "leaving", Session!NoEntry, "failed")
      BY <1>12, <2>5, <1>0, Answers, <2>1, <2>2 DEF Session!RequestToken, Stage, Reply, Entry, SessionTypes,
        Calls
    <3>2. UNCHANGED <<sVault, sLock, sLogin, sSignOut>> /\ sCall[r].at = "asking"
      BY <1>12, <2>5, <1>0, <2>1, <2>2 DEF Session!RequestToken
    <3>3. SessionTypes'
      BY <2>5, <3>1, <3>2, <1>0, <2>1, <2>2 DEF SessionTypes, Calls
    <3>4. SignedIn'
      BY <2>5, <3>1, <3>2, <1>0, <2>1, <2>2 DEF SessionTypes, SignedIn, Session!Idle
    <3>5. AsksWithToken'
      BY <2>5, <3>1, <3>2, <1>0, <2>1, <2>2 DEF SessionTypes, AsksWithToken
    <3>6. RefreshesAlone'
      BY <2>5, <3>1, <3>2, <1>0, <2>1, <2>2 DEF RefreshesAlone
    <3>7. RefreshesInTurn'
      BY <2>5, <3>1, <3>2, <1>0, <2>1, <2>2 DEF SessionTypes, Entry, SignedIn, RefreshesAlone,
        RefreshesInTurn, Session!SessionSurvives
    <3>8. Session!SignOutRevokes'
      BY <2>5, <3>1, <3>2, <1>0, <2>1, <2>2 DEF SessionTypes, Entry, SignedIn, AsksWithToken,
        Session!SignOutRevokes
    <3>9. Session!SessionSurvives'
      BY <2>5, <3>1, <3>2, <1>0, <2>1, <2>2 DEF SessionTypes, Entry, SignedIn, RefreshesAlone,
        RefreshesInTurn, Session!SessionSurvives
    <3> QED BY <3>3, <3>4, <3>5, <3>6, <3>7, <3>8, <3>9 DEF SessionInv
  <2> QED BY <1>12, <2>1, <2>2, <2>3, <2>4, <2>5 DEF Session!RequestToken
<1>13. ASSUME NEW r \in SessionRequest, Session!DeleteSession(r) PROVE SessionInv'
  <2>1. Only(r, "leaving", Session!NoEntry, "expired")
    BY <1>13, <1>0, Answers DEF Session!DeleteSession, Reply
  <2>2. UNCHANGED <<sValid, sLock, sLogin, sSignOut, sFaults>> /\ sVault' = Session!NoEntry
            /\ sCall[r].at = "refused"
    BY <1>13 DEF Session!DeleteSession
  <2>3. SessionTypes'
    BY <2>1, <2>2, <1>0 DEF SessionTypes, Calls
  <2>4. SignedIn'
    BY <2>1, <2>2, <1>0 DEF SessionTypes, SignedIn, Session!Idle
  <2>5. AsksWithToken'
    BY <2>1, <2>2, <1>0 DEF SessionTypes, AsksWithToken
  <2>6. RefreshesAlone'
    BY <2>1, <2>2, <1>0 DEF RefreshesAlone
  <2>7. RefreshesInTurn'
    BY <2>1, <2>2, <1>0 DEF SessionTypes, Entry, SignedIn, RefreshesAlone, RefreshesInTurn,
      Session!SessionSurvives
  <2>8. Session!SignOutRevokes'
    BY <2>1, <2>2, <1>0 DEF SessionTypes, Entry, SignedIn, AsksWithToken, Session!SignOutRevokes
  <2>9. Session!SessionSurvives'
    BY <2>1, <2>2, <1>0 DEF SessionTypes, Entry, SignedIn, RefreshesAlone, RefreshesInTurn,
      Session!SessionSurvives
  <2> QED BY <2>3, <2>4, <2>5, <2>6, <2>7, <2>8, <2>9 DEF SessionInv
<1>14. ASSUME NEW r \in SessionRequest, Session!StoreTokens(r) PROVE SessionInv'
  <2>1. CASE sVault' = sCall[r].entry /\ Session!Answer(r, "session") /\ UNCHANGED sFaults
    <3>1. Only(r, "leaving", Session!NoEntry, "session")
      BY <1>14, <2>1, <1>0, Answers DEF Session!StoreTokens, Stage, Reply, Entry, SessionTypes, Calls
    <3>2. UNCHANGED <<sValid, sLock, sLogin, sSignOut>> /\ sCall[r].at = "rotated"
      BY <1>14, <2>1, <1>0 DEF Session!StoreTokens
    <3>3. SessionTypes'
      BY <2>1, <3>1, <3>2, <1>0 DEF SessionTypes, Calls
    <3>4. SignedIn'
      BY <2>1, <3>1, <3>2, <1>0 DEF SessionTypes, SignedIn, Session!Idle
    <3>5. AsksWithToken'
      BY <2>1, <3>1, <3>2, <1>0 DEF SessionTypes, AsksWithToken
    <3>6. RefreshesAlone'
      BY <2>1, <3>1, <3>2, <1>0 DEF RefreshesAlone
    <3>7. RefreshesInTurn'
      BY <2>1, <3>1, <3>2, <1>0 DEF SessionTypes, Entry, SignedIn, RefreshesAlone, RefreshesInTurn,
        Session!SessionSurvives
    <3>8. Session!SignOutRevokes'
      BY <2>1, <3>1, <3>2, <1>0 DEF SessionTypes, Entry, SignedIn, AsksWithToken, Session!SignOutRevokes
    <3>9. Session!SessionSurvives'
      BY <2>1, <3>1, <3>2, <1>0 DEF SessionTypes, Entry, SignedIn, RefreshesAlone, RefreshesInTurn,
        Session!SessionSurvives
    <3> QED BY <3>3, <3>4, <3>5, <3>6, <3>7, <3>8, <3>9 DEF SessionInv
  <2>2. CASE UNCHANGED sVault /\ Session!MayFail /\ Session!Answer(r, "failed")
    <3>1. Only(r, "leaving", Session!NoEntry, "failed")
      BY <1>14, <2>2, <1>0, Answers DEF Session!StoreTokens, Stage, Reply, Entry, SessionTypes, Calls
    <3>2. UNCHANGED <<sValid, sLock, sLogin, sSignOut>> /\ sCall[r].at = "rotated"
      BY <1>14, <2>2, <1>0 DEF Session!StoreTokens
    <3>3. SessionTypes'
      BY <2>2, <3>1, <3>2, <1>0 DEF SessionTypes, Calls
    <3>4. SignedIn'
      BY <2>2, <3>1, <3>2, <1>0 DEF SessionTypes, SignedIn, Session!Idle
    <3>5. AsksWithToken'
      BY <2>2, <3>1, <3>2, <1>0 DEF SessionTypes, AsksWithToken
    <3>6. RefreshesAlone'
      BY <2>2, <3>1, <3>2, <1>0 DEF RefreshesAlone
    <3>7. RefreshesInTurn'
      BY <2>2, <3>1, <3>2, <1>0 DEF SessionTypes, Entry, SignedIn, RefreshesAlone, RefreshesInTurn,
        Session!SessionSurvives
    <3>8. Session!SignOutRevokes'
      BY <2>2, <3>1, <3>2, <1>0 DEF SessionTypes, Entry, SignedIn, AsksWithToken, Session!SignOutRevokes
    <3>9. Session!SessionSurvives'
      BY <2>2, <3>1, <3>2, <1>0 DEF SessionTypes, Entry, SignedIn, RefreshesAlone, RefreshesInTurn,
        Session!SessionSurvives
    <3> QED BY <3>3, <3>4, <3>5, <3>6, <3>7, <3>8, <3>9 DEF SessionInv
  <2> QED BY <1>14, <2>1, <2>2 DEF Session!StoreTokens
<1>15. ASSUME NEW r \in SessionRequest, Session!Leave(r) PROVE SessionInv'
  <2>1. Only(r, "idle", Session!NoEntry, sCall[r].answer)
    BY <1>15, <1>0 DEF Session!Leave, Session!Idle, Stage, Reply, Entry, SessionTypes, Calls
  <2>2. UNCHANGED <<sValid, sVault, sLogin, sSignOut, sFaults>>
            /\ sLock' = (IF sLock = r THEN "free" ELSE sLock) /\ sCall[r].at = "leaving"
    BY <1>15 DEF Session!Leave
  <2>3. SessionTypes'
    BY <2>1, <2>2, <1>0 DEF SessionTypes, Calls
  <2>4. SignedIn'
    BY <2>1, <2>2, <1>0 DEF SessionTypes, SignedIn, Session!Idle
  <2>5. AsksWithToken'
    BY <2>1, <2>2, <1>0 DEF SessionTypes, AsksWithToken
  <2>6. RefreshesAlone'
    BY <2>1, <2>2, <1>0 DEF RefreshesAlone
  <2>7. RefreshesInTurn'
    BY <2>1, <2>2, <1>0 DEF SessionTypes, Entry, SignedIn, RefreshesAlone, RefreshesInTurn,
      Session!SessionSurvives
  <2>8. Session!SignOutRevokes'
    BY <2>1, <2>2, <1>0 DEF SessionTypes, Entry, SignedIn, AsksWithToken, Session!SignOutRevokes
  <2>9. Session!SessionSurvives'
    BY <2>1, <2>2, <1>0 DEF SessionTypes, Entry, SignedIn, RefreshesAlone, RefreshesInTurn,
      Session!SessionSurvives
  <2> QED BY <2>3, <2>4, <2>5, <2>6, <2>7, <2>8, <2>9 DEF SessionInv
<1>16. CASE UNCHANGED Session!vars
  BY <1>16 DEF Session!vars, Session!Idle, Calls, SessionInv, SessionTypes, SignedIn, AsksWithToken,
    RefreshesAlone, RefreshesInTurn, Session!SignOutRevokes, Session!SessionSurvives
<1> QED BY <1>1, <1>2, <1>3, <1>4, <1>5, <1>6, <1>7, <1>8, <1>9, <1>10, <1>11, <1>12, <1>13, <1>14, <1>15,
  <1>16 DEF Session!Next

\* RevokeSession: a sign-out that answers that the session was revoked leaves no
\* token that GitHub takes, for any number of requests that refresh meanwhile,
\* of tokens and of failures.
THEOREM SignOutAlwaysRevokes == Session!Spec => []SignOutRevokes
<1>1. SessionInv => SignOutRevokes
  BY DEF SessionInv, SignOutRevokes
<1> QED BY ProjectAssumption, SessionInit, SessionStep, <1>1, PTL DEF Session!Spec

\* GetSession and RefreshSession: while GitHub and Redis answer and nobody signs
\* out, no request loses the session, for any number of them.
THEOREM SessionAlwaysSurvives == Session!Spec => []SessionSurvives
<1>1. SessionInv => SessionSurvives
  BY DEF SessionInv, SessionSurvives
<1> QED BY ProjectAssumption, SessionInit, SessionStep, <1>1, PTL DEF Session!Spec

-----------------------------------------------------------------------------
(* GithubPush: a baseline has the texts of its commit, and a push to the branch    *)
(* that the room has open starts from that commit.                                 *)

\* The first text of SomeFiles is one of them, if there is any.
PushTexts == PushText \cup {"absent", CHOOSE x \in PushText : TRUE}
Trees == [PushPath -> PushTexts]
Baselines == [branch : PushBranch, commit : Nat, files : Trees]
Commits == [parent : Nat, tree : Trees]
Plans ==
  [at : {"idle", "asked", "locked", "built", "create", "update", "published", "leaving"},
   branch : PushBranch, changes : SUBSET [path : PushPath, text : PushTexts], base : Baselines,
   target : Nat, tree : Trees, files : Trees]

PushTypes ==
  /\ pCommits \in Seq(Commits) /\ pHeads \in [PushBranch -> Nat] /\ pRoom \in Trees
  /\ pBaseline \in Baselines /\ pReview \in [PushTab -> Baselines] /\ pPush \in [PushTab -> Plans]

HeadsCommitted == \A b \in PushBranch : pHeads[b] <= Len(pCommits)

\* A baseline has texts of its commit.
Records(k, log) ==
  k.commit # 0 =>
    /\ k.commit \in 1..Len(log)
    /\ \A q \in PushPath : k.files[q] # "absent" => k.files[q] = log[k.commit].tree[q]

BaselinesRecord == Records(pBaseline, pCommits) /\ \A t \in PushTab : Records(pReview[t], pCommits)

\* The files that a push will record are those of its tree.
Covers(p) == \A q \in PushPath : p.files[q] # "absent" => p.files[q] = p.tree[q]

PlanStands(p, log) ==
  /\ p.at \in {"built", "create", "update"} =>
       /\ p.target \in 1..Len(log) /\ p.base.commit # 0 /\ Records(p.base, log) /\ Covers(p)
       /\ p.branch = p.base.branch => p.target = p.base.commit
  /\ p.at = "published" => p.target \in 1..Len(log) /\ log[p.target].tree = p.tree /\ Covers(p)

PushInv ==
  /\ PushTypes /\ HeadsCommitted /\ BaselinesRecord
  /\ \A t \in PushTab : PlanStands(pPush[t], pCommits)

\* Commits stay.
Longer(log, then) == Len(log) <= Len(then) /\ \A i \in 1..Len(log) : then[i] = log[i]

LEMMA LogGrows ==
  ASSUME NEW log \in Seq(Commits), NEW then \in Seq(Commits), Longer(log, then)
  PROVE  /\ \A k \in Baselines : Records(k, log) => Records(k, then)
         /\ \A p \in Plans : PlanStands(p, log) => PlanStands(p, then)
<1>1. \A i \in 1..Len(log) : i \in 1..Len(then) /\ then[i] = log[i]
  BY DEF Longer
<1>2. \A k \in Baselines : Records(k, log) => Records(k, then)
  BY <1>1 DEF Records, Baselines
<1>3. \A p \in Plans : p.base \in Baselines /\ p.target \in Nat
  BY DEF Plans
<1>4. \A p \in Plans : PlanStands(p, log) => PlanStands(p, then)
  BY <1>1, <1>2, <1>3 DEF PlanStands
<1> QED BY <1>2, <1>4

LEMMA Appended ==
  ASSUME NEW log \in Seq(Commits), NEW entry \in Commits
  PROVE  /\ Append(log, entry) \in Seq(Commits) /\ Longer(log, Append(log, entry))
         /\ Len(Append(log, entry)) = Len(log) + 1 /\ Append(log, entry)[Len(log) + 1] = entry
<1>1. Append(log, entry) \in Seq(Commits) /\ Len(Append(log, entry)) = Len(log) + 1 /\ Len(log) \in Nat
  OBVIOUS
<1>2. \A i \in 1..(Len(log) + 1) : Append(log, entry)[i] = IF i <= Len(log) THEN log[i] ELSE entry
  OBVIOUS
<1> QED BY <1>1, <1>2 DEF Longer

\* A step that leaves the log alone, or adds to it.
Frame(log, then) == then \in Seq(Commits) /\ Longer(log, then)

LEMMA Same == \A log \in Seq(Commits) : Frame(log, log)
BY DEF Frame, Longer

\* Only the plan of one tab changes.
Replans(t, p) == pPush' \in [PushTab -> Plans] /\ pPush'[t] = p /\ \A u \in PushTab : u # t =>
    pPush'[u] = pPush[u]

LEMMA PlansKept ==
  ASSUME PushInv, Frame(pCommits, pCommits'), NEW t \in PushTab, NEW p \in Plans, Replans(t, p),
         PlanStands(p, pCommits')
  PROVE  \A u \in PushTab : PlanStands(pPush[u], pCommits)'
<1>1. \A u \in PushTab : pPush[u] \in Plans /\ PlanStands(pPush[u], pCommits)
  BY DEF PushInv, PushTypes
<1>2. pCommits \in Seq(Commits) /\ pCommits' \in Seq(Commits) /\ Longer(pCommits, pCommits')
  BY DEF PushInv, PushTypes, Frame
<1>3. \A u \in PushTab : PlanStands(pPush[u], pCommits')
  BY <1>1, <1>2, LogGrows
<1> QED BY <1>3 DEF Replans

LEMMA BaselinesKept ==
  ASSUME PushInv, Frame(pCommits, pCommits'), pBaseline' = pBaseline, pReview' = pReview
  PROVE  BaselinesRecord'
<1>1. pCommits \in Seq(Commits) /\ pCommits' \in Seq(Commits) /\ Longer(pCommits, pCommits')
  BY DEF PushInv, PushTypes, Frame
<1>2. pBaseline \in Baselines /\ \A t \in PushTab : pReview[t] \in Baselines
  BY DEF PushInv, PushTypes
<1>3. Records(pBaseline, pCommits') /\ \A t \in PushTab : Records(pReview[t], pCommits')
  BY <1>1, <1>2, LogGrows DEF PushInv, BaselinesRecord
<1> QED BY <1>3 DEF BaselinesRecord

\* A step that changes one plan and nothing that the others are about.
LEMMA Replanned ==
  ASSUME PushInv, UNCHANGED <<pCommits, pHeads, pBaseline, pReview, pRoom>>,
         NEW t \in PushTab, NEW p \in Plans, Replans(t, p), PlanStands(p, pCommits)
  PROVE  PushInv'
<1>1. Frame(pCommits, pCommits')
  BY Same DEF PushInv, PushTypes
<1>2. \A u \in PushTab : PlanStands(pPush[u], pCommits)'
  BY <1>1, PlansKept
<1>3. BaselinesRecord'
  BY <1>1, BaselinesKept
<1>4. PushTypes' /\ HeadsCommitted'
  BY DEF PushInv, PushTypes, HeadsCommitted, Replans
<1> QED BY <1>2, <1>3, <1>4 DEF PushInv

LEMMA NoPlan ==
  /\ Push!NoBaseline \in Baselines /\ Push!NoBaseline.commit = 0
  /\ Push!NoPush \in Plans /\ Push!NoPush.at = "idle" /\ [Push!NoPush EXCEPT !.at = "leaving"] \in Plans
<1>1. Push!NoFiles \in Trees
  BY DEF Push!NoFiles, Trees, PushTexts
<1>2. PushMain \in PushBranch
  BY ProjectAssumption DEF Push!PushAssumption
<1>3. Push!NoBaseline \in Baselines /\ Push!NoBaseline.commit = 0
  BY <1>1, <1>2 DEF Push!NoBaseline, Baselines
<1> QED BY <1>1, <1>2, <1>3 DEF Push!NoPush, Plans

LEMMA Refused ==
  ASSUME PushInv, UNCHANGED <<pCommits, pHeads, pBaseline, pReview, pRoom>>,
         NEW t \in PushTab, Push!Refuse(t)
  PROVE  PushInv'
<1> DEFINE left == [Push!NoPush EXCEPT !.at = "leaving"]
<1>1. left \in Plans /\ left.at = "leaving"
  BY NoPlan DEF Push!NoPush
<1>2. Replans(t, left)
  BY <1>1 DEF PushInv, PushTypes, Push!Refuse, Replans
<1>3. PlanStands(left, pCommits)
  BY <1>1 DEF PlanStands
<1> QED BY <1>1, <1>2, <1>3, Replanned

LEMMA PushEdit ==
  ASSUME PushInv, NEW q \in PushPath, NEW x \in PushText \cup {"absent"}, Push!Edit(q, x)
  PROVE  PushInv'
<1>1. pRoom' \in Trees
  BY DEF PushInv, PushTypes, Trees, PushTexts, Push!Edit
<1>2. UNCHANGED <<pCommits, pHeads, pBaseline, pReview, pPush>>
  BY DEF Push!Edit
<1> QED BY <1>1, <1>2 DEF PushInv, PushTypes, HeadsCommitted, BaselinesRecord

LEMMA HeadTree == ASSUME PushInv, NEW b \in PushBranch, pHeads[b] # 0
                  PROVE  pHeads[b] \in 1..Len(pCommits) /\ Push!Tree(pHeads[b]) \in Trees
                         /\ Push!Tree(pHeads[b]) = pCommits[pHeads[b]].tree
<1>1. pHeads[b] \in Nat /\ pHeads[b] <= Len(pCommits) /\ Len(pCommits) \in Nat
  BY DEF PushInv, PushTypes, HeadsCommitted
<1>2. pHeads[b] \in 1..Len(pCommits)
  BY <1>1
<1>3. pCommits[pHeads[b]] \in Commits
  BY <1>2 DEF PushInv, PushTypes
<1> QED BY <1>2, <1>3 DEF Commits, Push!Tree

\* A commit on a branch.
LEMMA Committed ==
  ASSUME PushInv, NEW b \in PushBranch, NEW parent \in Nat, NEW tree \in Trees, Push!Commit(b, parent, tree)
  PROVE  /\ Frame(pCommits, pCommits') /\ Len(pCommits') = Len(pCommits) + 1 /\ Len(pCommits) \in Nat
         /\ pCommits'[Len(pCommits) + 1].tree = tree
         /\ pHeads' \in [PushBranch -> Nat] /\ HeadsCommitted'
<1> DEFINE entry == [parent |-> parent, tree |-> tree]
<1>1. entry \in Commits /\ pCommits \in Seq(Commits) /\ Len(pCommits) \in Nat
  BY DEF PushInv, PushTypes, Commits
<1>2. pCommits' = Append(pCommits, entry) /\ pHeads' = [pHeads EXCEPT ![b] = Len(pCommits) + 1]
  BY DEF Push!Commit
<1> HIDE DEF entry
<1>3. Frame(pCommits, pCommits') /\ Len(pCommits') = Len(pCommits) + 1 /\ pCommits'[Len(pCommits) + 1] = entry
  BY <1>1, <1>2, Appended DEF Frame
<1>4. pHeads' \in [PushBranch -> Nat] /\ \A c \in PushBranch : pHeads'[c] = Len(pCommits) + 1
          \/ pHeads'[c] = pHeads[c]
  BY <1>1, <1>2 DEF PushInv, PushTypes
<1>5. \A c \in PushBranch : pHeads[c] \in Nat /\ pHeads[c] <= Len(pCommits)
  BY DEF PushInv, PushTypes, HeadsCommitted
<1>6. HeadsCommitted'
  BY <1>1, <1>3, <1>4, <1>5 DEF HeadsCommitted
<1> QED BY <1>1, <1>3, <1>4, <1>6 DEF entry

LEMMA PushForeignCommit ==
  ASSUME PushInv, NEW b \in PushBranch, NEW q \in PushPath, NEW x \in PushText \cup {"absent"},
         Push!ForeignCommit(b, q, x)
  PROVE  PushInv'
<1> DEFINE tree == [Push!Tree(pHeads[b]) EXCEPT ![q] = x]
<1>1. pHeads[b] # 0 /\ Push!Commit(b, pHeads[b], tree) /\ UNCHANGED <<pBaseline, pReview, pPush, pRoom>>
  BY DEF Push!ForeignCommit
<1>2. tree \in Trees /\ pHeads[b] \in Nat
  BY <1>1, HeadTree DEF Trees, PushTexts, PushInv, PushTypes
<1> HIDE DEF tree
<1>3. Frame(pCommits, pCommits') /\ pHeads' \in [PushBranch -> Nat] /\ HeadsCommitted'
  BY <1>1, <1>2, Committed
<1>4. BaselinesRecord'
  BY <1>1, <1>3, BaselinesKept
<1>5. \A t \in PushTab : pPush[t] \in Plans /\ PlanStands(pPush[t], pCommits)
  BY DEF PushInv, PushTypes
<1>6. \A t \in PushTab : PlanStands(pPush[t], pCommits')
  BY <1>3, <1>5, LogGrows DEF Frame, PushInv, PushTypes
<1>7. PushTypes'
  BY <1>1, <1>3 DEF PushInv, PushTypes, Frame
<1> QED BY <1>1, <1>3, <1>4, <1>6, <1>7 DEF PushInv

LEMMA PushBranches ==
  ASSUME PushInv, NEW b \in PushBranch, NEW c \in PushBranch, Push!CreateBranch(b, c) \/ Push!DeleteBranch(b)
  PROVE  PushInv'
<1>1. pHeads' \in [PushBranch -> Nat] /\ HeadsCommitted'
  BY DEF PushInv, PushTypes, HeadsCommitted, Push!CreateBranch, Push!DeleteBranch
<1>2. UNCHANGED <<pCommits, pBaseline, pReview, pPush, pRoom>>
  BY DEF Push!CreateBranch, Push!DeleteBranch
<1> QED BY <1>1, <1>2 DEF PushInv, PushTypes, BaselinesRecord

LEMMA PushReview ==
  ASSUME PushInv, NEW t \in PushTab, NEW b \in PushBranch, Push!ReviewRepository(t, b)
  PROVE  PushInv'
<1> DEFINE seen == [branch |-> b, commit |-> pHeads[b], files |-> Push!Tree(pHeads[b])]
<1>1. pHeads[b] # 0 /\ pReview' = [pReview EXCEPT ![t] = seen]
          /\ UNCHANGED <<pCommits, pHeads, pBaseline, pPush, pRoom>>
  BY DEF Push!ReviewRepository
<1>2. seen \in Baselines /\ Records(seen, pCommits)
  BY <1>1, HeadTree DEF PushInv, PushTypes, Baselines, Records
<1> HIDE DEF seen
<1>3. pReview' \in [PushTab -> Baselines] /\ \A u \in PushTab : Records(pReview'[u], pCommits)
  BY <1>1, <1>2 DEF PushInv, PushTypes, BaselinesRecord
<1> QED BY <1>1, <1>3 DEF PushInv, PushTypes, HeadsCommitted, BaselinesRecord

LEMMA PushImport ==
  ASSUME PushInv, NEW t \in PushTab, NEW chosen \in SUBSET PushPath, Push!ImportRepository(t, chosen)
  PROVE  PushInv'
<1> DEFINE files == Push!Selected(pReview[t].files, chosen)
           opened == [pReview[t] EXCEPT !.files = files]
<1>1. pRoom' = files /\ pBaseline' = opened /\ pReview' = [pReview EXCEPT ![t] = Push!NoBaseline]
      /\ UNCHANGED <<pCommits, pHeads, pPush>>
  BY DEF Push!ImportRepository
<1>2. pReview[t] \in Baselines /\ Records(pReview[t], pCommits)
  BY DEF PushInv, PushTypes, BaselinesRecord
<1>3. files \in Trees /\ \A q \in PushPath : files[q] \in {pReview[t].files[q], "absent"}
  BY <1>2 DEF Baselines, Trees, PushTexts, Push!Selected
<1> HIDE DEF files
<1>4. opened \in Baselines /\ Records(opened, pCommits)
  BY <1>2, <1>3 DEF Baselines, Records
<1> HIDE DEF opened
<1>5. Records(Push!NoBaseline, pCommits)
  BY NoPlan DEF Records
<1>6. pReview' \in [PushTab -> Baselines] /\ \A u \in PushTab : Records(pReview'[u], pCommits)
  BY <1>1, <1>5, NoPlan DEF PushInv, PushTypes, BaselinesRecord
<1> QED BY <1>1, <1>3, <1>4, <1>6 DEF PushInv, PushTypes, HeadsCommitted, BaselinesRecord

LEMMA PushAsk ==
  ASSUME PushInv, NEW t \in PushTab, NEW b \in PushBranch, NEW paths \in SUBSET PushPath, Push!AskToPush(t,
         b, paths)
  PROVE  PushInv'
<1> DEFINE changes == {[path |-> q, text |-> pRoom[q]] : q \in paths}
           asked == [Push!NoPush EXCEPT !.at = "asked", !.branch = b, !.changes = changes]
<1>1. pPush' = [pPush EXCEPT ![t] = asked] /\ UNCHANGED <<pCommits, pHeads, pBaseline, pReview, pRoom>>
  BY DEF Push!AskToPush
<1>2. changes \in SUBSET [path : PushPath, text : PushTexts]
  BY DEF PushInv, PushTypes, Trees
<1> HIDE DEF changes
<1>3. asked \in Plans /\ asked.at = "asked"
  BY <1>2, NoPlan DEF Push!NoPush, Plans
<1> HIDE DEF asked
<1>4. Replans(t, asked) /\ PlanStands(asked, pCommits)
  BY <1>1, <1>3 DEF PushInv, PushTypes, Replans, PlanStands
<1> QED BY <1>1, <1>3, <1>4, Replanned

\* A push that gets to a stage without a plan.
LEMMA PushAcquire ==
  ASSUME PushInv, NEW t \in PushTab, Push!AcquirePushLock(t) \/ Push!ReleasePushLock(t)
  PROVE  PushInv'
<1>1. UNCHANGED <<pCommits, pHeads, pBaseline, pReview, pRoom>>
  BY DEF Push!AcquirePushLock, Push!ReleasePushLock
<1>2. pPush' = [pPush EXCEPT ![t].at = "locked"] \/ pPush' = [pPush EXCEPT ![t] = Push!NoPush]
  BY DEF Push!AcquirePushLock, Push!ReleasePushLock
<1>3. PICK p \in Plans : p.at \in {"locked", "idle"} /\ pPush' = [pPush EXCEPT ![t] = p]
  <2>1. [pPush[t] EXCEPT !.at = "locked"] \in Plans
    BY DEF PushInv, PushTypes, Plans
  <2> QED BY <1>2, <2>1, NoPlan DEF PushInv, PushTypes, Plans
<1>4. Replans(t, p) /\ PlanStands(p, pCommits)
  BY <1>3 DEF PushInv, PushTypes, Replans, PlanStands
<1> QED BY <1>1, <1>3, <1>4, Replanned

\* What a push reads: the branch it goes to, or for a new one the branch that the
\* room has open. It is refused when that branch left the baseline behind.
LEMMA PushLoad ==
  ASSUME PushInv, NEW t \in PushTab, Push!LoadPushContext(t)
  PROVE  PushInv'
<1> DEFINE b == IF pHeads[pPush[t].branch] # 0 THEN pPush[t].branch ELSE pBaseline.branch
           tree == Push!Updated(Push!Tree(pHeads[b]), pPush[t].changes)
           files == Push!BuildTreePlan(pHeads[b], pPush[t].changes)
           built == [pPush[t] EXCEPT !.at = "built", !.base = pBaseline, !.target = pHeads[b],
                                     !.tree = tree, !.files = files]
<1>1. UNCHANGED <<pCommits, pHeads, pBaseline, pReview, pRoom>>
  BY DEF Push!LoadPushContext
<1>2. CASE Push!Refuse(t)
  BY <1>1, <1>2, Refused
<1>3. CASE ~Push!Refuse(t)
  <2>1. /\ pBaseline.commit # 0 /\ pHeads[b] # 0 /\ ~Push!Moved(b)
        /\ pPush' = [pPush EXCEPT ![t] = built]
    BY <1>3 DEF Push!LoadPushContext
  <2>2. /\ pPush[t] \in Plans /\ pPush[t].branch \in PushBranch /\ pBaseline \in Baselines
        /\ pPush[t].changes \in SUBSET [path : PushPath, text : PushTexts]
    BY DEF PushInv, PushTypes, Plans
  <2>3. b \in PushBranch
    BY <2>2 DEF Baselines
  <2>4. pHeads[b] \in 1..Len(pCommits) /\ Push!Tree(pHeads[b]) \in Trees
    BY <2>1, <2>3, HeadTree
  <2>5. \A old \in Trees : Push!Updated(old, pPush[t].changes) \in Trees
    <3>1. ASSUME NEW old \in Trees, NEW q \in PushPath
          PROVE  Push!Updated(old, pPush[t].changes)[q] \in PushTexts
      BY <2>2 DEF Push!Updated, Trees
    <3> QED BY <3>1 DEF Push!Updated, Trees
  <2>6. Push!Tracked(Push!Tree(pHeads[b])) \in Trees
    BY <2>4 DEF Push!Tracked, Trees, PushTexts
  <2>7. tree \in Trees /\ files \in Trees
    BY <2>4, <2>5, <2>6 DEF Push!BuildTreePlan
  <2>8. \A q \in PushPath : files[q] # "absent" => files[q] = tree[q]
    BY DEF Push!BuildTreePlan, Push!Updated, Push!Tracked
  <2>9. pPush[t].branch = pBaseline.branch => pHeads[b] = pBaseline.commit
    BY <2>1 DEF Push!Moved
  <2> HIDE DEF tree, files
  <2>10. /\ built \in Plans /\ built.at = "built" /\ built.target = pHeads[b] /\ built.base = pBaseline
         /\ built.tree = tree /\ built.files = files /\ built.branch = pPush[t].branch
    <3>1. pHeads[b] \in Nat
      BY <2>3 DEF PushInv, PushTypes
    <3> HIDE DEF b, built
    <3>2. built = [pPush[t] EXCEPT !.at = "built", !.base = pBaseline, !.target = pHeads[b],
                                   !.tree = tree, !.files = files]
      BY DEF built
    <3>3. pPush[t].changes \in SUBSET [path : PushPath, text : PushTexts]
      BY <2>2
    <3>4. pPush[t] = [at |-> pPush[t].at, branch |-> pPush[t].branch, changes |-> pPush[t].changes,
                      base |-> pPush[t].base, target |-> pPush[t].target, tree |-> pPush[t].tree,
                      files |-> pPush[t].files]
      BY <2>2 DEF Plans
    <3>5. built = [at |-> "built", branch |-> pPush[t].branch, changes |-> pPush[t].changes,
                   base |-> pBaseline, target |-> pHeads[b], tree |-> tree, files |-> files]
      BY <3>2, <3>4
    <3> QED BY <2>2, <2>7, <3>1, <3>3, <3>5 DEF Plans
  <2> HIDE DEF built, b
  <2>11. PlanStands(built, pCommits)
    BY <2>1, <2>4, <2>8, <2>9, <2>10 DEF PushInv, BaselinesRecord, PlanStands, Covers
  <2>12. Replans(t, built)
    BY <2>1, <2>10 DEF PushInv, PushTypes, Replans
  <2> QED BY <1>1, <2>10, <2>11, <2>12, Replanned
<1> QED BY <1>2, <1>3

LEMMA PushCheck ==
  ASSUME PushInv, NEW t \in PushTab, Push!CheckBranch(t)
  PROVE  PushInv'
<1>1. UNCHANGED <<pCommits, pHeads, pBaseline, pReview, pRoom>>
  BY DEF Push!CheckBranch
<1>2. CASE Push!Refuse(t)
  BY <1>1, <1>2, Refused
<1>3. CASE ~Push!Refuse(t)
  <2>1. PICK at \in {"create", "update"} : pPush' = [pPush EXCEPT ![t].at = at]
    BY <1>3 DEF Push!CheckBranch
  <2> DEFINE p == [pPush[t] EXCEPT !.at = at]
  <2>2. pPush[t] \in Plans /\ pPush[t].at = "built" /\ PlanStands(pPush[t], pCommits)
    BY DEF PushInv, PushTypes, Push!CheckBranch
  <2>3. /\ p \in Plans /\ p.at = at /\ p.target = pPush[t].target /\ p.base = pPush[t].base
        /\ p.tree = pPush[t].tree /\ p.files = pPush[t].files /\ p.branch = pPush[t].branch
    BY <2>2 DEF Plans
  <2>4. pPush' = [pPush EXCEPT ![t] = p]
    BY <2>1
  <2> HIDE DEF p
  <2>5. PlanStands(p, pCommits)
    BY <2>2, <2>3 DEF PlanStands, Covers
  <2>6. Replans(t, p)
    BY <2>3, <2>4 DEF PushInv, PushTypes, Replans
  <2> QED BY <1>1, <2>3, <2>5, <2>6, Replanned
<1> QED BY <1>2, <1>3

LEMMA PushPublish ==
  ASSUME PushInv, NEW t \in PushTab, Push!UpdateBranch(t) \/ Push!CreateRef(t)
  PROVE  PushInv'
<1>1. UNCHANGED <<pBaseline, pReview, pRoom>> /\ pPush[t].at \in {"create", "update"}
  BY DEF Push!UpdateBranch, Push!CreateRef
<1>2. CASE Push!Refuse(t) /\ UNCHANGED <<pCommits, pHeads>>
  BY <1>1, <1>2, Refused
<1>3. CASE Push!Published(t)
  <2> DEFINE p == [pPush[t] EXCEPT !.at = "published", !.target = Len(pCommits) + 1]
  <2>1. /\ pPush[t] \in Plans /\ PlanStands(pPush[t], pCommits) /\ pPush[t].branch \in PushBranch
        /\ pPush[t].target \in Nat /\ pPush[t].tree \in Trees
    BY DEF PushInv, PushTypes, Plans
  <2>2. Push!Commit(pPush[t].branch, pPush[t].target, pPush[t].tree) /\ pPush' = [pPush EXCEPT ![t] = p]
    BY <1>3 DEF Push!Published
  <2>3. /\ Frame(pCommits, pCommits') /\ Len(pCommits') = Len(pCommits) + 1 /\ Len(pCommits) \in Nat
        /\ pCommits'[Len(pCommits) + 1].tree = pPush[t].tree
        /\ pHeads' \in [PushBranch -> Nat] /\ HeadsCommitted'
    BY <2>1, <2>2, Committed
  <2>4. /\ p \in Plans /\ p.at = "published" /\ p.target = Len(pCommits) + 1
        /\ p.tree = pPush[t].tree /\ p.files = pPush[t].files
    <3>1. Len(pCommits) + 1 \in Nat
      BY <2>3
    <3> DEFINE next == Len(pCommits) + 1
    <3>2. next \in Nat
      BY <3>1
    <3> HIDE DEF next
    <3>3. \A r \in Nat : LET q == [pPush[t] EXCEPT !.at = "published", !.target = r]
                       IN q \in Plans /\ q.at = "published" /\ q.target = r
                          /\ q.tree = pPush[t].tree /\ q.files = pPush[t].files
      BY <2>1 DEF Plans
    <3> QED BY <3>1, <3>3
  <2> HIDE DEF p
  <2>5. PlanStands(p, pCommits')
    BY <1>1, <2>1, <2>3, <2>4 DEF PlanStands, Covers
  <2>6. Replans(t, p)
    BY <2>2, <2>4 DEF PushInv, PushTypes, Replans
  <2>7. BaselinesRecord' /\ \A u \in PushTab : PlanStands(pPush[u], pCommits)'
    BY <1>1, <2>3, <2>4, <2>5, <2>6, BaselinesKept, PlansKept
  <2>8. PushTypes'
    BY <1>1, <2>3, <2>6 DEF PushInv, PushTypes, Frame, Replans
  <2> QED BY <2>3, <2>7, <2>8 DEF PushInv
<1> QED BY <1>2, <1>3 DEF Push!UpdateBranch, Push!CreateRef, Push!github

LEMMA PushSave ==
  ASSUME PushInv, NEW t \in PushTab, Push!SaveBaseline(t)
  PROVE  PushInv'
<1> DEFINE left == [Push!NoPush EXCEPT !.at = "leaving"]
           stored == [branch |-> pPush[t].branch, commit |-> pPush[t].target, files |-> pPush[t].files]
<1>1. /\ UNCHANGED <<pCommits, pHeads, pReview, pRoom>> /\ pPush[t].at = "published"
      /\ pPush' = [pPush EXCEPT ![t] = left] /\ pBaseline' \in {stored, pBaseline}
  BY DEF Push!SaveBaseline
<1>2. pPush[t] \in Plans /\ PlanStands(pPush[t], pCommits) /\ Len(pCommits) \in Nat
  BY DEF PushInv, PushTypes
<1>3. stored \in Baselines /\ Records(stored, pCommits)
  BY <1>1, <1>2 DEF Baselines, Plans, PlanStands, Covers, Records
<1> HIDE DEF stored
<1>4. pBaseline' \in Baselines /\ BaselinesRecord'
  BY <1>1, <1>3 DEF PushInv, PushTypes, BaselinesRecord
<1>5. left \in Plans /\ left.at = "leaving"
  BY NoPlan DEF Push!NoPush
<1> HIDE DEF left
<1>6. Replans(t, left) /\ PlanStands(left, pCommits')
  BY <1>1, <1>5 DEF PushInv, PushTypes, Replans, PlanStands
<1>7. \A u \in PushTab : PlanStands(pPush[u], pCommits)'
  BY <1>1, <1>5, <1>6, PlansKept, Same DEF PushInv, PushTypes
<1> QED BY <1>1, <1>4, <1>6, <1>7 DEF PushInv, PushTypes, HeadsCommitted, Replans

LEMMA PushCreate ==
  ASSUME PushInv, NEW t \in PushTab, Push!CreateRepository(t)
  PROVE  PushInv'
<1> DEFINE p == [Push!NoPush EXCEPT !.at = "published", !.target = 1, !.tree = pRoom, !.files = pRoom]
<1>1. /\ pCommits = <<>> /\ Push!Commit(PushMain, 0, pRoom) /\ pPush' = [pPush EXCEPT ![t] = p]
      /\ UNCHANGED <<pRoom, pBaseline, pReview>>
  BY DEF Push!CreateRepository
<1>2. pRoom \in Trees /\ PushMain \in PushBranch
  BY ProjectAssumption DEF PushInv, PushTypes, Push!PushAssumption
<1>3. /\ Frame(pCommits, pCommits') /\ Len(pCommits') = 1 /\ pCommits'[1].tree = pRoom
      /\ pHeads' \in [PushBranch -> Nat] /\ HeadsCommitted'
  BY <1>1, <1>2, Committed
<1>4. p \in Plans /\ p.at = "published" /\ p.target = 1 /\ p.tree = pRoom /\ p.files = pRoom
  BY <1>2, NoPlan DEF Push!NoPush, Plans
<1> HIDE DEF p
<1>5. PlanStands(p, pCommits') /\ Replans(t, p)
  BY <1>1, <1>3, <1>4 DEF PlanStands, Covers, PushInv, PushTypes, Replans
<1>6. BaselinesRecord' /\ \A u \in PushTab : PlanStands(pPush[u], pCommits)'
  BY <1>1, <1>3, <1>4, <1>5, BaselinesKept, PlansKept
<1>7. PushTypes'
  BY <1>1, <1>3, <1>5 DEF PushInv, PushTypes, Frame, Replans
<1> QED BY <1>3, <1>6, <1>7 DEF PushInv

LEMMA PushInit == ASSUME Push!Init PROVE PushInv
<1>1. Push!SomeFiles \in Trees
          /\ \A chosen \in SUBSET PushPath : Push!Selected(Push!SomeFiles, chosen) \in Trees
  BY DEF Push!SomeFiles, Push!Selected, Trees, PushTexts
<1>2. PushMain \in PushBranch
  BY ProjectAssumption DEF Push!PushAssumption
<1>3. /\ pPush = [t \in PushTab |-> Push!NoPush] /\ pReview = [t \in PushTab |-> Push!NoBaseline]
  BY DEF Push!Init
<1>4. pPush \in [PushTab -> Plans] /\ pReview \in [PushTab -> Baselines]
  BY <1>3, NoPlan
<1>5. \A t \in PushTab : PlanStands(pPush[t], pCommits) /\ Records(pReview[t], pCommits)
  BY <1>3, NoPlan DEF PlanStands, Records
<1>6. CASE pCommits = <<>> /\ pHeads = [b \in PushBranch |-> 0] /\ pRoom = Push!SomeFiles
           /\ pBaseline = Push!NoBaseline
  <2>1. pCommits \in Seq(Commits) /\ Len(pCommits) = 0
    BY <1>6
  <2>2. Records(pBaseline, pCommits) /\ pBaseline \in Baselines
    BY <1>6, NoPlan DEF Records
  <2> QED BY <1>1, <1>4, <1>5, <1>6, <2>1, <2>2 DEF PushInv, PushTypes, HeadsCommitted, BaselinesRecord
<1>7. ASSUME NEW chosen \in SUBSET PushPath,
             pCommits = <<[parent |-> 0, tree |-> Push!SomeFiles]>>, pHeads = [b \in PushBranch |-> 1],
             pRoom = Push!Selected(Push!SomeFiles, chosen),
             pBaseline = [branch |-> PushMain, commit |-> 1, files |-> pRoom]
      PROVE  PushInv
  <2>1. pCommits \in Seq(Commits) /\ Len(pCommits) = 1 /\ pCommits[1].tree = Push!SomeFiles
    BY <1>1, <1>7 DEF Commits
  <2>2. pRoom \in Trees /\ \A q \in PushPath : pRoom[q] # "absent" => pRoom[q] = Push!SomeFiles[q]
    BY <1>1, <1>7 DEF Push!Selected
  <2>3. Records(pBaseline, pCommits) /\ pBaseline \in Baselines
    BY <1>2, <1>7, <2>1, <2>2 DEF Records, Baselines
  <2>4. pHeads \in [PushBranch -> Nat] /\ HeadsCommitted
    BY <1>7, <2>1 DEF HeadsCommitted
  <2> QED BY <1>4, <1>5, <2>1, <2>2, <2>3, <2>4 DEF PushInv, PushTypes, BaselinesRecord
<1> QED BY <1>6, <1>7 DEF Push!Init

LEMMA PushStep == ASSUME PushInv, [Push!Next]_(Push!vars) PROVE PushInv'
<1>1. ASSUME NEW t \in PushTab,
             \/ Push!AcquirePushLock(t) \/ Push!LoadPushContext(t) \/ Push!CheckBranch(t)
             \/ Push!UpdateBranch(t) \/ Push!CreateRef(t) \/ Push!SaveBaseline(t)
             \/ Push!ReleasePushLock(t) \/ Push!CreateRepository(t)
      PROVE  PushInv'
  BY <1>1, PushAcquire, PushLoad, PushCheck, PushPublish, PushSave, PushCreate
<1>2. ASSUME NEW t \in PushTab, NEW paths \in SUBSET PushPath,
             Push!ImportRepository(t, paths) \/ \E b \in PushBranch : Push!AskToPush(t, b, paths)
      PROVE  PushInv'
  BY <1>2, PushImport, PushAsk
<1>3. CASE Push!LockLapses
  BY <1>3 DEF Push!LockLapses, PushInv, PushTypes, HeadsCommitted, BaselinesRecord
<1>4. CASE UNCHANGED Push!vars
  BY <1>4 DEF Push!vars, PushInv, PushTypes, HeadsCommitted, BaselinesRecord
<1> QED BY <1>1, <1>2, <1>3, <1>4, PushEdit, PushForeignCommit, PushBranches, PushReview DEF Push!Next

LEMMA PushAlways == Push!Spec => []PushInv
BY PushInit, PushStep, PTL DEF Push!Spec

\* For any tabs, branches and pushes, with locks that lapse and others who commit: a
\* push to the branch that the room has open starts from the commit of the baseline
\* it was compared with, so what it replaces in a tracked file is text the room knew.
THEOREM PushReplacesKnownText == Push!Spec => KnownTextReplaced
<1>1. ASSUME PushInv, NEW t \in PushTab, pPush[t].at \in {"create", "update"},
             pPush[t].branch = pPush[t].base.branch, NEW q \in PushPath, pPush[t].base.files[q] # "absent"
      PROVE  Push!Tree(pPush[t].target)[q] = pPush[t].base.files[q]
  BY <1>1 DEF PushInv, PlanStands, Records, Push!Tree
<1>2. ASSUME PushInv, [Push!Next]_(Push!vars)
      PROVE  [\A t \in PushTab :
                LET p == pPush[t] IN
                p.at \in {"create", "update"} /\ pPush'[t].at = "published" /\ p.branch = p.base.branch =>
                  \A q \in PushPath : p.base.files[q] # "absent" /\ p.tree[q] # Push!Tree(p.target)[q] =>
                     Push!Tree(p.target)[q] = p.base.files[q]]_(Push!vars)
  BY <1>1, <1>2
<1> QED BY <1>2, PushAlways, PTL DEF Push!Spec, KnownTextReplaced, Push!KnownTextReplaced

-----------------------------------------------------------------------------
(* RoomRecovery: whoever was remembered is remembered until the record is     *)
(* written, and one upload runs at a time. Both while no call of a tab runs    *)
(* during a sweep (CalmSweeps).                                                *)

Uploading == {"save files", "append", "complete", "cancel"}
Stages == {"idle", "validate", "touch", "touchOnly", "save"} \cup Uploading
RecoveryCalls ==
  [at : Stages, old : SUBSET RecoveryFile, todo : SUBSET RecoveryFile, again : BOOLEAN]
RecoveryMetas ==
  [exists : BOOLEAN, key : BOOLEAN, fresh : BOOLEAN, owner : RecoveryMember \cup {"nobody"},
   status : {"none", "pending", "running", "complete"}]

RecoveryTypes ==
  /\ rMeta \in RecoveryMetas /\ rCall \in [RecoveryTab -> RecoveryCalls]
  /\ rInRoom \in [RecoveryTab -> BOOLEAN] /\ rShows \in [RecoveryTab -> SUBSET RecoveryFile]
  /\ rTree \subseteq RecoveryFile

\* No call and no tab is in a room that is being swept.
SweptAlone == rSweep # "idle" => \A t \in RecoveryTab : rCall[t].at = "idle" /\ ~rInRoom[t]

\* The room that a tab enters has its key, and is there once it was touched.
EntersRoom ==
  \A t \in RecoveryTab :
    /\ rCall[t].at \in {"touch", "save"} => rMeta.key
    /\ rCall[t].at = "save" => rMeta.exists

\* The members are with the room, or in the record, which is written before the room goes.
MembersKept ==
  rSettled =>
    /\ (rMeta.exists /\ rMeta.key /\ rRemembered # {}) \/ rRecovery # {}
    /\ rSweep \in {"deleting", "metaGone", "restGone"} => rRecovery # {}

\* One upload at a time, by the member whose recovery it is.
UploadsAlone ==
  /\ rMeta.status # "none" => rMeta.exists
  /\ \A t \in RecoveryTab : rCall[t].at \in Uploading =>
       /\ rMeta.owner = RecoveryMemberOf[t] /\ rMeta.status = "running"
       /\ \A u \in RecoveryTab : rCall[u].at \in Uploading => u = t

\* What it creates has its text, and an upload of nothing creates nothing.
UploadsText ==
  \A t \in RecoveryTab :
    /\ rCall[t].at = "append" => rCall[t].todo \subseteq rSnapshots
    /\ rCall[t].at = "complete" => rCall[t].todo = {}

RecoveryInv ==
  /\ RecoveryTypes /\ SweptAlone /\ EntersRoom /\ MembersKept /\ UploadsAlone /\ UploadsText
  /\ CompleteMeansRestored

\* The call of one tab comes to a stage; in an import it keeps what it is to do.
CallGoes(t, s) ==
  /\ rCall' \in [RecoveryTab -> RecoveryCalls] /\ rCall'[t].at = s
  /\ s \in {"append", "complete"} => rCall'[t].todo = rCall[t].todo
  /\ \A u \in RecoveryTab \ {t} : rCall'[u] = rCall[u]

LEMMA CallMoves ==
  ASSUME rCall \in [RecoveryTab -> RecoveryCalls], NEW t \in RecoveryTab, NEW s \in Stages,
         rCall' = [rCall EXCEPT ![t].at = s]
  PROVE  CallGoes(t, s)
<1>1. rCall[t] = [at |-> rCall[t].at, old |-> rCall[t].old, todo |-> rCall[t].todo,
                  again |-> rCall[t].again]
  BY DEF RecoveryCalls
<1>2. /\ rCall'[t] = [at |-> s, old |-> rCall[t].old, todo |-> rCall[t].todo,
                      again |-> rCall[t].again]
      /\ DOMAIN rCall' = RecoveryTab /\ rCall' = [u \in RecoveryTab |-> rCall'[u]]
      /\ \A u \in RecoveryTab \ {t} : rCall'[u] = rCall[u]
  BY <1>1
<1>3. rCall'[t] \in RecoveryCalls
  BY DEF RecoveryCalls
<1> QED BY <1>3 DEF CallGoes

LEMMA CallEnds ==
  ASSUME rCall \in [RecoveryTab -> RecoveryCalls], NEW t \in RecoveryTab,
         rCall' = [rCall EXCEPT ![t] = Recovery!NoCall]
  PROVE  CallGoes(t, "idle")
<1>1. Recovery!NoCall \in RecoveryCalls /\ Recovery!NoCall.at = "idle"
  BY DEF Recovery!NoCall, RecoveryCalls, Stages
<1> QED BY <1>1 DEF CallGoes

LEMMA StatusMoves ==
  ASSUME rMeta \in RecoveryMetas, NEW s \in {"none", "pending", "running", "complete"},
         rMeta' = [rMeta EXCEPT !.status = s]
  PROVE  /\ rMeta' \in RecoveryMetas /\ rMeta'.status = s /\ rMeta'.exists = rMeta.exists
         /\ rMeta'.key = rMeta.key /\ rMeta'.owner = rMeta.owner
<1>1. rMeta = [exists |-> rMeta.exists, key |-> rMeta.key, fresh |-> rMeta.fresh,
               owner |-> rMeta.owner, status |-> rMeta.status]
  BY DEF RecoveryMetas
<1>2. rMeta' = [exists |-> rMeta.exists, key |-> rMeta.key, fresh |-> rMeta.fresh,
                owner |-> rMeta.owner, status |-> s]
  BY <1>1
<1> QED BY DEF RecoveryMetas

LEMMA UploadsStay ==
  ASSUME UploadsAlone, rMeta'.status = rMeta.status, rMeta'.owner = rMeta.owner,
         rMeta.exists => rMeta'.exists,
         \A u \in RecoveryTab : rCall'[u].at \in Uploading => rCall[u].at \in Uploading
  PROVE  UploadsAlone'
BY DEF UploadsAlone

LEMMA RecoveryStep ==
  ASSUME Recovery!RecoveryAssumption, RecoveryCalmSweeps, RecoveryInv, [Recovery!Next]_(Recovery!vars)
  PROVE  RecoveryInv'
<1> USE DEF Recovery!RecoveryAssumption, Recovery!stored, Uploading
<1>0. /\ RecoveryTypes /\ SweptAlone /\ EntersRoom /\ MembersKept /\ UploadsAlone /\ UploadsText
      /\ CompleteMeansRestored
  BY DEF RecoveryInv
<1>1. ASSUME NEW t \in RecoveryTab, Recovery!RestoreRoom(t) PROVE RecoveryInv'
  <2>1. CallGoes(t, "validate")
    <3> DEFINE ag == IF rMeta.exists THEN rMeta.owner = RecoveryMemberOf[t] /\ rMeta.status = "pending"
                     ELSE RecoveryMemberOf[t] \in rRecovery
    <3>0. ag \in BOOLEAN
      <4>1. CASE rMeta.exists
        BY <4>1
      <4>2. CASE ~rMeta.exists
        <5>1. CASE RecoveryMemberOf[t] \in rRecovery
          BY <5>1
        <5>2. CASE RecoveryMemberOf[t] \notin rRecovery
          BY <4>2
        <5> QED BY <5>2
      <4> QED BY <4>2
    <3>1. PICK b \in BOOLEAN : rCall' = [rCall EXCEPT ![t].at = "validate", ![t].again = b]
      BY <1>1, <3>0 DEF Recovery!RestoreRoom
    <3>2. rCall[t] = [at |-> rCall[t].at, old |-> rCall[t].old, todo |-> rCall[t].todo,
                      again |-> rCall[t].again]
      BY <1>0 DEF RecoveryTypes, RecoveryCalls
    <3>3. rCall'[t] = [at |-> "validate", old |-> rCall[t].old, todo |-> rCall[t].todo, again |-> b]
      BY <1>0, <3>1, <3>2 DEF RecoveryTypes
    <3>4. rCall[t].old \in SUBSET RecoveryFile /\ rCall[t].todo \in SUBSET RecoveryFile
      BY <1>0 DEF RecoveryTypes, RecoveryCalls
    <3>5. rCall'[t] \in RecoveryCalls
      BY <3>3, <3>4 DEF RecoveryCalls, Stages
    <3> QED BY <1>0, <3>1, <3>5 DEF RecoveryTypes, CallGoes
  <2>2. /\ rMeta' \in RecoveryMetas
        /\ rSweep = "idle"
        /\ UNCHANGED <<rSweep, rInRoom, rShows, rTree, rSnapshots, rRestored, rSettled>>
        /\ \/ UNCHANGED <<rMeta, rRemembered, rRecovery>>
           \/ /\ ~rMeta.exists /\ rMeta'.exists /\ rMeta'.key /\ rMeta'.status = "pending"
              /\ rRemembered' # {}
    <3>1. CASE ~rMeta.exists /\ RecoveryMemberOf[t] \in rRecovery
      <4>1. /\ rMeta' = [exists |-> TRUE, key |-> TRUE, fresh |-> TRUE, owner |-> RecoveryMemberOf[t],
                         status |-> "pending"]
            /\ rRemembered' = rRemembered \cup rRecovery
        BY <1>1, <3>1 DEF Recovery!RestoreRoom
      <4>2. rMeta' \in RecoveryMetas
        BY <4>1 DEF RecoveryMetas
      <4> QED BY <1>1, <4>2 DEF Recovery!RestoreRoom
    <3> QED BY <1>0, <1>1, <3>1 DEF Recovery!RestoreRoom, RecoveryTypes
  <2>3. RecoveryTypes'
    BY <1>0, <2>1, <2>2 DEF CallGoes, RecoveryTypes
  <2>4. SweptAlone'
    BY <2>2 DEF SweptAlone
  <2>5. EntersRoom'
    BY <1>0, <2>1, <2>2 DEF CallGoes, EntersRoom
  <2>6. MembersKept'
    BY <1>0, <2>2 DEF MembersKept
  <2>7. UploadsAlone'
    BY <1>0, <2>1, <2>2 DEF CallGoes, RecoveryTypes, UploadsAlone
  <2>8. UploadsText'
    BY <1>0, <2>1, <2>2 DEF CallGoes, UploadsText
  <2>9. CompleteMeansRestored'
    BY <1>0, <2>2 DEF CompleteMeansRestored, Recovery!CompleteMeansRestored
  <2> QED BY <2>3, <2>4, <2>5, <2>6, <2>7, <2>8, <2>9 DEF RecoveryInv
<1>2. ASSUME NEW t \in RecoveryTab, Recovery!Enter(t) PROVE RecoveryInv'
  <2>1. (CallGoes(t, "touch") /\ rMeta.key) \/ CallGoes(t, "idle")
    BY <1>0, <1>2, CallMoves, CallEnds DEF Recovery!Enter, Recovery!Now, Recovery!Done, RecoveryTypes,
      Stages
  <2>2. /\ rCall[t].at = "validate"
        /\ UNCHANGED <<rMeta, rRemembered, rRecovery, rTree, rSnapshots, rSweep, rInRoom, rShows, rRestored,
               rSettled>>
    BY <1>2 DEF Recovery!Enter
  <2>3. RecoveryTypes'
    BY <1>0, <2>1, <2>2 DEF CallGoes, RecoveryTypes
  <2>4. SweptAlone'
    BY <1>0, <2>2 DEF SweptAlone
  <2>5. EntersRoom'
    BY <1>0, <2>1, <2>2 DEF CallGoes, EntersRoom
  <2>6. MembersKept'
    BY <1>0, <2>2 DEF MembersKept
  <2>7. UploadsAlone'
    <3>1. \A u \in RecoveryTab : rCall'[u].at \in Uploading => rCall[u].at \in Uploading
      BY <2>1 DEF CallGoes
    <3> QED BY <1>0, <2>2, <3>1, UploadsStay
  <2>8. UploadsText'
    BY <1>0, <2>1, <2>2 DEF CallGoes, RecoveryTypes, SweptAlone, EntersRoom, MembersKept, UploadsText
  <2>9. CompleteMeansRestored'
    BY <1>0, <2>2 DEF CompleteMeansRestored, Recovery!CompleteMeansRestored
  <2> QED BY <2>3, <2>4, <2>5, <2>6, <2>7, <2>8, <2>9 DEF RecoveryInv
<1>3. ASSUME NEW t \in RecoveryTab, Recovery!Touch(t) PROVE RecoveryInv'
  <2>1. (rCall[t].at = "touch" /\ CallGoes(t, "save")) \/ CallGoes(t, "idle")
    BY <1>0, <1>3, CallMoves, CallEnds DEF Recovery!Touch, Recovery!Now, Recovery!Done, RecoveryTypes,
      Stages
  <2>2. /\ rMeta' \in RecoveryMetas /\ rMeta'.exists /\ rMeta'.key = rMeta.key
        /\ rMeta'.owner = rMeta.owner /\ rMeta'.status = rMeta.status
    BY <1>0, <1>3 DEF Recovery!Touch, RecoveryTypes, RecoveryMetas
  <2>3. /\ rCall[t].at \in {"touch", "touchOnly"}
        /\ UNCHANGED <<rRemembered, rRecovery, rTree, rSnapshots, rSweep, rInRoom, rShows, rRestored,
               rSettled>>
    BY <1>3 DEF Recovery!Touch
  <2>4. RecoveryTypes'
    BY <1>0, <2>1, <2>2, <2>3 DEF CallGoes, RecoveryTypes
  <2>5. SweptAlone'
    BY <1>0, <2>3 DEF SweptAlone
  <2>6. EntersRoom'
    BY <1>0, <2>1, <2>2 DEF CallGoes, EntersRoom
  <2>7. MembersKept'
    BY <1>0, <2>2, <2>3 DEF MembersKept
  <2>8. UploadsAlone'
    <3>1. \A u \in RecoveryTab : rCall'[u].at \in Uploading => rCall[u].at \in Uploading
      BY <2>1 DEF CallGoes
    <3> QED BY <1>0, <2>2, <3>1, UploadsStay
  <2>9. UploadsText'
    BY <1>0, <2>1, <2>2, <2>3 DEF CallGoes, UploadsText
  <2>10. CompleteMeansRestored'
    BY <1>0, <2>2, <2>3 DEF CompleteMeansRestored, Recovery!CompleteMeansRestored
  <2> QED BY <2>4, <2>5, <2>6, <2>7, <2>8, <2>9, <2>10 DEF RecoveryInv
<1>4. ASSUME NEW t \in RecoveryTab, Recovery!SaveMember(t) PROVE RecoveryInv'
  <2>1. CallGoes(t, "idle")
    BY <1>0, <1>4, CallEnds DEF Recovery!SaveMember, Recovery!Done, RecoveryTypes
  <2>2. /\ rCall[t].at = "save"
        /\ rRemembered' # {}
        /\ rInRoom' \in [RecoveryTab -> BOOLEAN]
        /\ rShows' \in [RecoveryTab -> SUBSET RecoveryFile]
        /\ UNCHANGED <<rMeta, rRecovery, rTree, rSnapshots, rSweep, rRestored>>
    BY <1>0, <1>4 DEF Recovery!SaveMember, RecoveryTypes
  <2>3. RecoveryTypes'
    BY <1>0, <2>1, <2>2 DEF CallGoes, RecoveryTypes
  <2>4. SweptAlone'
    BY <1>0, <2>2 DEF SweptAlone
  <2>5. EntersRoom'
    BY <1>0, <2>2 DEF EntersRoom
  <2>6. MembersKept'
    BY <1>0, <2>2 DEF SweptAlone, EntersRoom, MembersKept
  <2>7. UploadsAlone'
    <3>1. \A u \in RecoveryTab : rCall'[u].at \in Uploading => rCall[u].at \in Uploading
      BY <2>1 DEF CallGoes
    <3> QED BY <1>0, <2>2, <3>1, UploadsStay
  <2>8. UploadsText'
    BY <1>0, <2>1, <2>2 DEF CallGoes, RecoveryTypes, SweptAlone, EntersRoom, MembersKept, UploadsText
  <2>9. CompleteMeansRestored'
    BY <1>0, <2>2 DEF CompleteMeansRestored, Recovery!CompleteMeansRestored
  <2> QED BY <2>3, <2>4, <2>5, <2>6, <2>7, <2>8, <2>9 DEF RecoveryInv
<1>5. ASSUME NEW t \in RecoveryTab, Recovery!Leave(t) PROVE RecoveryInv'
  <2>1. /\ rInRoom' \in [RecoveryTab -> BOOLEAN]
        /\ \A u \in RecoveryTab : rInRoom'[u] => rInRoom[u]
        /\ UNCHANGED <<rCall, rMeta, rRemembered, rRecovery, rTree, rSnapshots, rSweep, rShows, rRestored,
               rSettled>>
    BY <1>0, <1>5 DEF Recovery!Leave, RecoveryTypes
  <2>2. RecoveryTypes'
    BY <1>0, <2>1 DEF RecoveryTypes
  <2>3. SweptAlone'
    BY <1>0, <2>1 DEF SweptAlone
  <2>4. EntersRoom'
    BY <1>0, <2>1 DEF EntersRoom
  <2>5. MembersKept'
    BY <1>0, <2>1 DEF MembersKept
  <2>6. UploadsAlone'
    BY <1>0, <2>1 DEF UploadsAlone
  <2>7. UploadsText'
    BY <1>0, <2>1 DEF UploadsText
  <2>8. CompleteMeansRestored'
    BY <1>0, <2>1 DEF CompleteMeansRestored, Recovery!CompleteMeansRestored
  <2> QED BY <2>2, <2>3, <2>4, <2>5, <2>6, <2>7, <2>8 DEF RecoveryInv
<1>6. ASSUME NEW t \in RecoveryTab, Recovery!BeginRestore(t) PROVE RecoveryInv'
  <2>1. \/ /\ CallGoes(t, "save files") /\ rMeta' \in RecoveryMetas /\ rMeta'.status = "running"
           /\ rMeta'.exists = rMeta.exists /\ rMeta'.key = rMeta.key /\ rMeta'.owner = RecoveryMemberOf[t]
           /\ rMeta.status = "pending"
        \/ UNCHANGED <<rMeta, rCall>>
    <3>1. CASE Recovery!Pending(t)
      <4> DEFINE new == [Recovery!NoCall EXCEPT !.at = "save files", !.old = rTree, !.todo = rShows[t]]
      <4>1. rMeta' = [rMeta EXCEPT !.status = "running"] /\ rCall' = [rCall EXCEPT ![t] = new]
        BY <1>6, <3>1 DEF Recovery!BeginRestore
      <4>2. new \in RecoveryCalls /\ new.at = "save files"
        BY <1>0 DEF RecoveryTypes, RecoveryCalls, Stages, Recovery!NoCall
      <4> HIDE DEF new
      <4>3. CallGoes(t, "save files")
        BY <1>0, <4>1, <4>2 DEF RecoveryTypes, CallGoes
      <4> QED BY <1>0, <3>1, <4>1, <4>3, StatusMoves DEF RecoveryTypes, Recovery!Pending
    <3> QED BY <1>6, <3>1 DEF Recovery!BeginRestore
  <2>2. /\ rInRoom[t]
        /\ UNCHANGED <<rRemembered, rRecovery, rTree, rSnapshots, rSweep, rInRoom, rShows, rRestored,
               rSettled>>
    BY <1>6 DEF Recovery!BeginRestore
  <2>3. RecoveryTypes'
    BY <1>0, <2>1, <2>2 DEF CallGoes, RecoveryTypes
  <2>4. SweptAlone'
    BY <1>0, <2>2 DEF SweptAlone
  <2>5. EntersRoom'
    BY <1>0, <2>1 DEF CallGoes, EntersRoom
  <2>6. MembersKept'
    BY <1>0, <2>1, <2>2 DEF MembersKept
  <2>7. UploadsAlone'
    BY <1>0, <2>1, <2>2 DEF CallGoes, RecoveryTypes, SweptAlone, EntersRoom, MembersKept, UploadsAlone,
      UploadsText, CompleteMeansRestored, Recovery!CompleteMeansRestored
  <2>8. UploadsText'
    BY <1>0, <2>1, <2>2 DEF CallGoes, UploadsText
  <2>9. CompleteMeansRestored'
    BY <1>0, <2>1, <2>2 DEF CompleteMeansRestored, Recovery!CompleteMeansRestored
  <2> QED BY <2>3, <2>4, <2>5, <2>6, <2>7, <2>8, <2>9 DEF RecoveryInv
<1>7. ASSUME NEW t \in RecoveryTab, Recovery!SaveFiles(t) PROVE RecoveryInv'
  <2>1. \/ /\ CallGoes(t, "complete")
           /\ rCall[t].todo = {}
        \/ /\ CallGoes(t, "append")
           /\ rCall[t].todo \subseteq rSnapshots'
        \/ CallGoes(t, "cancel")
    BY <1>0, <1>7, CallMoves DEF Recovery!SaveFiles, Recovery!Now, RecoveryTypes, Stages
  <2>2. /\ rCall[t].at = "save files"
        /\ rSnapshots \subseteq rSnapshots'
        /\ UNCHANGED <<rMeta, rRemembered, rRecovery, rTree, rSweep, rInRoom, rShows, rRestored, rSettled>>
    BY <1>7 DEF Recovery!SaveFiles
  <2>3. RecoveryTypes'
    BY <1>0, <2>1, <2>2 DEF CallGoes, RecoveryTypes
  <2>4. SweptAlone'
    BY <1>0, <2>2 DEF SweptAlone
  <2>5. EntersRoom'
    BY <1>0, <2>1, <2>2 DEF CallGoes, EntersRoom
  <2>6. MembersKept'
    BY <1>0, <2>2 DEF MembersKept
  <2>7. UploadsAlone'
    <3>1. \A u \in RecoveryTab : rCall'[u].at \in Uploading => rCall[u].at \in Uploading
      BY <2>1, <2>2 DEF CallGoes
    <3> QED BY <1>0, <2>2, <3>1, UploadsStay
  <2>8. UploadsText'
    BY <1>0, <2>1, <2>2 DEF CallGoes, RecoveryTypes, SweptAlone, EntersRoom, MembersKept, UploadsText
  <2>9. CompleteMeansRestored'
    BY <1>0, <2>2 DEF CompleteMeansRestored, Recovery!CompleteMeansRestored
  <2> QED BY <2>3, <2>4, <2>5, <2>6, <2>7, <2>8, <2>9 DEF RecoveryInv
<1>8. ASSUME NEW t \in RecoveryTab, Recovery!CompleteRestore(t) PROVE RecoveryInv'
  <2>1. CallGoes(t, "idle")
    BY <1>0, <1>8, CallEnds DEF Recovery!CompleteRestore, Recovery!Done, RecoveryTypes
  <2>2. /\ rMeta' \in RecoveryMetas /\ rMeta'.status = "complete"
        /\ rMeta'.exists = rMeta.exists /\ rMeta'.key = rMeta.key
    BY <1>0, <1>8, StatusMoves DEF Recovery!CompleteRestore, RecoveryTypes, UploadsAlone
  <2>3. /\ rCall[t].at \in Uploading
        /\ rRestored' \subseteq rTree \cap rSnapshots'
        /\ UNCHANGED <<rRemembered, rRecovery, rTree, rSweep, rInRoom, rShows, rSettled>>
    BY <1>0, <1>8 DEF Recovery!CompleteRestore, UploadsText
  <2>4. RecoveryTypes'
    BY <1>0, <2>1, <2>2, <2>3 DEF CallGoes, RecoveryTypes
  <2>5. SweptAlone'
    BY <1>0, <2>3 DEF SweptAlone
  <2>6. EntersRoom'
    BY <1>0, <2>1, <2>2 DEF CallGoes, EntersRoom
  <2>7. MembersKept'
    BY <1>0, <2>2, <2>3 DEF MembersKept
  <2>8. UploadsAlone'
    BY <1>0, <2>1, <2>2, <2>3 DEF CallGoes, UploadsAlone
  <2>9. UploadsText'
    BY <1>0, <2>1, <2>2, <2>3 DEF CallGoes, UploadsAlone, UploadsText
  <2>10. CompleteMeansRestored'
    BY <2>3 DEF CompleteMeansRestored, Recovery!CompleteMeansRestored
  <2> QED BY <2>4, <2>5, <2>6, <2>7, <2>8, <2>9, <2>10 DEF RecoveryInv
<1>9. ASSUME NEW t \in RecoveryTab, Recovery!Fail(t) PROVE RecoveryInv'
  <2>1. CallGoes(t, "cancel")
    BY <1>0, <1>9, CallMoves DEF Recovery!Fail, Recovery!Now, RecoveryTypes, Stages
  <2>2. /\ rCall[t].at \in Uploading
        /\ UNCHANGED <<rMeta, rRemembered, rRecovery, rTree, rSnapshots, rSweep, rInRoom, rShows, rRestored,
               rSettled>>
    BY <1>9 DEF Recovery!Fail
  <2>3. RecoveryTypes'
    BY <1>0, <2>1, <2>2 DEF CallGoes, RecoveryTypes
  <2>4. SweptAlone'
    BY <1>0, <2>2 DEF SweptAlone
  <2>5. EntersRoom'
    BY <1>0, <2>1, <2>2 DEF CallGoes, EntersRoom
  <2>6. MembersKept'
    BY <1>0, <2>2 DEF MembersKept
  <2>7. UploadsAlone'
    BY <1>0, <2>1, <2>2 DEF CallGoes, SweptAlone, UploadsAlone
  <2>8. UploadsText'
    BY <1>0, <2>1, <2>2 DEF CallGoes, RecoveryTypes, SweptAlone, EntersRoom, MembersKept, UploadsText
  <2>9. CompleteMeansRestored'
    BY <1>0, <2>2 DEF CompleteMeansRestored, Recovery!CompleteMeansRestored
  <2> QED BY <2>3, <2>4, <2>5, <2>6, <2>7, <2>8, <2>9 DEF RecoveryInv
<1>10. ASSUME NEW t \in RecoveryTab, Recovery!CancelRestore(t) PROVE RecoveryInv'
  <2>1. CallGoes(t, "idle")
    BY <1>0, <1>10, CallEnds DEF Recovery!CancelRestore, Recovery!Done, RecoveryTypes
  <2>2. /\ rMeta' \in RecoveryMetas /\ rMeta'.status = "pending"
        /\ rMeta'.exists = rMeta.exists /\ rMeta'.key = rMeta.key
    BY <1>0, <1>10, StatusMoves DEF Recovery!CancelRestore, RecoveryTypes, UploadsAlone
  <2>3. /\ rCall[t].at \in Uploading
        /\ UNCHANGED <<rRemembered, rRecovery, rTree, rSnapshots, rSweep, rInRoom, rShows, rRestored,
               rSettled>>
    BY <1>10 DEF Recovery!CancelRestore
  <2>4. RecoveryTypes'
    BY <1>0, <2>1, <2>2, <2>3 DEF CallGoes, RecoveryTypes
  <2>5. SweptAlone'
    BY <1>0, <2>3 DEF SweptAlone
  <2>6. EntersRoom'
    BY <1>0, <2>1, <2>2 DEF CallGoes, EntersRoom
  <2>7. MembersKept'
    BY <1>0, <2>2, <2>3 DEF MembersKept
  <2>8. UploadsAlone'
    BY <1>0, <2>1, <2>2, <2>3 DEF CallGoes, UploadsAlone
  <2>9. UploadsText'
    BY <1>0, <2>1, <2>2, <2>3 DEF CallGoes, UploadsText
  <2>10. CompleteMeansRestored'
    BY <2>2 DEF CompleteMeansRestored, Recovery!CompleteMeansRestored
  <2> QED BY <2>4, <2>5, <2>6, <2>7, <2>8, <2>9, <2>10 DEF RecoveryInv
<1>11. ASSUME NEW t \in RecoveryTab, NEW f \in RecoveryFile, Recovery!Work(t, f) PROVE RecoveryInv'
  <2>1. CallGoes(t, "touchOnly")
    BY <1>0, <1>11, CallMoves DEF Recovery!Work, Recovery!Now, RecoveryTypes, Stages
  <2>2. /\ rCall[t].at = "idle"
        /\ rInRoom[t]
        /\ rTree \subseteq rTree' /\ rTree' \subseteq RecoveryFile /\ rSnapshots \subseteq rSnapshots'
        /\ rShows' \in [RecoveryTab -> SUBSET RecoveryFile]
        /\ UNCHANGED <<rMeta, rRemembered, rRecovery, rSweep, rInRoom, rRestored, rSettled>>
    BY <1>0, <1>11 DEF Recovery!Work, RecoveryTypes
  <2>3. RecoveryTypes'
    BY <1>0, <2>1, <2>2 DEF CallGoes, RecoveryTypes
  <2>4. SweptAlone'
    BY <1>0, <2>2 DEF SweptAlone
  <2>5. EntersRoom'
    BY <1>0, <2>1, <2>2 DEF CallGoes, EntersRoom
  <2>6. MembersKept'
    BY <1>0, <2>2 DEF MembersKept
  <2>7. UploadsAlone'
    <3>1. \A u \in RecoveryTab : rCall'[u].at \in Uploading => rCall[u].at \in Uploading
      BY <2>1 DEF CallGoes
    <3> QED BY <1>0, <2>2, <3>1, UploadsStay
  <2>8. UploadsText'
    BY <1>0, <2>1, <2>2 DEF CallGoes, RecoveryTypes, SweptAlone, EntersRoom, MembersKept, UploadsText
  <2>9. CompleteMeansRestored'
    BY <1>0, <2>2 DEF CompleteMeansRestored, Recovery!CompleteMeansRestored
  <2> QED BY <2>3, <2>4, <2>5, <2>6, <2>7, <2>8, <2>9 DEF RecoveryInv
<1>12. ASSUME NEW t \in RecoveryTab, NEW f \in RecoveryFile, Recovery!AppendImport(t, f) PROVE RecoveryInv'
  <2>1. CallGoes(t, "cancel") \/ UNCHANGED rCall
    BY <1>0, <1>12, CallMoves DEF Recovery!AppendImport, Recovery!Now, RecoveryTypes, Stages
  <2>2. /\ rCall[t].at = "append"
        /\ rTree' \subseteq RecoveryFile
        /\ UNCHANGED <<rMeta, rRemembered, rRecovery, rSnapshots, rSweep, rInRoom, rShows, rRestored,
               rSettled>>
    BY <1>0, <1>12 DEF Recovery!AppendImport, RecoveryTypes
  <2>3. RecoveryTypes'
    BY <1>0, <2>1, <2>2 DEF CallGoes, RecoveryTypes
  <2>4. SweptAlone'
    BY <1>0, <2>2 DEF SweptAlone
  <2>5. EntersRoom'
    BY <1>0, <2>1, <2>2 DEF CallGoes, EntersRoom
  <2>6. MembersKept'
    BY <1>0, <2>2 DEF MembersKept
  <2>7. UploadsAlone'
    <3>1. \A u \in RecoveryTab : rCall'[u].at \in Uploading => rCall[u].at \in Uploading
      BY <2>1, <2>2 DEF CallGoes
    <3> QED BY <1>0, <2>2, <3>1, UploadsStay
  <2>8. UploadsText'
    BY <1>0, <2>1, <2>2 DEF CallGoes, RecoveryTypes, SweptAlone, EntersRoom, MembersKept, UploadsText
  <2>9. CompleteMeansRestored'
    BY <1>0, <2>2 DEF CompleteMeansRestored, Recovery!CompleteMeansRestored
  <2> QED BY <2>3, <2>4, <2>5, <2>6, <2>7, <2>8, <2>9 DEF RecoveryInv
<1>13. CASE Recovery!Expire
  <2>1. RecoveryTypes'
    BY <1>0, <1>13 DEF Recovery!Expire, RecoveryTypes, RecoveryMetas
  <2>2. SweptAlone'
    BY <1>13 DEF Recovery!Expire, SweptAlone
  <2>3. EntersRoom'
    BY <1>13 DEF Recovery!Expire, EntersRoom
  <2>4. MembersKept'
    BY <1>0, <1>13 DEF Recovery!Expire, RecoveryTypes, MembersKept, RecoveryMetas
  <2>5. UploadsAlone'
    BY <1>0, <1>13 DEF Recovery!Expire, RecoveryTypes, UploadsAlone, RecoveryMetas
  <2>6. UploadsText'
    BY <1>13 DEF Recovery!Expire, UploadsText
  <2>7. CompleteMeansRestored'
    BY <1>0, <1>13 DEF Recovery!Expire, RecoveryTypes, CompleteMeansRestored,
      Recovery!CompleteMeansRestored, RecoveryMetas
  <2> QED BY <2>1, <2>2, <2>3, <2>4, <2>5, <2>6, <2>7 DEF RecoveryInv
<1>14. CASE Recovery!FindStale
  <2>1. RecoveryTypes'
    BY <1>0, <1>14 DEF Recovery!FindStale, RecoveryTypes
  <2>2. SweptAlone'
    BY <1>14 DEF Recovery!FindStale, SweptAlone
  <2>3. EntersRoom'
    BY <1>14 DEF Recovery!FindStale, EntersRoom
  <2>4. MembersKept'
    BY <1>0, <1>14 DEF Recovery!FindStale, MembersKept
  <2>5. UploadsAlone'
    BY <1>14 DEF Recovery!FindStale, UploadsAlone
  <2>6. UploadsText'
    BY <1>14 DEF Recovery!FindStale, UploadsText
  <2>7. CompleteMeansRestored'
    BY <1>0, <1>14 DEF Recovery!FindStale, CompleteMeansRestored, Recovery!CompleteMeansRestored
  <2> QED BY <2>1, <2>2, <2>3, <2>4, <2>5, <2>6, <2>7 DEF RecoveryInv
<1>15. CASE Recovery!RemovePeople
  <2>1. RecoveryTypes'
    BY <1>0, <1>15 DEF Recovery!RemovePeople, RecoveryTypes
  <2>2. SweptAlone'
    BY <1>0, <1>15 DEF Recovery!RemovePeople, SweptAlone
  <2>3. EntersRoom'
    BY <1>0, <1>15 DEF Recovery!RemovePeople, EntersRoom
  <2>4. MembersKept'
    BY <1>0, <1>15 DEF Recovery!RemovePeople, MembersKept
  <2>5. UploadsAlone'
    BY <1>0, <1>15 DEF Recovery!RemovePeople, UploadsAlone
  <2>6. UploadsText'
    BY <1>0, <1>15 DEF Recovery!RemovePeople, UploadsText
  <2>7. CompleteMeansRestored'
    BY <1>0, <1>15 DEF Recovery!RemovePeople, CompleteMeansRestored, Recovery!CompleteMeansRestored
  <2> QED BY <2>1, <2>2, <2>3, <2>4, <2>5, <2>6, <2>7 DEF RecoveryInv
<1>16. CASE Recovery!Archive
  <2>1. RecoveryTypes'
    BY <1>0, <1>16 DEF Recovery!Archive, RecoveryTypes
  <2>2. SweptAlone'
    BY <1>0, <1>16 DEF Recovery!Archive, SweptAlone
  <2>3. EntersRoom'
    BY <1>0, <1>16 DEF Recovery!Archive, EntersRoom
  <2>4. MembersKept'
    BY <1>0, <1>16 DEF Recovery!Archive, MembersKept
  <2>5. UploadsAlone'
    BY <1>0, <1>16 DEF Recovery!Archive, UploadsAlone
  <2>6. UploadsText'
    BY <1>0, <1>16 DEF Recovery!Archive, UploadsText
  <2>7. CompleteMeansRestored'
    BY <1>0, <1>16 DEF Recovery!Archive, CompleteMeansRestored, Recovery!CompleteMeansRestored
  <2> QED BY <2>1, <2>2, <2>3, <2>4, <2>5, <2>6, <2>7 DEF RecoveryInv
<1>17. CASE Recovery!DeleteMeta
  <2>1. RecoveryTypes'
    BY <1>0, <1>17 DEF Recovery!DeleteMeta, RecoveryTypes, RecoveryMetas, Recovery!NoMeta
  <2>2. SweptAlone'
    BY <1>0, <1>17 DEF Recovery!DeleteMeta, SweptAlone
  <2>3. EntersRoom'
    BY <1>0, <1>17 DEF Recovery!DeleteMeta, SweptAlone, EntersRoom
  <2>4. MembersKept'
    BY <1>0, <1>17 DEF Recovery!DeleteMeta, MembersKept
  <2>5. UploadsAlone'
    BY <1>0, <1>17 DEF Recovery!DeleteMeta, SweptAlone, UploadsAlone, Recovery!NoMeta
  <2>6. UploadsText'
    BY <1>0, <1>17 DEF Recovery!DeleteMeta, UploadsText
  <2>7. CompleteMeansRestored'
    BY <1>17 DEF Recovery!DeleteMeta, CompleteMeansRestored, Recovery!CompleteMeansRestored,
      Recovery!NoMeta
  <2> QED BY <2>1, <2>2, <2>3, <2>4, <2>5, <2>6, <2>7 DEF RecoveryInv
<1>18. CASE Recovery!DeleteRest
  <2>1. RecoveryTypes'
    BY <1>0, <1>18 DEF Recovery!DeleteRest, RecoveryTypes
  <2>2. SweptAlone'
    BY <1>0, <1>18 DEF Recovery!DeleteRest, SweptAlone
  <2>3. EntersRoom'
    BY <1>0, <1>18 DEF Recovery!DeleteRest, EntersRoom
  <2>4. MembersKept'
    BY <1>0, <1>18 DEF Recovery!DeleteRest, MembersKept
  <2>5. UploadsAlone'
    BY <1>0, <1>18 DEF Recovery!DeleteRest, UploadsAlone
  <2>6. UploadsText'
    BY <1>0, <1>18 DEF Recovery!DeleteRest, SweptAlone, UploadsText
  <2>7. CompleteMeansRestored'
    BY <1>18 DEF Recovery!DeleteRest, CompleteMeansRestored, Recovery!CompleteMeansRestored
  <2> QED BY <2>1, <2>2, <2>3, <2>4, <2>5, <2>6, <2>7 DEF RecoveryInv
<1>19. CASE Recovery!Crash
  <2>1. RecoveryTypes'
    BY <1>0, <1>19 DEF Recovery!Crash, RecoveryTypes, Stages, RecoveryCalls, Recovery!NoCall
  <2>2. SweptAlone'
    BY <1>19 DEF Recovery!Crash, SweptAlone
  <2>3. EntersRoom'
    BY <1>19 DEF Recovery!Crash, EntersRoom, Recovery!NoCall
  <2>4. MembersKept'
    BY <1>0, <1>19 DEF Recovery!Crash, MembersKept
  <2>5. UploadsAlone'
    BY <1>0, <1>19 DEF Recovery!Crash, UploadsAlone, Recovery!NoCall
  <2>6. UploadsText'
    BY <1>19 DEF Recovery!Crash, UploadsText, Recovery!NoCall
  <2>7. CompleteMeansRestored'
    BY <1>0, <1>19 DEF Recovery!Crash, CompleteMeansRestored, Recovery!CompleteMeansRestored
  <2> QED BY <2>1, <2>2, <2>3, <2>4, <2>5, <2>6, <2>7 DEF RecoveryInv
<1>20. CASE UNCHANGED Recovery!vars
  <2>1. RecoveryTypes'
    BY <1>0, <1>20 DEF Recovery!vars, RecoveryTypes
  <2>2. SweptAlone'
    BY <1>0, <1>20 DEF Recovery!vars, SweptAlone
  <2>3. EntersRoom'
    BY <1>0, <1>20 DEF Recovery!vars, EntersRoom
  <2>4. MembersKept'
    BY <1>0, <1>20 DEF Recovery!vars, MembersKept
  <2>5. UploadsAlone'
    BY <1>0, <1>20 DEF Recovery!vars, UploadsAlone
  <2>6. UploadsText'
    BY <1>0, <1>20 DEF Recovery!vars, UploadsText
  <2>7. CompleteMeansRestored'
    BY <1>0, <1>20 DEF Recovery!vars, CompleteMeansRestored, Recovery!CompleteMeansRestored
  <2> QED BY <2>1, <2>2, <2>3, <2>4, <2>5, <2>6, <2>7 DEF RecoveryInv
<1> QED BY <1>1, <1>2, <1>3, <1>4, <1>5, <1>6, <1>7, <1>8, <1>9, <1>10, <1>11, <1>12, <1>13, <1>14,
  <1>15, <1>16, <1>17, <1>18, <1>19, <1>20 DEF Recovery!Next

LEMMA RecoveryInit == ASSUME Recovery!Init PROVE RecoveryInv
BY DEF Recovery!Init, Recovery!NoMeta, Recovery!NoCall, RecoveryInv, RecoveryTypes, SweptAlone,
  EntersRoom, MembersKept, UploadsAlone, UploadsText, Uploading, CompleteMeansRestored,
  Recovery!CompleteMeansRestored, Stages, RecoveryCalls, RecoveryMetas

\* Whoever was in the room can come back, wherever a sweep or the server stops, for
\* any members, files, failures, crashes and expiries.
THEOREM MembersCanAlwaysReturn ==
  ASSUME RecoveryCalmSweeps
  PROVE  Recovery!Spec => []MembersCanReturn
<1>1. RecoveryInv => MembersCanReturn
  BY DEF RecoveryInv, MembersKept, MembersCanReturn, Recovery!MembersCanReturn
<1>2. RecoveryInv /\ [Recovery!Next]_(Recovery!vars) => RecoveryInv'
  BY ProjectAssumption, RecoveryStep
<1>3. Recovery!Init => RecoveryInv
  BY RecoveryInit
<1> QED BY <1>1, <1>2, <1>3, PTL DEF Recovery!Spec

\* A recovery that is marked as complete has every file of the tab that uploaded it,
\* with its text, whatever was tried before.
THEOREM CompleteAlwaysRestored ==
  ASSUME RecoveryCalmSweeps
  PROVE  Recovery!Spec => []CompleteMeansRestored
<1>1. RecoveryInv => CompleteMeansRestored
  BY DEF RecoveryInv
<1>2. RecoveryInv /\ [Recovery!Next]_(Recovery!vars) => RecoveryInv'
  BY ProjectAssumption, RecoveryStep
<1>3. Recovery!Init => RecoveryInv
  BY RecoveryInit
<1> QED BY <1>1, <1>2, <1>3, PTL DEF Recovery!Spec

-----------------------------------------------------------------------------
(* ProjectImport: an identifier that is not created yet is of one import only, *)
(* so undoing one import takes no text from another; and what the tabs were     *)
(* told, with what imports under way have changed, is what the server lists.   *)

ImportsFile == Nat \X ImportsPath

ImportsJobs ==
  [at : {"idle", "prepare", "plan", "save", "append"}, files : SUBSET ImportsFile,
   paths : SUBSET ImportsPath, base : SUBSET ImportsPath, replace : BOOLEAN,
   old : SUBSET ImportsFile, new : SUBSET ImportsFile, before : SUBSET ImportsFile,
   saved : SUBSET ImportsFile, changed : SUBSET ImportsFile]

ImportsTypes ==
  /\ iImports \in Nat /\ iJob \in [ImportsTab -> ImportsJobs]
  /\ iTold \in [ImportsTab -> [created : SUBSET ImportsFile, deleted : SUBSET ImportsFile]]

\* What an import has not come to is empty.
JobsByStage ==
  \A t \in ImportsTab :
    /\ iJob[t].at \in {"idle", "prepare", "plan"} => iJob[t].new = {} /\ iJob[t].saved = {}
    /\ iJob[t].at # "append" => iJob[t].changed = {}
    /\ iJob[t].at = "append" => iJob[t].saved = iJob[t].files

\* Identifiers carry the number of an import that has begun.
IdsBegun ==
  /\ \A f \in iCreated : f \in ImportsFile /\ f[1] <= iImports
  /\ \A t \in ImportsTab : \A f \in iJob[t].files : f[1] <= iImports

\* What is listed, deleted, changed or shown was created.
AllCreated ==
  /\ iEntries \subseteq iCreated
  /\ \A t \in ImportsTab :
       /\ iJob[t].old \subseteq iCreated /\ iJob[t].changed \subseteq iCreated
       /\ iJob[t].new \subseteq iJob[t].files /\ iJob[t].saved \subseteq iJob[t].files
       /\ iTold[t].created \subseteq iCreated /\ iTold[t].deleted \subseteq iCreated

\* A file of two imports was there before one of them.
SharedCreated ==
  \A t, u \in ImportsTab : t # u => iJob[t].files \cap iJob[u].files \subseteq iCreated

\* An import that replaces the workspace makes all its identifiers.
ReplacingMakes ==
  \A t \in ImportsTab : iJob[t].at = "plan" /\ iJob[t].replace => iJob[t].files \cap iCreated = {}

\* What is listed has its text, also what an import is about to create; and what
\* an import would take back is not listed.
TextsStored ==
  /\ iEntries \subseteq iStored
  /\ \A t \in ImportsTab :
       /\ iJob[t].saved \ iCreated \subseteq iStored
       /\ iJob[t].at = "save" => (iJob[t].files \ iJob[t].before) \cap iEntries = {}

\* What was created and deleted is known to the tabs or is a change of an import under way.
ToldOrUnderWay ==
  ~iStopped => \A t \in ImportsTab, f \in iCreated :
    /\ f \in iTold[t].created \/ \E u \in ImportsTab : f \in iJob[u].changed \cap iJob[u].new
    /\ f \notin iEntries <=>
         f \in iTold[t].deleted \/ \E u \in ImportsTab : f \in iJob[u].changed \cap iJob[u].old

ImportsInv ==
  /\ ImportsTypes /\ JobsByStage /\ IdsBegun /\ AllCreated /\ SharedCreated /\ ReplacingMakes
  /\ TextsStored /\ ToldOrUnderWay

\* The import of one tab has done nothing: it has ended or not begun.
JobEmpty(t) ==
  /\ iJob' \in [ImportsTab -> ImportsJobs] /\ iJob'[t].at \in {"idle", "prepare"}
  /\ iJob'[t].files = {} /\ iJob'[t].old = {} /\ iJob'[t].new = {} /\ iJob'[t].saved = {}
  /\ iJob'[t].changed = {} /\ \A u \in ImportsTab \ {t} : iJob'[u] = iJob[u]

LEMMA JobEnds ==
  ASSUME iJob \in [ImportsTab -> ImportsJobs], NEW t \in ImportsTab, Imports!End(t)
  PROVE  JobEmpty(t)
<1>1. Imports!NoJob \in ImportsJobs
  BY DEF Imports!NoJob, ImportsJobs
<1>2. iJob' = [iJob EXCEPT ![t] = Imports!NoJob]
  BY DEF Imports!End
<1> QED BY <1>1, <1>2 DEF JobEmpty, Imports!NoJob

LEMMA JobFields ==
  ASSUME NEW j \in ImportsJobs
  PROVE  j = [at |-> j.at, files |-> j.files, paths |-> j.paths, base |-> j.base,
              replace |-> j.replace, old |-> j.old, new |-> j.new, before |-> j.before,
              saved |-> j.saved, changed |-> j.changed]
BY DEF ImportsJobs

\* The import of one tab changes.
OnlyJob(t) ==
  /\ iJob' \in [ImportsTab -> ImportsJobs]
  /\ \A u \in ImportsTab \ {t} : iJob'[u] = iJob[u]

\* An import that ends or begins keeps the invariant, also when it takes back the
\* texts it saved, unless it has changed the tree: then the history says so.
LEMMA EndKeeps ==
  ASSUME ImportsInv, NEW t \in ImportsTab, JobEmpty(t),
         UNCHANGED <<iEntries, iCreated, iTold, iImports>>,
         iStored' = iStored \/ (iJob[t].at = "save" /\ iStored' = Imports!Restored(t)),
         iStopped \/ iJob[t].at = "append" => iStopped'
  PROVE  ImportsInv'
<1>0. /\ ImportsTypes /\ JobsByStage /\ IdsBegun /\ AllCreated /\ SharedCreated /\ ReplacingMakes
      /\ TextsStored /\ ToldOrUnderWay
  BY DEF ImportsInv
<1>1. ImportsTypes'
  BY <1>0 DEF ImportsTypes, JobEmpty
<1>2. JobsByStage'
  BY <1>0 DEF JobsByStage, JobEmpty
<1>3. IdsBegun'
  BY <1>0 DEF IdsBegun, JobEmpty
<1>4. AllCreated'
  BY <1>0 DEF AllCreated, JobEmpty
<1>5. SharedCreated'
  BY <1>0 DEF SharedCreated, JobEmpty
<1>6. ReplacingMakes'
  BY <1>0 DEF ReplacingMakes, JobEmpty
<1>7. TextsStored'
  <2>1. CASE iStored' = iStored
    BY <1>0, <2>1 DEF TextsStored, JobEmpty
  <2>2. CASE iJob[t].at = "save" /\ iStored' = Imports!Restored(t)
    <3>1. iStored \ (iJob[t].files \ iJob[t].before) \subseteq iStored'
      BY <2>2 DEF Imports!Restored
    <3>2. iEntries' \subseteq iStored'
      BY <1>0, <2>2, <3>1 DEF TextsStored
    <3>3. ASSUME NEW u \in ImportsTab PROVE iJob'[u].saved \ iCreated' \subseteq iStored'
      <4>1. CASE u = t
        BY <4>1 DEF JobEmpty
      <4>2. CASE u # t
        BY <1>0, <3>1, <4>2 DEF JobEmpty, TextsStored, SharedCreated, AllCreated
      <4> QED BY <4>1, <4>2
    <3>4. ASSUME NEW u \in ImportsTab, iJob'[u].at = "save"
          PROVE  (iJob'[u].files \ iJob'[u].before) \cap iEntries' = {}
      BY <1>0, <3>4 DEF JobEmpty, TextsStored
    <3> QED BY <3>2, <3>3, <3>4 DEF TextsStored
  <2> QED BY <2>1, <2>2
<1>8. ToldOrUnderWay'
  <2>1. SUFFICES ASSUME ~iStopped' PROVE ToldOrUnderWay'
    BY DEF ToldOrUnderWay
  <2>2. ~iStopped /\ iJob[t].changed = {}
    BY <1>0, <2>1 DEF JobsByStage
  <2>3. \A u \in ImportsTab : /\ iJob'[u].changed \cap iJob'[u].new = iJob[u].changed \cap iJob[u].new
                              /\ iJob'[u].changed \cap iJob'[u].old = iJob[u].changed \cap iJob[u].old
    BY <2>2 DEF JobEmpty
  <2> QED BY <1>0, <2>2, <2>3 DEF ToldOrUnderWay
<1> QED BY <1>1, <1>2, <1>3, <1>4, <1>5, <1>6, <1>7, <1>8 DEF ImportsInv

LEMMA JobPicked ==
  ASSUME NEW paths, NEW base, NEW replace, NEW j,
         j = [Imports!NoJob EXCEPT !.at = "prepare", !.paths = paths, !.replace = replace, !.base = base]
  PROVE  j = [at |-> "prepare", files |-> {}, paths |-> paths, base |-> base, replace |-> replace,
              old |-> {}, new |-> {}, before |-> {}, saved |-> {}, changed |-> {}]
BY DEF Imports!NoJob

LEMMA PickKeeps ==
  ASSUME ImportsInv, NEW t \in ImportsTab, NEW picked \in SUBSET ImportsPath, NEW paths \in SUBSET picked,
         NEW replace \in BOOLEAN, NEW repository \in BOOLEAN,
         Imports!Pick(t, picked, paths, replace, repository)
  PROVE  ImportsInv'
<1> DEFINE base == IF repository THEN Imports!BaselineFor(picked, paths) ELSE {}
<1>1. base \in SUBSET ImportsPath
  BY DEF Imports!BaselineFor
<1>2. iJob' = [iJob EXCEPT ![t] = [Imports!NoJob EXCEPT !.at = "prepare", !.paths = paths,
                                     !.replace = replace, !.base = base]]
  BY DEF Imports!Pick
<1> HIDE DEF base
<1>3. PICK j : j = [Imports!NoJob EXCEPT !.at = "prepare", !.paths = paths, !.replace = replace,
                               !.base = base]
  OBVIOUS
<1>4. j = [at |-> "prepare", files |-> {}, paths |-> paths, base |-> base, replace |-> replace,
           old |-> {}, new |-> {}, before |-> {}, saved |-> {}, changed |-> {}]
  BY <1>3, JobPicked
<1>5. j \in ImportsJobs
  BY <1>1, <1>4 DEF ImportsJobs
<1>6. JobEmpty(t)
  <2>1. iJob' = [iJob EXCEPT ![t] = j]
    BY <1>2, <1>3
  <2> QED BY <1>4, <1>5, <2>1 DEF JobEmpty, ImportsInv, ImportsTypes
<1> QED BY <1>6, EndKeeps DEF Imports!Pick

LEMMA SendKeeps ==
  ASSUME ImportsInv, NEW t \in ImportsTab, Imports!Send(t)
  PROVE  ImportsInv'
<1>0. /\ ImportsTypes /\ JobsByStage /\ IdsBegun /\ AllCreated /\ SharedCreated /\ ReplacingMakes
      /\ TextsStored /\ ToldOrUnderWay
  BY DEF ImportsInv
<1> DEFINE existing == IF iJob[t].replace THEN {}
                       ELSE {f \in Imports!Shows(t) : Imports!PathOf(f) \in iJob[t].paths}
           new == {<<iImports + 1, p>> : p \in iJob[t].paths \ Imports!Paths(existing)}
           files == existing \cup new
<1>1. /\ iJob[t].at = "prepare" /\ iJob[t].changed = {} /\ iJob[t].new = {} /\ iJob[t].saved = {}
      /\ iImports' = iImports + 1 /\ iJob[t] \in ImportsJobs
      /\ UNCHANGED <<iEntries, iCreated, iStored, iTold, iStopped>>
  BY <1>0 DEF Imports!Send, JobsByStage, ImportsTypes
<1>2. iImports + 1 \in Nat
  BY <1>0 DEF ImportsTypes
<1>3. existing \subseteq iCreated /\ (iJob[t].replace => existing = {})
  BY <1>0 DEF AllCreated, Imports!Shows
<1>4. ASSUME NEW f \in new PROVE f \in ImportsFile /\ f[1] = iImports + 1
  <2>1. PICK p \in iJob[t].paths : f = <<iImports + 1, p>>
    OBVIOUS
  <2>2. p \in ImportsPath
    BY <1>1 DEF ImportsJobs
  <2> QED BY <1>2, <2>1, <2>2 DEF ImportsFile
<1>5. \A f \in existing : f \in ImportsFile /\ f[1] <= iImports
  BY <1>0, <1>3 DEF IdsBegun
<1> HIDE DEF existing, new
<1>6. \A f \in new : f \notin iCreated /\ \A u \in ImportsTab : f \notin iJob[u].files
  <2>1. iImports \in Nat /\ ~(iImports + 1 <= iImports)
    BY <1>0 DEF ImportsTypes
  <2> QED BY <1>0, <1>4, <2>1 DEF IdsBegun
<1>7. ASSUME NEW f \in files PROVE f \in ImportsFile /\ f[1] <= iImports + 1
  <2>1. iImports \in Nat
    BY <1>0 DEF ImportsTypes
  <2>2. f \in ImportsFile /\ f[1] \in Nat
    BY <1>4, <1>5 DEF ImportsFile
  <2>3. f[1] = iImports + 1 \/ f[1] <= iImports
    BY <1>4, <1>5
  <2> QED BY <2>1, <2>2, <2>3
<1>8. iJob' = [iJob EXCEPT ![t].at = "plan", ![t].files = files]
  BY DEF Imports!Send, existing, new
<1> HIDE DEF files
<1>9. files = existing \cup new
  BY DEF files
<1>10. [at |-> "plan", files |-> files, paths |-> iJob[t].paths, base |-> iJob[t].base,
        replace |-> iJob[t].replace, old |-> iJob[t].old, new |-> {}, before |-> iJob[t].before,
        saved |-> {}, changed |-> {}] \in ImportsJobs
  BY <1>1, <1>7 DEF ImportsJobs
<1>11. iJob'[t] =
         [at |-> "plan", files |-> files, paths |-> iJob[t].paths, base |-> iJob[t].base,
          replace |-> iJob[t].replace, old |-> iJob[t].old, new |-> {}, before |-> iJob[t].before,
          saved |-> {}, changed |-> {}]
  <2>1. iJob[t] = [at |-> iJob[t].at, files |-> iJob[t].files, paths |-> iJob[t].paths,
                   base |-> iJob[t].base, replace |-> iJob[t].replace, old |-> iJob[t].old,
                   new |-> iJob[t].new, before |-> iJob[t].before, saved |-> iJob[t].saved,
                   changed |-> iJob[t].changed]
    BY <1>1, JobFields
  <2>2. iJob'[t] = [iJob[t] EXCEPT !.at = "plan", !.files = files]
    BY <1>0, <1>8 DEF ImportsTypes
  <2> QED BY <1>1, <2>1, <2>2
<1>12. OnlyJob(t)
  BY <1>0, <1>8, <1>10, <1>11 DEF OnlyJob, ImportsTypes
<1>13. /\ iJob'[t].at = "plan" /\ iJob'[t].files = files /\ iJob'[t].replace = iJob[t].replace
       /\ iJob'[t].old = iJob[t].old /\ iJob'[t].new = {} /\ iJob'[t].saved = {}
       /\ iJob'[t].changed = {}
  BY <1>11
<1>14. ImportsTypes'
  BY <1>0, <1>1, <1>2, <1>12 DEF ImportsTypes, OnlyJob
<1>15. JobsByStage'
  BY <1>0, <1>12, <1>13 DEF JobsByStage, OnlyJob
<1>16. IdsBegun'
  <2>1. \A n \in Nat : n <= iImports => n <= iImports + 1
    BY <1>0 DEF ImportsTypes
  <2>2. \A f \in iCreated' : f \in ImportsFile /\ f[1] <= iImports'
    BY <1>0, <1>1, <2>1 DEF IdsBegun, ImportsFile
  <2>3. ASSUME NEW u \in ImportsTab, NEW f \in iJob'[u].files PROVE f[1] <= iImports'
    <3>1. CASE u = t
      BY <1>1, <1>7, <1>13, <2>3, <3>1
    <3>2. CASE u # t
      <4>1. f \in iJob[u].files /\ f \in ImportsFile
        BY <1>0, <1>12, <2>3, <3>2 DEF OnlyJob, ImportsTypes, ImportsJobs
      <4>2. f[1] <= iImports /\ f[1] \in Nat
        BY <1>0, <4>1 DEF IdsBegun, ImportsFile
      <4> QED BY <1>1, <2>1, <4>2
    <3> QED BY <3>1, <3>2
  <2> QED BY <2>2, <2>3 DEF IdsBegun
<1>17. AllCreated'
  BY <1>0, <1>1, <1>12, <1>13 DEF AllCreated, OnlyJob
<1>18. SharedCreated'
  BY <1>0, <1>1, <1>3, <1>6, <1>9, <1>12, <1>13 DEF SharedCreated, OnlyJob
<1>19. ReplacingMakes'
  BY <1>0, <1>1, <1>3, <1>6, <1>9, <1>12, <1>13 DEF ReplacingMakes, OnlyJob
<1>20. TextsStored'
  BY <1>0, <1>1, <1>12, <1>13 DEF TextsStored, OnlyJob
<1>21. ToldOrUnderWay'
  <2>1. \A u \in ImportsTab : /\ iJob'[u].changed \cap iJob'[u].new = iJob[u].changed \cap iJob[u].new
                              /\ iJob'[u].changed \cap iJob'[u].old = iJob[u].changed \cap iJob[u].old
    BY <1>1, <1>12, <1>13 DEF OnlyJob
  <2> QED BY <1>0, <1>1, <2>1 DEF ToldOrUnderWay
<1> QED BY <1>14, <1>15, <1>16, <1>17, <1>18, <1>19, <1>20, <1>21 DEF ImportsInv

LEMMA PlanKeeps ==
  ASSUME ImportsInv, NEW t \in ImportsTab, Imports!Plan(t)
  PROVE  ImportsInv'
<1>0. /\ ImportsTypes /\ JobsByStage /\ IdsBegun /\ AllCreated /\ SharedCreated /\ ReplacingMakes
      /\ TextsStored /\ ToldOrUnderWay
  BY DEF ImportsInv
<1> DEFINE present == IF iJob[t].replace THEN {} ELSE iEntries
           old == IF iJob[t].replace THEN iEntries ELSE {}
           new == iJob[t].files \ present
           before == IF iJob[t].replace THEN {} ELSE iJob[t].files \cap iStored
<1>1. /\ iJob[t].at = "plan" /\ iJob[t].changed = {} /\ iJob[t].saved = {} /\ iJob[t] \in ImportsJobs
      /\ UNCHANGED <<iEntries, iCreated, iStored, iTold, iImports, iStopped>>
  BY <1>0 DEF Imports!Plan, JobsByStage, ImportsTypes
<1>2. \/ iJob' = [iJob EXCEPT ![t].at = "save", ![t].old = old, ![t].new = new, ![t].before = before]
      \/ Imports!End(t)
  BY DEF Imports!Plan
<1>3. CASE Imports!End(t)
  BY <1>0, <1>1, <1>3, JobEnds, EndKeeps DEF ImportsTypes
<1>4. CASE iJob' = [iJob EXCEPT ![t].at = "save", ![t].old = old, ![t].new = new, ![t].before = before]
  <2>1. old \subseteq iCreated /\ new \subseteq iJob[t].files /\ before \subseteq iJob[t].files
    BY <1>0 DEF AllCreated
  <2>2. (iJob[t].files \ before) \cap iEntries = {}
    <3>1. CASE iJob[t].replace
      BY <1>0, <1>1, <3>1 DEF ReplacingMakes, AllCreated
    <3>2. CASE ~iJob[t].replace
      BY <1>0, <3>2 DEF TextsStored
    <3> QED BY <3>1, <3>2
  <2> HIDE DEF old, new, before
  <2>3. [at |-> "save", files |-> iJob[t].files, paths |-> iJob[t].paths, base |-> iJob[t].base,
         replace |-> iJob[t].replace, old |-> old, new |-> new, before |-> before,
         saved |-> {}, changed |-> {}] \in ImportsJobs
    <3>1. \A f \in old \cup new \cup before : f \in ImportsFile
      BY <1>0, <1>1, <2>1 DEF IdsBegun, ImportsJobs
    <3> QED BY <1>1, <3>1 DEF ImportsJobs
  <2>4. iJob'[t] =
          [at |-> "save", files |-> iJob[t].files, paths |-> iJob[t].paths, base |-> iJob[t].base,
           replace |-> iJob[t].replace, old |-> old, new |-> new, before |-> before,
           saved |-> {}, changed |-> {}]
    <3>1. iJob[t] = [at |-> iJob[t].at, files |-> iJob[t].files, paths |-> iJob[t].paths,
                     base |-> iJob[t].base, replace |-> iJob[t].replace, old |-> iJob[t].old,
                     new |-> iJob[t].new, before |-> iJob[t].before, saved |-> iJob[t].saved,
                     changed |-> iJob[t].changed]
      BY <1>1, JobFields
    <3>2. iJob'[t] = [iJob[t] EXCEPT !.at = "save", !.old = old, !.new = new, !.before = before]
      BY <1>0, <1>4 DEF ImportsTypes
    <3> QED BY <1>1, <3>1, <3>2
  <2>5. OnlyJob(t)
    BY <1>0, <1>4, <2>3, <2>4 DEF OnlyJob, ImportsTypes
  <2>6. /\ iJob'[t].at = "save" /\ iJob'[t].files = iJob[t].files /\ iJob'[t].old = old
        /\ iJob'[t].new = new /\ iJob'[t].before = before /\ iJob'[t].saved = {}
        /\ iJob'[t].changed = {}
    BY <2>4
  <2>7. ImportsTypes'
    BY <1>0, <1>1, <2>5 DEF ImportsTypes, OnlyJob
  <2>8. JobsByStage'
    BY <1>0, <2>5, <2>6 DEF JobsByStage, OnlyJob
  <2>9. IdsBegun'
    BY <1>0, <1>1, <2>5, <2>6 DEF IdsBegun, OnlyJob
  <2>10. AllCreated'
    BY <1>0, <1>1, <2>1, <2>5, <2>6 DEF AllCreated, OnlyJob
  <2>11. SharedCreated'
    BY <1>0, <1>1, <2>5, <2>6 DEF SharedCreated, OnlyJob
  <2>12. ReplacingMakes'
    BY <1>0, <1>1, <2>5, <2>6 DEF ReplacingMakes, OnlyJob
  <2>13. TextsStored'
    BY <1>0, <1>1, <2>2, <2>5, <2>6 DEF TextsStored, OnlyJob
  <2>14. ToldOrUnderWay'
    <3>1. \A u \in ImportsTab :
            /\ iJob'[u].changed \cap iJob'[u].new = iJob[u].changed \cap iJob[u].new
            /\ iJob'[u].changed \cap iJob'[u].old = iJob[u].changed \cap iJob[u].old
      BY <1>1, <2>5, <2>6 DEF OnlyJob
    <3> QED BY <1>0, <1>1, <3>1 DEF ToldOrUnderWay
  <2> QED BY <2>7, <2>8, <2>9, <2>10, <2>11, <2>12, <2>13, <2>14 DEF ImportsInv
<1> QED BY <1>2, <1>3, <1>4

\* One field of a job changes.
LEMMA JobSaves ==
  ASSUME iJob \in [ImportsTab -> ImportsJobs], NEW t \in ImportsTab, NEW saved \in SUBSET ImportsFile,
         iJob' = [iJob EXCEPT ![t].saved = saved]
  PROVE  /\ OnlyJob(t) /\ iJob'[t].at = iJob[t].at /\ iJob'[t].files = iJob[t].files
         /\ iJob'[t].replace = iJob[t].replace /\ iJob'[t].old = iJob[t].old
         /\ iJob'[t].new = iJob[t].new /\ iJob'[t].before = iJob[t].before
         /\ iJob'[t].saved = saved /\ iJob'[t].changed = iJob[t].changed
<1>1. iJob[t] = [at |-> iJob[t].at, files |-> iJob[t].files, paths |-> iJob[t].paths,
                 base |-> iJob[t].base, replace |-> iJob[t].replace, old |-> iJob[t].old,
                 new |-> iJob[t].new, before |-> iJob[t].before, saved |-> iJob[t].saved,
                 changed |-> iJob[t].changed]
  BY JobFields
<1>2. iJob'[t] = [at |-> iJob[t].at, files |-> iJob[t].files, paths |-> iJob[t].paths,
                  base |-> iJob[t].base, replace |-> iJob[t].replace, old |-> iJob[t].old,
                  new |-> iJob[t].new, before |-> iJob[t].before, saved |-> saved,
                  changed |-> iJob[t].changed]
  BY <1>1
<1>3. iJob'[t] \in ImportsJobs
  BY <1>2 DEF ImportsJobs
<1> QED BY <1>2, <1>3 DEF OnlyJob

LEMMA JobChanges ==
  ASSUME iJob \in [ImportsTab -> ImportsJobs], NEW t \in ImportsTab, NEW changed \in SUBSET ImportsFile,
         iJob' = [iJob EXCEPT ![t].changed = changed]
  PROVE  /\ OnlyJob(t) /\ iJob'[t].at = iJob[t].at /\ iJob'[t].files = iJob[t].files
         /\ iJob'[t].replace = iJob[t].replace /\ iJob'[t].old = iJob[t].old
         /\ iJob'[t].new = iJob[t].new /\ iJob'[t].before = iJob[t].before
         /\ iJob'[t].saved = iJob[t].saved /\ iJob'[t].changed = changed
<1>1. iJob[t] = [at |-> iJob[t].at, files |-> iJob[t].files, paths |-> iJob[t].paths,
                 base |-> iJob[t].base, replace |-> iJob[t].replace, old |-> iJob[t].old,
                 new |-> iJob[t].new, before |-> iJob[t].before, saved |-> iJob[t].saved,
                 changed |-> iJob[t].changed]
  BY JobFields
<1>2. iJob'[t] = [at |-> iJob[t].at, files |-> iJob[t].files, paths |-> iJob[t].paths,
                  base |-> iJob[t].base, replace |-> iJob[t].replace, old |-> iJob[t].old,
                  new |-> iJob[t].new, before |-> iJob[t].before, saved |-> iJob[t].saved,
                  changed |-> changed]
  BY <1>1
<1>3. iJob'[t] \in ImportsJobs
  BY <1>2 DEF ImportsJobs
<1> QED BY <1>2, <1>3 DEF OnlyJob

LEMMA SaveKeeps ==
  ASSUME ImportsInv, NEW t \in ImportsTab, NEW f, Imports!Save(t, f)
  PROVE  ImportsInv'
<1>0. /\ ImportsTypes /\ JobsByStage /\ IdsBegun /\ AllCreated /\ SharedCreated /\ ReplacingMakes
      /\ TextsStored /\ ToldOrUnderWay
  BY DEF ImportsInv
<1> DEFINE saved == iJob[t].saved \cup {f}
<1>1. /\ iJob[t].at = "save" /\ f \in iJob[t].files /\ iJob[t] \in ImportsJobs
      /\ iStored' = iStored \cup {f}
      /\ UNCHANGED <<iEntries, iCreated, iTold, iImports, iStopped>>
  BY <1>0 DEF Imports!Save, ImportsTypes
<1>2. saved \in SUBSET ImportsFile /\ saved \subseteq iJob[t].files
  BY <1>0, <1>1 DEF ImportsJobs, AllCreated
<1>3. iJob' = [iJob EXCEPT ![t].saved = saved]
  BY DEF Imports!Save
<1>4. /\ OnlyJob(t) /\ iJob'[t].at = "save" /\ iJob'[t].files = iJob[t].files
      /\ iJob'[t].replace = iJob[t].replace /\ iJob'[t].old = iJob[t].old
      /\ iJob'[t].new = iJob[t].new /\ iJob'[t].before = iJob[t].before
      /\ iJob'[t].saved = saved /\ iJob'[t].changed = iJob[t].changed
  BY <1>0, <1>1, <1>2, <1>3, JobSaves DEF ImportsTypes
<1>5. ImportsTypes'
  BY <1>0, <1>1, <1>4 DEF ImportsTypes, OnlyJob
<1>6. JobsByStage'
  BY <1>0, <1>1, <1>4 DEF JobsByStage, OnlyJob
<1>7. IdsBegun'
  BY <1>0, <1>1, <1>4 DEF IdsBegun, OnlyJob
<1>8. AllCreated'
  BY <1>0, <1>1, <1>2, <1>4 DEF AllCreated, OnlyJob
<1>9. SharedCreated'
  BY <1>0, <1>1, <1>4 DEF SharedCreated, OnlyJob
<1>10. ReplacingMakes'
  BY <1>0, <1>1, <1>4 DEF ReplacingMakes, OnlyJob
<1>11. TextsStored'
  BY <1>0, <1>1, <1>4 DEF TextsStored, OnlyJob
<1>12. ToldOrUnderWay'
  BY <1>0, <1>1, <1>4 DEF ToldOrUnderWay, OnlyJob
<1> QED BY <1>5, <1>6, <1>7, <1>8, <1>9, <1>10, <1>11, <1>12 DEF ImportsInv

LEMMA ReserveKeeps ==
  ASSUME ImportsInv, NEW t \in ImportsTab, Imports!Reserve(t)
  PROVE  ImportsInv'
<1>0. /\ ImportsTypes /\ JobsByStage /\ IdsBegun /\ AllCreated /\ SharedCreated /\ ReplacingMakes
      /\ TextsStored /\ ToldOrUnderWay
  BY DEF ImportsInv
<1>1. /\ iJob[t].at = "save" /\ iJob[t].saved = iJob[t].files /\ iJob[t].changed = {}
      /\ iJob[t] \in ImportsJobs
      /\ UNCHANGED <<iEntries, iCreated, iTold, iImports, iStopped>>
  BY <1>0 DEF Imports!Reserve, JobsByStage, ImportsTypes
<1>2. CASE iStored' = Imports!Restored(t) /\ Imports!End(t)
  BY <1>0, <1>1, <1>2, JobEnds, EndKeeps DEF ImportsTypes
<1>3. CASE iStored' = iStored /\ iJob' = [iJob EXCEPT ![t].at = "append"]
  <2>1. iJob[t] = [at |-> iJob[t].at, files |-> iJob[t].files, paths |-> iJob[t].paths,
                   base |-> iJob[t].base, replace |-> iJob[t].replace, old |-> iJob[t].old,
                   new |-> iJob[t].new, before |-> iJob[t].before, saved |-> iJob[t].saved,
                   changed |-> iJob[t].changed]
    BY <1>1, JobFields
  <2>2. iJob'[t] = [at |-> "append", files |-> iJob[t].files, paths |-> iJob[t].paths,
                    base |-> iJob[t].base, replace |-> iJob[t].replace, old |-> iJob[t].old,
                    new |-> iJob[t].new, before |-> iJob[t].before, saved |-> iJob[t].saved,
                    changed |-> iJob[t].changed]
    BY <1>0, <1>3, <2>1 DEF ImportsTypes
  <2>3. iJob'[t] \in ImportsJobs
    BY <1>1, <2>2 DEF ImportsJobs
  <2>4. /\ OnlyJob(t) /\ iJob'[t].at = "append" /\ iJob'[t].files = iJob[t].files
        /\ iJob'[t].old = iJob[t].old /\ iJob'[t].new = iJob[t].new
        /\ iJob'[t].saved = iJob[t].saved /\ iJob'[t].changed = iJob[t].changed
    BY <1>0, <1>3, <2>2, <2>3 DEF OnlyJob, ImportsTypes
  <2>5. ImportsTypes'
    BY <1>0, <1>1, <2>4 DEF ImportsTypes, OnlyJob
  <2>6. JobsByStage'
    BY <1>0, <1>1, <2>4 DEF JobsByStage, OnlyJob
  <2>7. IdsBegun'
    BY <1>0, <1>1, <2>4 DEF IdsBegun, OnlyJob
  <2>8. AllCreated'
    BY <1>0, <1>1, <2>4 DEF AllCreated, OnlyJob
  <2>9. SharedCreated'
    BY <1>0, <1>1, <2>4 DEF SharedCreated, OnlyJob
  <2>10. ReplacingMakes'
    BY <1>0, <1>1, <2>4 DEF ReplacingMakes, OnlyJob
  <2>11. TextsStored'
    BY <1>0, <1>1, <1>3, <2>4 DEF TextsStored, OnlyJob
  <2>12. ToldOrUnderWay'
    BY <1>0, <1>1, <2>4 DEF ToldOrUnderWay, OnlyJob
  <2> QED BY <2>5, <2>6, <2>7, <2>8, <2>9, <2>10, <2>11, <2>12 DEF ImportsInv
<1> QED BY <1>2, <1>3 DEF Imports!Reserve, Imports!To

LEMMA AppendKeeps ==
  ASSUME ImportsInv, NEW t \in ImportsTab, NEW f, Imports!Append(t, f)
  PROVE  ImportsInv'
<1>0. /\ ImportsTypes /\ JobsByStage /\ IdsBegun /\ AllCreated /\ SharedCreated /\ ReplacingMakes
      /\ TextsStored /\ ToldOrUnderWay
  BY DEF ImportsInv
<1> DEFINE changed == iJob[t].changed \cup {f}
<1>1. /\ iJob[t].at = "append" /\ iJob[t] \in ImportsJobs /\ iJob[t].saved = iJob[t].files
      /\ UNCHANGED <<iStored, iTold, iImports>>
  BY <1>0 DEF Imports!Append, JobsByStage, ImportsTypes
<1>2. \/ /\ f \in iJob[t].old \cap iEntries /\ iEntries' = iEntries \ {f}
         /\ iJob' = [iJob EXCEPT ![t].changed = changed]
         /\ iCreated' = iCreated /\ iStopped' = iStopped
      \/ Imports!End(t) /\ iStopped' /\ UNCHANGED <<iEntries, iCreated>>
      \/ /\ f \in iJob[t].new /\ f \notin iCreated /\ iEntries' = iEntries \cup {f}
         /\ iCreated' = iCreated \cup {f}
         /\ iJob' = [iJob EXCEPT ![t].changed = changed] /\ iStopped' = iStopped
  BY DEF Imports!Append
<1>3. CASE Imports!End(t) /\ iStopped' /\ UNCHANGED <<iEntries, iCreated>>
  BY <1>0, <1>1, <1>3, JobEnds, EndKeeps DEF ImportsTypes
<1>4. ASSUME iJob' = [iJob EXCEPT ![t].changed = changed], f \in iJob[t].old \cup iJob[t].new
      PROVE  /\ OnlyJob(t) /\ iJob'[t].at = "append" /\ iJob'[t].files = iJob[t].files
             /\ iJob'[t].old = iJob[t].old /\ iJob'[t].new = iJob[t].new
             /\ iJob'[t].saved = iJob[t].saved /\ iJob'[t].changed = changed
             /\ ImportsTypes' /\ JobsByStage'
  <2>1. changed \in SUBSET ImportsFile
    BY <1>1, <1>4 DEF ImportsJobs
  <2>2. /\ OnlyJob(t) /\ iJob'[t].at = "append" /\ iJob'[t].files = iJob[t].files
        /\ iJob'[t].old = iJob[t].old /\ iJob'[t].new = iJob[t].new
        /\ iJob'[t].saved = iJob[t].saved /\ iJob'[t].changed = changed
    BY <1>0, <1>1, <1>4, <2>1, JobChanges DEF ImportsTypes
  <2>3. ImportsTypes'
    BY <1>0, <1>1, <2>2 DEF ImportsTypes, OnlyJob
  <2>4. JobsByStage'
    BY <1>0, <1>1, <2>2 DEF JobsByStage, OnlyJob
  <2> QED BY <2>2, <2>3, <2>4
<1>5. CASE /\ f \in iJob[t].old \cap iEntries /\ iEntries' = iEntries \ {f}
           /\ iJob' = [iJob EXCEPT ![t].changed = changed]
           /\ iCreated' = iCreated /\ iStopped' = iStopped
  <2>1. /\ OnlyJob(t) /\ iJob'[t].at = "append" /\ iJob'[t].files = iJob[t].files
        /\ iJob'[t].old = iJob[t].old /\ iJob'[t].new = iJob[t].new
        /\ iJob'[t].saved = iJob[t].saved /\ iJob'[t].changed = changed
        /\ ImportsTypes' /\ JobsByStage'
    BY <1>4, <1>5
  <2>2. IdsBegun'
    BY <1>0, <1>1, <1>5, <2>1 DEF IdsBegun, OnlyJob
  <2>3. AllCreated'
    BY <1>0, <1>1, <1>5, <2>1 DEF AllCreated, OnlyJob
  <2>4. SharedCreated'
    BY <1>0, <1>5, <2>1 DEF SharedCreated, OnlyJob
  <2>5. ReplacingMakes'
    BY <1>0, <1>5, <2>1 DEF ReplacingMakes, OnlyJob
  <2>6. TextsStored'
    BY <1>0, <1>1, <1>5, <2>1 DEF TextsStored, OnlyJob
  <2>7. ToldOrUnderWay'
    <3>1. SUFFICES ASSUME ~iStopped', NEW u \in ImportsTab, NEW g \in iCreated'
          PROVE  /\ g \in iTold'[u].created
                    \/ \E v \in ImportsTab : g \in iJob'[v].changed \cap iJob'[v].new
                 /\ g \notin iEntries' <=>
                      g \in iTold'[u].deleted
                      \/ \E v \in ImportsTab : g \in iJob'[v].changed \cap iJob'[v].old
      BY DEF ToldOrUnderWay
    <3>2. /\ g \in iTold[u].created \/ \E v \in ImportsTab : g \in iJob[v].changed \cap iJob[v].new
          /\ g \notin iEntries <=>
               g \in iTold[u].deleted \/ \E v \in ImportsTab : g \in iJob[v].changed \cap iJob[v].old
      BY <1>0, <1>5, <3>1 DEF ToldOrUnderWay
    <3>3. \A v \in ImportsTab : /\ iJob'[v].new = iJob[v].new /\ iJob'[v].old = iJob[v].old
                                /\ iJob[v].changed \subseteq iJob'[v].changed
                                /\ iJob'[v].changed \subseteq iJob[v].changed \cup {f}
      BY <2>1 DEF OnlyJob
    <3>4. f \in iJob'[t].changed \cap iJob'[t].old
      BY <1>5, <2>1
    <3> QED BY <1>1, <1>5, <3>2, <3>3, <3>4
  <2> QED BY <2>1, <2>2, <2>3, <2>4, <2>5, <2>6, <2>7 DEF ImportsInv
<1>6. CASE /\ f \in iJob[t].new /\ f \notin iCreated /\ iEntries' = iEntries \cup {f}
           /\ iCreated' = iCreated \cup {f}
           /\ iJob' = [iJob EXCEPT ![t].changed = changed] /\ iStopped' = iStopped
  <2>1. /\ OnlyJob(t) /\ iJob'[t].at = "append" /\ iJob'[t].files = iJob[t].files
        /\ iJob'[t].old = iJob[t].old /\ iJob'[t].new = iJob[t].new
        /\ iJob'[t].saved = iJob[t].saved /\ iJob'[t].changed = changed
        /\ ImportsTypes' /\ JobsByStage'
    BY <1>4, <1>6
  <2>2. /\ f \in iJob[t].files /\ f \in ImportsFile /\ f[1] <= iImports
        /\ \A u \in ImportsTab \ {t} : f \notin iJob[u].files
    BY <1>0, <1>1, <1>6 DEF AllCreated, ImportsJobs, IdsBegun, SharedCreated
  <2>3. IdsBegun'
    BY <1>0, <1>1, <1>6, <2>1, <2>2 DEF IdsBegun, OnlyJob
  <2>4. AllCreated'
    BY <1>0, <1>1, <1>6, <2>1 DEF AllCreated, OnlyJob
  <2>5. SharedCreated'
    BY <1>0, <1>6, <2>1 DEF SharedCreated, OnlyJob
  <2>6. ReplacingMakes'
    BY <1>0, <1>6, <2>1, <2>2 DEF ReplacingMakes, OnlyJob
  <2>7. TextsStored'
    BY <1>0, <1>1, <1>6, <2>1, <2>2 DEF TextsStored, OnlyJob
  <2>8. ToldOrUnderWay'
    <3>1. SUFFICES ASSUME ~iStopped', NEW u \in ImportsTab, NEW g \in iCreated'
          PROVE  /\ g \in iTold'[u].created
                    \/ \E v \in ImportsTab : g \in iJob'[v].changed \cap iJob'[v].new
                 /\ g \notin iEntries' <=>
                      g \in iTold'[u].deleted
                      \/ \E v \in ImportsTab : g \in iJob'[v].changed \cap iJob'[v].old
      BY DEF ToldOrUnderWay
    <3>2. \A v \in ImportsTab : /\ iJob'[v].new = iJob[v].new /\ iJob'[v].old = iJob[v].old
                                /\ iJob[v].changed \subseteq iJob'[v].changed
                                /\ iJob'[v].changed \subseteq iJob[v].changed \cup {f}
      BY <2>1 DEF OnlyJob
    <3>3. CASE g = f
      <4>1. f \in iJob'[t].changed \cap iJob'[t].new
        BY <1>6, <2>1
      <4>2. /\ f \notin iTold[u].deleted
            /\ \A v \in ImportsTab : f \notin iJob[v].old
        BY <1>0, <1>6 DEF AllCreated
      <4> QED BY <1>1, <1>6, <3>2, <3>3, <4>1, <4>2
    <3>4. CASE g # f
      <4>1. /\ g \in iTold[u].created \/ \E v \in ImportsTab : g \in iJob[v].changed \cap iJob[v].new
            /\ g \notin iEntries <=>
                 g \in iTold[u].deleted
                 \/ \E v \in ImportsTab : g \in iJob[v].changed \cap iJob[v].old
        BY <1>0, <1>6, <3>1, <3>4 DEF ToldOrUnderWay
      <4> QED BY <1>1, <1>6, <3>2, <3>4, <4>1
    <3> QED BY <3>3, <3>4
  <2> QED BY <2>1, <2>3, <2>4, <2>5, <2>6, <2>7, <2>8 DEF ImportsInv
<1> QED BY <1>2, <1>3, <1>5, <1>6

LEMMA CompleteKeeps ==
  ASSUME ImportsInv, NEW t \in ImportsTab, Imports!Complete(t)
  PROVE  ImportsInv'
<1>0. /\ ImportsTypes /\ JobsByStage /\ IdsBegun /\ AllCreated /\ SharedCreated /\ ReplacingMakes
      /\ TextsStored /\ ToldOrUnderWay
  BY DEF ImportsInv
<1>1. /\ iJob[t].at = "append" /\ iJob[t].old \cap iEntries = {} /\ iJob[t].new \subseteq iJob[t].changed
      /\ iStored' = iStored \ iJob[t].old /\ iJob[t] \in ImportsJobs
      /\ UNCHANGED <<iEntries, iCreated, iImports, iStopped>>
  BY <1>0 DEF Imports!Complete, ImportsTypes
<1>2. JobEmpty(t)
  BY <1>0, JobEnds DEF ImportsTypes, Imports!Complete
<1>3. iTold' = [u \in ImportsTab |-> [created |-> iTold[u].created \cup iJob[t].new,
                                      deleted |-> iTold[u].deleted \cup (iJob[t].changed \cap iJob[t].old)]]
  BY DEF Imports!Complete, Imports!Told
<1>4. \A u \in ImportsTab :
        /\ iTold'[u].created = iTold[u].created \cup iJob[t].new
        /\ iTold'[u].deleted = iTold[u].deleted \cup (iJob[t].changed \cap iJob[t].old)
  BY <1>3
<1>5. ImportsTypes'
  <2>1. iTold' \in [ImportsTab -> [created : SUBSET ImportsFile, deleted : SUBSET ImportsFile]]
    <3>1. ASSUME NEW u \in ImportsTab
          PROVE  [created |-> iTold[u].created \cup iJob[t].new,
                  deleted |-> iTold[u].deleted \cup (iJob[t].changed \cap iJob[t].old)]
                    \in [created : SUBSET ImportsFile, deleted : SUBSET ImportsFile]
      BY <1>0, <1>1 DEF ImportsTypes, ImportsJobs
    <3> QED BY <1>3, <3>1
  <2> QED BY <1>0, <1>1, <1>2, <2>1 DEF ImportsTypes, JobEmpty
<1>6. JobsByStage'
  BY <1>0, <1>2 DEF JobsByStage, JobEmpty
<1>7. IdsBegun'
  BY <1>0, <1>1, <1>2 DEF IdsBegun, JobEmpty
<1>8. AllCreated'
  <2>1. iJob[t].new \subseteq iCreated /\ iJob[t].old \subseteq iCreated
    BY <1>0, <1>1 DEF AllCreated
  <2> QED BY <1>0, <1>1, <1>2, <1>4, <2>1 DEF AllCreated, JobEmpty
<1>9. SharedCreated'
  BY <1>0, <1>1, <1>2 DEF SharedCreated, JobEmpty
<1>10. ReplacingMakes'
  BY <1>0, <1>1, <1>2 DEF ReplacingMakes, JobEmpty
<1>11. TextsStored'
  <2>1. iJob[t].old \subseteq iCreated
    BY <1>0 DEF AllCreated
  <2> QED BY <1>0, <1>1, <1>2, <2>1 DEF TextsStored, JobEmpty
<1>12. ToldOrUnderWay'
  <2>1. SUFFICES ASSUME ~iStopped', NEW u \in ImportsTab, NEW g \in iCreated'
        PROVE  /\ g \in iTold'[u].created
                  \/ \E v \in ImportsTab : g \in iJob'[v].changed \cap iJob'[v].new
               /\ g \notin iEntries' <=>
                    g \in iTold'[u].deleted
                    \/ \E v \in ImportsTab : g \in iJob'[v].changed \cap iJob'[v].old
    BY DEF ToldOrUnderWay
  <2>2. /\ g \in iTold[u].created \/ \E v \in ImportsTab : g \in iJob[v].changed \cap iJob[v].new
        /\ g \notin iEntries <=>
             g \in iTold[u].deleted \/ \E v \in ImportsTab : g \in iJob[v].changed \cap iJob[v].old
    BY <1>0, <1>1, <2>1 DEF ToldOrUnderWay
  <2> QED BY <1>1, <1>2, <1>4, <2>2 DEF JobEmpty
<1> QED BY <1>5, <1>6, <1>7, <1>8, <1>9, <1>10, <1>11, <1>12 DEF ImportsInv

LEMMA ImportsInit == ASSUME Imports!Init PROVE ImportsInv
<1>1. Imports!NoJob \in ImportsJobs
  BY DEF Imports!NoJob, ImportsJobs
<1>2. ImportsTypes
  BY <1>1 DEF Imports!Init, ImportsTypes
<1> QED BY <1>2 DEF Imports!Init, Imports!NoJob, ImportsInv, JobsByStage, IdsBegun, AllCreated, SharedCreated,
       ReplacingMakes, TextsStored, ToldOrUnderWay

LEMMA ImportsStep == ImportsInv /\ [Imports!Next]_(Imports!vars) => ImportsInv'
<1> SUFFICES ASSUME ImportsInv, [Imports!Next]_(Imports!vars) PROVE ImportsInv'
  OBVIOUS
<1>0. ImportsTypes
  BY DEF ImportsInv
<1>1. ASSUME NEW t \in ImportsTab, Imports!Abort(t) PROVE ImportsInv'
  <2>1. JobEmpty(t) /\ iJob[t].at # "append"
    BY <1>0, <1>1, JobEnds DEF Imports!Abort, ImportsTypes
  <2> QED BY <1>1, <2>1, EndKeeps DEF Imports!Abort
<1>2. ASSUME NEW t \in ImportsTab, Imports!Fail(t) PROVE ImportsInv'
  <2>1. JobEmpty(t)
    BY <1>0, <1>2, JobEnds DEF Imports!Fail, ImportsTypes
  <2>2. /\ UNCHANGED <<iEntries, iCreated, iTold, iImports>>
        /\ iStored' = iStored \/ (iJob[t].at = "save" /\ iStored' = Imports!Restored(t))
    BY <1>2 DEF Imports!Fail
  <2>3. iStopped \/ iJob[t].at = "append" => iStopped'
    BY <1>2, Zenon DEF Imports!Fail
  <2> QED BY <2>1, <2>2, <2>3, EndKeeps
<1>3. CASE UNCHANGED Imports!vars
  BY <1>3 DEF Imports!vars, ImportsInv, ImportsTypes, JobsByStage, IdsBegun, AllCreated, SharedCreated,
              ReplacingMakes, TextsStored, ToldOrUnderWay
<1> QED BY <1>1, <1>2, <1>3, PickKeeps, SendKeeps, PlanKeeps, SaveKeeps, ReserveKeeps, AppendKeeps,
           CompleteKeeps DEF Imports!Next

\* Every file the server lists has its text, and the tabs show what it lists once
\* no import is under way and none stopped half-way, for any tabs, paths, sizes and
\* limits, however imports overlap, are refused and fail.
THEOREM RoomAlwaysShowsImport == Imports!Spec => []RoomShowsImport
<1>1. ImportsInv => RoomShowsImport
  <2>1. SUFFICES ASSUME ImportsInv PROVE RoomShowsImport
    OBVIOUS
  <2>2. Imports!ListedFilesHaveText
    BY <2>1 DEF ImportsInv, TextsStored, Imports!ListedFilesHaveText
  <2>3. ASSUME ~iStopped, \A t \in ImportsTab : iJob[t].at = "idle", NEW t \in ImportsTab
        PROVE  Imports!Shows(t) = iEntries
    <3>1. \A u \in ImportsTab : iJob[u].changed = {}
      BY <2>1, <2>3 DEF ImportsInv, JobsByStage
    <3>2. \A f \in iCreated : f \in iTold[t].created /\ (f \notin iEntries <=> f \in iTold[t].deleted)
      BY <2>1, <2>3, <3>1 DEF ImportsInv, ToldOrUnderWay
    <3>3. iTold[t].created \subseteq iCreated /\ iEntries \subseteq iCreated
      BY <2>1 DEF ImportsInv, AllCreated
    <3> QED BY <3>2, <3>3 DEF Imports!Shows
  <2> QED BY <2>2, <2>3 DEF RoomShowsImport, Imports!RoomShowsImport, Imports!TabsShowTree
<1>2. Imports!Init => ImportsInv
  BY ImportsInit
<1>3. ImportsInv /\ [Imports!Next]_(Imports!vars) => ImportsInv'
  BY ImportsStep
<1> QED BY <1>1, <1>2, <1>3, PTL DEF Imports!Spec

-----------------------------------------------------------------------------
(* GithubBranches: what the panel will still listen to is of the selected      *)
(* branch, and at most one operation on branches is under way, asked for with  *)
(* the selection there is. Both need CalmPanel: an older page that comes after  *)
(* the selection has changed, or a deletion before the default branch is known, *)
(* breaks them.                                                                *)

FirstRequests == [branch : BranchesBranch, active : BOOLEAN]
OlderRequests == [branch : BranchesBranch, page : Nat, active : BOOLEAN]
BranchOperations ==
  [kind : {"create", "rename", "delete", "deleted"}, branch : BranchesBranch, to : BranchesBranch,
   was : BranchesBranch, knows : BOOLEAN, here : BOOLEAN]

PanelTypes ==
  /\ bSelected \in BranchesBranch /\ bHistory \in Seq(BranchesBranch \X Nat) /\ bPage \in Nat
  /\ bMore \in BOOLEAN /\ bLoading \in BOOLEAN
  /\ bFirst \subseteq FirstRequests /\ bOlder \subseteq OlderRequests

\* The history is made of pages of the selected branch, in their order.
PagesInOrder ==
  /\ \A i \in 1..Len(bHistory) : bHistory[i] = <<bSelected, i>>
  /\ bHistory # <<>> => bPage = Len(bHistory) /\ (bMore <=> bPage < BranchesPagesOf[bSelected])
  /\ bHistory = <<>> => ~bMore

\* The first page that is waited for is one of the selected branch, whose history
\* is still empty; so is the older page, which is the next one.
FirstAwaited ==
  \A r \in bFirst : r.active => r.branch = bSelected /\ bHistory = <<>> /\ bLoading
OlderAwaited ==
  /\ \A r \in bOlder : r.active =>
       r.branch = bSelected /\ r.page = bPage + 1 /\ bHistory # <<>> /\ bLoading
  /\ \A r, s \in bOlder : r.active /\ s.active => r = s

PanelInv == PanelTypes /\ PagesInOrder /\ FirstAwaited /\ OlderAwaited

OperationTypes ==
  /\ bExists \subseteq BranchesBranch /\ BranchesDefault \in bExists /\ bBase \in BranchesBranch
  /\ bRepositories \in BOOLEAN /\ bOperations \subseteq BranchOperations /\ bFaults \in Nat

\* One operation at a time, of this panel, that knows the selection; and what is
\* deleted is not the default branch.
OneOperation ==
  \A o \in bOperations :
    /\ o.here /\ o.was = bSelected /\ bOperations = {o}
    /\ o.kind # "create" => o.branch # BranchesDefault
    /\ o.kind \in {"delete", "deleted"} => o.knows

\* Pushes go to the selected branch, which is there unless its deletion is about
\* to change the selection.
TargetKept ==
  /\ bTarget = bSelected
  /\ bFaults = 0 => \/ bTarget \in bExists \cup bGone
                    \/ \E o \in bOperations : o.kind = "deleted" /\ o.branch = bTarget

BranchesInv == PanelInv /\ OperationTypes /\ OneOperation /\ TargetKept

LEMMA CancelledFirst ==
  ASSUME NEW S \in SUBSET FirstRequests, NEW r \in Branches!Cancelled(S)
  PROVE  r \in FirstRequests /\ ~r.active
<1>1. PICK s \in S : r = [s EXCEPT !.active = FALSE]
  BY DEF Branches!Cancelled
<1>2. s = [branch |-> s.branch, active |-> s.active] /\ s.branch \in BranchesBranch
  BY DEF FirstRequests
<1>3. r = [branch |-> s.branch, active |-> FALSE]
  BY <1>1, <1>2
<1> QED BY <1>2, <1>3 DEF FirstRequests

LEMMA CancelledOlder ==
  ASSUME NEW S \in SUBSET OlderRequests, NEW r \in Branches!Cancelled(S)
  PROVE  r \in OlderRequests /\ ~r.active
<1>1. PICK s \in S : r = [s EXCEPT !.active = FALSE]
  BY DEF Branches!Cancelled
<1>2. /\ s = [branch |-> s.branch, page |-> s.page, active |-> s.active]
      /\ s.branch \in BranchesBranch /\ s.page \in Nat
  BY DEF OlderRequests
<1>3. r = [branch |-> s.branch, page |-> s.page, active |-> FALSE]
  BY <1>1, <1>2
<1> QED BY <1>2, <1>3 DEF OlderRequests

\* A selection empties the history and waits for the branch's first page alone.
LEMMA LoadKeeps ==
  ASSUME PanelInv, NEW b \in BranchesBranch, Branches!Load(b), bSelected' = b,
         bOlder' \subseteq OlderRequests, \A r \in bOlder' : ~r.active
  PROVE  PanelInv'
<1>0. PanelTypes
  BY DEF PanelInv
<1>1. /\ bHistory' = <<>> /\ bPage' = 1 /\ bMore' = FALSE /\ bLoading' = TRUE
      /\ bFirst' = Branches!Cancelled(bFirst) \cup {[branch |-> b, active |-> TRUE]}
  BY DEF Branches!Load
<1>2. ASSUME NEW r \in bFirst' PROVE r \in FirstRequests /\ (r.active => r.branch = b)
  <2>1. CASE r \in Branches!Cancelled(bFirst)
    BY <1>0, <2>1, CancelledFirst DEF PanelTypes
  <2>2. CASE r = [branch |-> b, active |-> TRUE]
    BY <2>2 DEF FirstRequests
  <2> QED BY <1>1, <2>1, <2>2
<1>3. PanelTypes'
  <2>1. bHistory' \in Seq(BranchesBranch \X Nat)
    BY <1>1
  <2> QED BY <1>1, <1>2, <2>1 DEF PanelTypes
<1>4. PagesInOrder'
  BY <1>1 DEF PagesInOrder
<1>5. FirstAwaited'
  BY <1>1, <1>2 DEF FirstAwaited
<1>6. OlderAwaited'
  BY DEF OlderAwaited
<1> QED BY <1>3, <1>4, <1>5, <1>6 DEF PanelInv

\* A selection by the user or by an operation, with no older page on its way.
LEMMA SelectKeeps ==
  ASSUME PanelInv, NEW b \in BranchesBranch, Branches!Select(b), bOlder = {}, bOlder' = bOlder
  PROVE  PanelInv' /\ bSelected' = b
<1>1. CASE b = bSelected
  BY <1>1 DEF Branches!Select, Branches!panel, PanelInv, PanelTypes, PagesInOrder, FirstAwaited, OlderAwaited
<1>2. CASE b # bSelected
  BY <1>2, LoadKeeps DEF Branches!Select
<1> QED BY <1>1, <1>2 DEF Branches!Select

\* A page of the selected branch comes after those shown.
LEMMA ListKeeps ==
  ASSUME Branches!BranchesAssumption, PanelTypes, PagesInOrder, NEW p \in Nat, p = Len(bHistory) + 1,
         NEW rest, rest = bHistory, bSelected \in bExists, Branches!ListHistory(bSelected, p, rest),
         bSelected' = bSelected
  PROVE  /\ PagesInOrder' /\ bHistory' \in Seq(BranchesBranch \X Nat) /\ bHistory' # <<>>
         /\ bPage' \in Nat /\ bMore' \in BOOLEAN
<1>1. /\ bHistory' = Append(bHistory, <<bSelected, p>>) /\ bPage' = p
      /\ bMore' = (p < BranchesPagesOf[bSelected])
  BY DEF Branches!ListHistory
<1>2. bHistory \in Seq(BranchesBranch \X Nat) /\ <<bSelected, p>> \in BranchesBranch \X Nat
  BY DEF PanelTypes
<1>3. /\ bHistory' \in Seq(BranchesBranch \X Nat) /\ Len(bHistory') = p
      /\ \A i \in 1..Len(bHistory) : bHistory'[i] = bHistory[i]
      /\ bHistory'[p] = <<bSelected, p>>
  BY <1>1, <1>2
<1>4. ASSUME NEW i \in 1..Len(bHistory') PROVE bHistory'[i] = <<bSelected, i>>
  <2>1. i = p \/ i \in 1..Len(bHistory)
    BY <1>2, <1>3
  <2> QED BY <1>3, <2>1 DEF PagesInOrder
<1>5. bHistory' # <<>>
  BY <1>2, <1>3
<1>6. bMore' \in BOOLEAN /\ (bMore' <=> p < BranchesPagesOf[bSelected])
  <2>1. p \in Nat /\ BranchesPagesOf[bSelected] \in Nat
    BY DEF PanelTypes, Branches!BranchesAssumption
  <2>2. bMore' \in BOOLEAN
    BY <1>1, <2>1
  <2>3. bMore' <=> p < BranchesPagesOf[bSelected]
    BY <1>1, Zenon
  <2> QED BY <2>2, <2>3
<1> QED BY <1>1, <1>3, <1>4, <1>5, <1>6 DEF PagesInOrder

LEMMA FirstPageKeeps ==
  ASSUME Branches!BranchesAssumption, PanelInv, bExists' = bExists, bOlder' = bOlder,
         Branches!FirstPageArrives \/ Branches!FirstPageFails
  PROVE  PanelInv' /\ bSelected' = bSelected
<1>0. PanelTypes /\ PagesInOrder /\ FirstAwaited /\ OlderAwaited
  BY DEF PanelInv
<1>1. PICK r \in bFirst :
        /\ bFirst' = bFirst \ {r} /\ bSelected' = bSelected
        /\ \/ /\ r.active /\ r.branch \in bExists /\ bLoading' = FALSE
              /\ Branches!ListHistory(r.branch, 1, <<>>)
           \/ /\ UNCHANGED <<bHistory, bPage, bMore>>
              /\ bLoading' = (bLoading /\ ~r.active)
  BY DEF Branches!FirstPageArrives, Branches!FirstPageFails
<1>2. r \in FirstRequests /\ bFirst' \subseteq FirstRequests
  BY <1>0, <1>1 DEF PanelTypes
<1>3. r.active => \A s \in bFirst' : ~s.active
  <2>1. SUFFICES ASSUME r.active, NEW s \in bFirst', s.active PROVE FALSE
    OBVIOUS
  <2>2. s \in FirstRequests /\ s.branch = r.branch /\ s.active /\ s # r
    BY <1>0, <1>1, <1>2, <2>1 DEF FirstAwaited
  <2>3. s = [branch |-> s.branch, active |-> s.active] /\ r = [branch |-> r.branch, active |-> r.active]
    BY <1>2, <2>2 DEF FirstRequests
  <2>4. s.active = TRUE /\ r.active = TRUE
    BY <1>2, <2>1, <2>2 DEF FirstRequests
  <2> QED BY <2>2, <2>3, <2>4
<1>4. r.active => \A s \in bOlder : ~s.active
  BY <1>0, <1>1 DEF FirstAwaited, OlderAwaited
<1>5. CASE /\ r.active /\ r.branch \in bExists /\ bLoading' = FALSE
           /\ Branches!ListHistory(r.branch, 1, <<>>)
  <2>1. bHistory = <<>> /\ r.branch = bSelected
    BY <1>0, <1>1, <1>5 DEF FirstAwaited
  <2>2. /\ PagesInOrder' /\ bHistory' \in Seq(BranchesBranch \X Nat) /\ bHistory' # <<>>
        /\ bPage' \in Nat /\ bMore' \in BOOLEAN
    BY <1>0, <1>1, <1>5, <2>1, ListKeeps
  <2>3. PanelTypes'
    BY <1>0, <1>1, <1>2, <1>5, <2>2 DEF PanelTypes
  <2>4. FirstAwaited' /\ OlderAwaited'
    BY <1>3, <1>4, <1>5 DEF FirstAwaited, OlderAwaited
  <2> QED BY <1>1, <2>2, <2>3, <2>4 DEF PanelInv
<1>6. CASE /\ UNCHANGED <<bHistory, bPage, bMore>>
           /\ bLoading' = (bLoading /\ ~r.active)
  <2>1. bLoading' \in BOOLEAN /\ (bLoading' <=> bLoading /\ ~r.active)
    BY <1>6
  <2>2. PanelTypes'
    BY <1>0, <1>1, <1>2, <1>6, <2>1 DEF PanelTypes
  <2>3. PagesInOrder'
    BY <1>0, <1>1, <1>6 DEF PagesInOrder
  <2>4. FirstAwaited'
    BY <1>0, <1>1, <1>3, <1>6, <2>1 DEF FirstAwaited
  <2>5. OlderAwaited'
    BY <1>0, <1>1, <1>4, <1>6, <2>1 DEF OlderAwaited
  <2> QED BY <1>1, <2>2, <2>3, <2>4, <2>5 DEF PanelInv
<1> QED BY <1>1, <1>5, <1>6

LEMMA LoadMoreKeeps ==
  ASSUME PanelInv, Branches!LoadMoreHistory
  PROVE  PanelInv' /\ bSelected' = bSelected
<1>0. PanelTypes /\ PagesInOrder /\ FirstAwaited /\ OlderAwaited
  BY DEF PanelInv
<1> DEFINE q == [branch |-> bSelected, page |-> bPage + 1, active |-> TRUE]
<1>1. /\ bMore /\ ~bLoading /\ bLoading' = TRUE /\ bOlder' = bOlder \cup {q}
      /\ UNCHANGED <<bSelected, bFirst, bHistory, bPage, bMore>>
  BY DEF Branches!LoadMoreHistory
<1>2. q \in OlderRequests /\ q.branch = bSelected /\ q.page = bPage + 1
  <2>1. bPage + 1 \in Nat
    BY <1>0 DEF PanelTypes
  <2> QED BY <1>0, <2>1 DEF PanelTypes, OlderRequests
<1> HIDE DEF q
<1>3. bHistory # <<>>
  BY <1>0, <1>1 DEF PagesInOrder
<1>4. /\ \A r \in bOlder : ~r.active
      /\ \A r \in bFirst : ~r.active
  BY <1>0, <1>1, <1>3 DEF FirstAwaited, OlderAwaited
<1>5. PanelTypes'
  BY <1>0, <1>1, <1>2 DEF PanelTypes
<1>6. PagesInOrder'
  BY <1>0, <1>1 DEF PagesInOrder
<1>7. FirstAwaited'
  BY <1>1, <1>4 DEF FirstAwaited
<1>8. OlderAwaited'
  BY <1>1, <1>2, <1>3, <1>4 DEF OlderAwaited
<1> QED BY <1>1, <1>5, <1>6, <1>7, <1>8 DEF PanelInv

LEMMA OlderPageKeeps ==
  ASSUME Branches!BranchesAssumption, PanelInv, Branches!OlderPageArrives \/ Branches!OlderPageFails
  PROVE  PanelInv' /\ bSelected' = bSelected
<1>0. PanelTypes /\ PagesInOrder /\ FirstAwaited /\ OlderAwaited
  BY DEF PanelInv
<1>1. PICK r \in bOlder :
        /\ bOlder' = bOlder \ {r} /\ UNCHANGED <<bSelected, bFirst>>
        /\ \/ /\ r.active /\ r.branch \in bExists /\ bLoading' = FALSE
              /\ Branches!ListHistory(r.branch, r.page, bHistory)
           \/ /\ UNCHANGED <<bHistory, bPage, bMore>> /\ bLoading' \in BOOLEAN
              /\ ~r.active => bLoading' = bLoading
  <2>1. CASE Branches!OlderPageArrives
    <3>1. PICK r \in bOlder :
            /\ bOlder' = bOlder \ {r}
            /\ IF ~r.active THEN UNCHANGED Branches!panel
               ELSE /\ bLoading' = FALSE
                    /\ IF r.branch \in bExists THEN Branches!ListHistory(r.branch, r.page, bHistory)
                       ELSE UNCHANGED <<bHistory, bPage, bMore>>
      BY <2>1 DEF Branches!OlderPageArrives
    <3> QED BY <1>0, <2>1, <3>1 DEF Branches!OlderPageArrives, Branches!panel, PanelTypes
  <2>2. CASE Branches!OlderPageFails
    <3>1. PICK r \in bOlder : bOlder' = bOlder \ {r} /\ bLoading' = (bLoading /\ ~r.active)
      BY <2>2 DEF Branches!OlderPageFails
    <3>2. bLoading' \in BOOLEAN /\ (~r.active => bLoading' = bLoading)
      BY <1>0, <3>1 DEF PanelTypes
    <3> QED BY <2>2, <3>1, <3>2 DEF Branches!OlderPageFails
  <2> QED BY <2>1, <2>2
<1>2. bOlder' \subseteq OlderRequests
  BY <1>0, <1>1 DEF PanelTypes
<1>3. r.active => /\ \A s \in bOlder' : ~s.active
                  /\ \A s \in bFirst : ~s.active
                  /\ r.branch = bSelected /\ r.page = bPage + 1 /\ bHistory # <<>>
  BY <1>0, <1>1 DEF FirstAwaited, OlderAwaited
<1>4. CASE /\ r.active /\ r.branch \in bExists /\ bLoading' = FALSE
           /\ Branches!ListHistory(r.branch, r.page, bHistory)
  <2>1. r.page = Len(bHistory) + 1 /\ r.page \in Nat
    BY <1>0, <1>1, <1>3, <1>4 DEF PagesInOrder, PanelTypes, OlderRequests
  <2>2. /\ PagesInOrder' /\ bHistory' \in Seq(BranchesBranch \X Nat) /\ bHistory' # <<>>
        /\ bPage' \in Nat /\ bMore' \in BOOLEAN
    BY <1>0, <1>1, <1>3, <1>4, <2>1, ListKeeps
  <2>3. PanelTypes'
    BY <1>0, <1>1, <1>2, <1>4, <2>2 DEF PanelTypes
  <2>4. FirstAwaited' /\ OlderAwaited'
    BY <1>1, <1>3, <1>4 DEF FirstAwaited, OlderAwaited
  <2> QED BY <1>1, <2>2, <2>3, <2>4 DEF PanelInv
<1>5. CASE /\ UNCHANGED <<bHistory, bPage, bMore>> /\ bLoading' \in BOOLEAN
           /\ ~r.active => bLoading' = bLoading
  <2>1. PanelTypes'
    BY <1>0, <1>1, <1>2, <1>5 DEF PanelTypes
  <2>2. PagesInOrder'
    BY <1>0, <1>1, <1>5 DEF PagesInOrder
  <2>3. FirstAwaited'
    BY <1>0, <1>1, <1>3, <1>5 DEF FirstAwaited
  <2>4. OlderAwaited'
    BY <1>0, <1>1, <1>3, <1>5 DEF OlderAwaited
  <2> QED BY <1>1, <2>1, <2>2, <2>3, <2>4 DEF PanelInv
<1> QED BY <1>1, <1>4, <1>5

\* What an operation on branches that is asked for is.
LEMMA AskKeeps ==
  ASSUME Branches!BranchesAssumption, BranchesInv,
         NEW kind \in {"create", "rename", "delete"}, NEW b \in BranchesBranch, NEW to \in BranchesBranch,
         Branches!Ask(kind, b, to), kind # "create" => b # BranchesDefault,
         kind = "delete" => bRepositories
  PROVE  BranchesInv'
<1>0. PanelTypes /\ OperationTypes /\ OneOperation /\ TargetKept
  BY DEF BranchesInv, PanelInv
<1>1. PICK o : o = [kind |-> kind, branch |-> b, to |-> to, was |-> bSelected,
                    knows |-> bRepositories, here |-> TRUE]
  OBVIOUS
<1>2. /\ bOperations = {} /\ bOperations' = {o}
      /\ UNCHANGED <<bExists, bGone, bRepositories, bBase, bSelected, bTarget, bFirst, bOlder, bFaults>>
      /\ UNCHANGED <<bHistory, bPage, bMore, bLoading>>
  <2>1. ~\E q \in bOperations : q.here
    BY DEF Branches!Ask, Branches!Busy
  <2>2. bOperations = {}
    BY <1>0, <2>1 DEF OneOperation
  <2> QED BY <1>1, <2>2 DEF Branches!Ask, Branches!panel
<1>3. PanelInv'
  BY <1>2 DEF BranchesInv, PanelInv, PanelTypes, PagesInOrder, FirstAwaited, OlderAwaited
<1>4. OperationTypes'
  <2>1. o \in BranchOperations
    BY <1>0, <1>1 DEF PanelTypes, OperationTypes, BranchOperations
  <2> QED BY <1>0, <1>2, <2>1 DEF OperationTypes
<1>5. OneOperation'
  <2>1. o.kind = kind /\ o.branch = b /\ o.was = bSelected /\ o.knows = bRepositories /\ o.here
    BY <1>1
  <2> QED BY <1>2, <2>1 DEF OneOperation
<1>6. TargetKept'
  BY <1>0, <1>2 DEF TargetKept
<1> QED BY <1>3, <1>4, <1>5, <1>6 DEF BranchesInv

\* An operation ends with a choice, of a branch that is there.
LEMMA ChooseKeeps ==
  ASSUME BranchesCalmPanel, BranchesInv, NEW o \in bOperations, NEW b \in BranchesBranch,
         Branches!Choose(o, b), b \in bExists', bExists' \subseteq BranchesBranch,
         BranchesDefault \in bExists', bOperations' = {}, bOlder' = bOlder, bBase' = bBase,
             bRepositories' = bRepositories,
         bFaults' = bFaults
  PROVE  BranchesInv'
<1>0. PanelInv /\ OperationTypes /\ OneOperation /\ TargetKept
  BY DEF BranchesInv
<1>1. o.here
  BY <1>0 DEF OneOperation
<1>2. bTarget' = b /\ bOlder = {} /\ Branches!Select(b)
  BY <1>1 DEF Branches!Choose
<1>3. PanelInv' /\ bSelected' = b
  BY <1>0, <1>2, SelectKeeps
<1>4. OperationTypes' /\ OneOperation'
  BY <1>0 DEF OperationTypes, OneOperation
<1>5. TargetKept'
  BY <1>2, <1>3 DEF TargetKept
<1> QED BY <1>3, <1>4, <1>5 DEF BranchesInv

\* An operation that ends without one leaves where pushes go to as it is.
LEMMA NoChoiceKeeps ==
  ASSUME BranchesInv, NEW o \in bOperations, Branches!NoChoice,
         bTarget \in bExists => bTarget \in bExists' \cup bGone', bGone \subseteq bGone',
         bExists' \subseteq BranchesBranch, BranchesDefault \in bExists', bOperations' = {},
         bOlder' = bOlder, bBase' = bBase, bRepositories' = bRepositories, bFaults' \in Nat,
         bFaults' = 0 => bFaults = 0 /\ ~(o.kind = "deleted" /\ o.branch = bTarget)
  PROVE  BranchesInv'
<1>0. PanelInv /\ OperationTypes /\ OneOperation /\ TargetKept
  BY DEF BranchesInv
<1>1. UNCHANGED <<bSelected, bTarget, bFirst, bHistory, bPage, bMore, bLoading>>
  BY DEF Branches!NoChoice, Branches!panel
<1>2. PanelInv'
  BY <1>0, <1>1 DEF PanelInv, PanelTypes, PagesInOrder, FirstAwaited, OlderAwaited
<1>3. OperationTypes' /\ OneOperation'
  BY <1>0 DEF OperationTypes, OneOperation
<1>4. \A q \in bOperations : q = o
  BY <1>0 DEF OneOperation
<1>5. TargetKept'
  BY <1>0, <1>1, <1>4 DEF TargetKept
<1> QED BY <1>2, <1>3, <1>5 DEF BranchesInv

LEMMA OperationKeeps ==
  ASSUME Branches!BranchesAssumption, BranchesCalmPanel, BranchesInv, NEW o \in bOperations,
         \/ Branches!CreateBranchAsync(o) \/ Branches!RenameBranchAsync(o)
         \/ Branches!DeleteBranchAsync(o) \/ Branches!ListAfterDelete(o) \/ Branches!OperationFails(o)
  PROVE  BranchesInv'
<1>0. PanelInv /\ PanelTypes /\ OperationTypes /\ OneOperation /\ TargetKept
  BY DEF BranchesInv, PanelInv
<1>1. /\ bOperations = {o} /\ o.was = bSelected /\ bTarget = bSelected /\ o \in BranchOperations
      /\ o.kind # "create" => o.branch # BranchesDefault
      /\ o.kind \in {"delete", "deleted"} => o.knows
      /\ o.branch \in BranchesBranch /\ o.to \in BranchesBranch
  BY <1>0 DEF OneOperation, TargetKept, OperationTypes, BranchOperations
<1>2. Branches!Done(o) => bOperations' = {}
  BY <1>1 DEF Branches!Done
<1>3. bExists \subseteq BranchesBranch /\ BranchesDefault \in bExists /\ bFaults \in Nat
  BY <1>0 DEF OperationTypes
<1>4. CASE Branches!CreateBranchAsync(o)
  <2>1. /\ o.kind = "create" /\ bOperations' = {}
        /\ UNCHANGED <<bGone, bRepositories, bBase, bOlder, bFaults>>
        /\ \/ bExists' = bExists /\ Branches!NoChoice
           \/ bExists' = bExists \cup {o.to} /\ Branches!Choose(o, o.to)
    BY <1>2, <1>4 DEF Branches!CreateBranchAsync
  <2>2. CASE bExists' = bExists /\ Branches!NoChoice
    BY <1>3, <2>1, <2>2, NoChoiceKeeps
  <2>3. CASE bExists' = bExists \cup {o.to} /\ Branches!Choose(o, o.to)
    BY <1>1, <1>3, <2>1, <2>3, ChooseKeeps
  <2> QED BY <2>1, <2>2, <2>3
<1>5. CASE Branches!RenameBranchAsync(o)
  <2>1. /\ o.kind = "rename" /\ bOperations' = {}
        /\ UNCHANGED <<bGone, bRepositories, bBase, bOlder>>
        /\ \/ bExists' = bExists /\ bFaults' = bFaults /\ Branches!NoChoice
           \/ /\ bExists' = (bExists \ {o.branch}) \cup {o.to} /\ bFaults' = bFaults
              /\ IF o.was = o.branch THEN Branches!Choose(o, o.to) ELSE Branches!NoChoice
           \/ bExists' = bExists \cup {o.to} /\ bFaults' = bFaults + 1 /\ Branches!NoChoice
    BY <1>2, <1>5 DEF Branches!RenameBranchAsync, Branches!MayFail
  <2>2. CASE bExists' = bExists /\ bFaults' = bFaults /\ Branches!NoChoice
    BY <1>3, <2>1, <2>2, NoChoiceKeeps
  <2>3. CASE /\ bExists' = (bExists \ {o.branch}) \cup {o.to} /\ bFaults' = bFaults
             /\ IF o.was = o.branch THEN Branches!Choose(o, o.to) ELSE Branches!NoChoice
    <3>1. bExists' \subseteq BranchesBranch /\ BranchesDefault \in bExists' /\ o.to \in bExists'
      BY <1>1, <1>3, <2>1, <2>3
    <3>2. CASE o.was = o.branch
      BY <1>1, <2>1, <2>3, <3>1, <3>2, ChooseKeeps
    <3>3. CASE o.was # o.branch
      <4>1. bTarget \in bExists => bTarget \in bExists'
        BY <1>1, <2>3, <3>3
      <4> QED BY <1>3, <2>1, <2>3, <3>1, <3>3, <4>1, NoChoiceKeeps
    <3> QED BY <3>2, <3>3
  <2>4. CASE bExists' = bExists \cup {o.to} /\ bFaults' = bFaults + 1 /\ Branches!NoChoice
    <3>1. bFaults' \in Nat /\ bFaults' # 0
      BY <1>3, <2>4
    <3> QED BY <1>1, <1>3, <2>1, <2>4, <3>1, NoChoiceKeeps
  <2> QED BY <2>1, <2>2, <2>3, <2>4
<1>6. CASE Branches!DeleteBranchAsync(o)
  <2>1. CASE o.branch \in bExists
    <3>1. PICK d : d = [o EXCEPT !.kind = "deleted"]
      OBVIOUS
    <3>2. /\ bExists' = bExists \ {o.branch} /\ bOperations' = {d} /\ o.kind = "delete"
          /\ UNCHANGED <<bGone, bRepositories, bBase, bSelected, bTarget, bFirst, bOlder, bFaults>>
          /\ UNCHANGED <<bHistory, bPage, bMore, bLoading>>
      BY <1>1, <1>6, <2>1, <3>1 DEF Branches!DeleteBranchAsync, Branches!panel
    <3>3. /\ d.kind = "deleted" /\ d.branch = o.branch /\ d.was = o.was /\ d.knows = o.knows
          /\ d.here = o.here /\ d \in BranchOperations
      <4>1. o = [kind |-> o.kind, branch |-> o.branch, to |-> o.to, was |-> o.was,
                 knows |-> o.knows, here |-> o.here]
        BY <1>1 DEF BranchOperations
      <4>2. d = [kind |-> "deleted", branch |-> o.branch, to |-> o.to, was |-> o.was,
                 knows |-> o.knows, here |-> o.here]
        BY <3>1, <4>1
      <4>3. d \in BranchOperations
        BY <1>1, <4>2 DEF BranchOperations
      <4> QED BY <4>2, <4>3
    <3>4. PanelInv'
      BY <1>0, <3>2 DEF PanelInv, PanelTypes, PagesInOrder, FirstAwaited, OlderAwaited
    <3>5. OperationTypes'
      BY <1>0, <1>1, <3>2, <3>3 DEF OperationTypes
    <3>6. OneOperation'
      BY <1>0, <1>1, <3>2, <3>3 DEF OneOperation
    <3>7. TargetKept'
      BY <1>0, <1>1, <3>2, <3>3 DEF TargetKept
    <3> QED BY <3>4, <3>5, <3>6, <3>7 DEF BranchesInv
  <2>2. CASE o.branch \notin bExists
    <3>1. /\ bExists' = bExists /\ bOperations' = {} /\ o.kind = "delete" /\ Branches!NoChoice
          /\ UNCHANGED <<bGone, bRepositories, bBase, bOlder, bFaults>>
      BY <1>2, <1>6, <2>2 DEF Branches!DeleteBranchAsync, Branches!NoChoice
    <3> QED BY <1>3, <3>1, NoChoiceKeeps
  <2> QED BY <2>1, <2>2
<1>7. CASE Branches!ListAfterDelete(o)
  <2>1. /\ o.kind = "deleted" /\ bOperations' = {} /\ o.knows
        /\ UNCHANGED <<bExists, bGone, bRepositories, bBase, bOlder, bFaults>>
        /\ IF o.knows /\ o.branch = o.was THEN Branches!Choose(o, BranchesDefault) ELSE Branches!NoChoice
    BY <1>1, <1>2, <1>7 DEF Branches!ListAfterDelete
  <2>2. CASE o.branch = o.was
    BY <1>3, <2>1, <2>2, ChooseKeeps
  <2>3. CASE o.branch # o.was
    BY <1>1, <1>3, <2>1, <2>3, NoChoiceKeeps
  <2> QED BY <2>2, <2>3
<1>8. CASE Branches!OperationFails(o)
  <2>1. /\ bOperations' = {} /\ bFaults' = bFaults + 1 /\ Branches!NoChoice
        /\ UNCHANGED <<bExists, bGone, bRepositories, bBase, bOlder>>
    BY <1>2, <1>8 DEF Branches!OperationFails, Branches!MayFail, Branches!NoChoice
  <2>2. bFaults' \in Nat /\ bFaults' # 0
    BY <1>3, <2>1
  <2> QED BY <1>3, <2>1, <2>2, NoChoiceKeeps
<1> QED BY <1>4, <1>5, <1>6, <1>7, <1>8

\* A step of the panel that leaves branches and operations alone.
LEMMA PanelStepKeeps ==
  ASSUME BranchesInv, PanelInv', bSelected' = bSelected,
         UNCHANGED <<bExists, bGone, bBase, bTarget, bOperations>>, bRepositories' \in BOOLEAN,
         bFaults' \in Nat,
         bFaults' = 0 => bFaults = 0
  PROVE  BranchesInv'
<1>1. OperationTypes' /\ OneOperation' /\ TargetKept'
  BY DEF BranchesInv, OperationTypes, OneOperation, TargetKept
<1> QED BY <1>1 DEF BranchesInv

LEMMA BranchesStep ==
  ASSUME Branches!BranchesAssumption, BranchesCalmPanel, BranchesInv, [Branches!Next]_(Branches!vars)
  PROVE  BranchesInv'
<1>0. PanelInv /\ PanelTypes /\ OperationTypes /\ OneOperation /\ TargetKept
  BY DEF BranchesInv, PanelInv
<1>1. bFaults \in Nat /\ bFaults + 1 \in Nat /\ bFaults + 1 # 0 /\ bRepositories \in BOOLEAN
  BY <1>0 DEF OperationTypes
<1>2. CASE Branches!RepositoriesArrive
  <2>1. PanelInv'
    BY <1>0, <1>2 DEF Branches!RepositoriesArrive, Branches!panel, PanelInv, PanelTypes, PagesInOrder,
                      FirstAwaited, OlderAwaited
  <2> QED BY <1>1, <1>2, <2>1, PanelStepKeeps DEF Branches!RepositoriesArrive
<1>3. CASE Branches!FirstPageArrives \/ Branches!FirstPageFails
  <2>1. /\ UNCHANGED <<bExists, bGone, bRepositories, bBase, bTarget, bOperations, bOlder>>
        /\ bFaults' = bFaults \/ bFaults' = bFaults + 1
    BY <1>3 DEF Branches!FirstPageArrives, Branches!FirstPageFails, Branches!MayFail
  <2>2. PanelInv' /\ bSelected' = bSelected
    BY <1>0, <1>3, <2>1, FirstPageKeeps
  <2> QED BY <1>1, <2>1, <2>2, PanelStepKeeps
<1>4. CASE Branches!LoadMoreHistory
  <2>1. PanelInv' /\ bSelected' = bSelected
    BY <1>0, <1>4, LoadMoreKeeps
  <2> QED BY <1>1, <1>4, <2>1, PanelStepKeeps DEF Branches!LoadMoreHistory
<1>5. CASE Branches!OlderPageArrives \/ Branches!OlderPageFails
  <2>1. /\ UNCHANGED <<bExists, bGone, bRepositories, bBase, bTarget, bOperations>>
        /\ bFaults' = bFaults \/ bFaults' = bFaults + 1
    BY <1>5 DEF Branches!OlderPageArrives, Branches!OlderPageFails, Branches!MayFail
  <2>2. PanelInv' /\ bSelected' = bSelected
    BY <1>0, <1>5, OlderPageKeeps
  <2> QED BY <1>1, <2>1, <2>2, PanelStepKeeps
<1>6. ASSUME NEW b \in BranchesBranch, Branches!SelectBranch(b) PROVE BranchesInv'
  <2>1. /\ Branches!Select(b) /\ b \in bExists /\ bTarget' = b /\ bOlder = {}
        /\ UNCHANGED <<bExists, bGone, bRepositories, bBase, bOlder, bOperations, bFaults>>
        /\ ~\E o \in bOperations : o.here
    BY <1>6 DEF Branches!SelectBranch, Branches!Busy
  <2>2. PanelInv' /\ bSelected' = b
    BY <1>0, <2>1, SelectKeeps
  <2>3. bOperations = {}
    BY <1>0, <2>1 DEF OneOperation
  <2>4. OperationTypes' /\ OneOperation' /\ TargetKept'
    BY <1>0, <2>1, <2>2, <2>3 DEF OperationTypes, OneOperation, TargetKept
  <2> QED BY <2>2, <2>4 DEF BranchesInv
<1>7. ASSUME NEW b \in BranchesBranch, Branches!ForeignDelete(b) PROVE BranchesInv'
  <2>1. /\ b # BranchesDefault /\ bExists' = bExists \ {b} /\ bGone' = bGone \cup {b}
        /\ UNCHANGED <<bRepositories, bBase, bSelected, bTarget, bFirst, bOlder, bOperations, bFaults>>
        /\ UNCHANGED <<bHistory, bPage, bMore, bLoading>>
    BY <1>7 DEF Branches!ForeignDelete, Branches!panel
  <2>2. PanelInv'
    BY <1>0, <2>1 DEF PanelInv, PanelTypes, PagesInOrder, FirstAwaited, OlderAwaited
  <2>3. OperationTypes' /\ OneOperation' /\ TargetKept'
    BY <1>0, <2>1 DEF OperationTypes, OneOperation, TargetKept
  <2> QED BY <2>2, <2>3 DEF BranchesInv
<1>8. ASSUME NEW b \in BranchesBranch, Branches!BaselineChanges(b) PROVE BranchesInv'
  <2>1. /\ bOperations = {} /\ b \in bExists /\ bBase' = b /\ bSelected' = b /\ bTarget' = b
        /\ Branches!Load(b) /\ bOlder' = Branches!Cancelled(bOlder) /\ bRepositories' = FALSE
        /\ UNCHANGED <<bExists, bGone, bFaults>>
        /\ bOperations' = {[o EXCEPT !.here = FALSE] : o \in bOperations}
    BY <1>8 DEF Branches!BaselineChanges
  <2>2. bOperations' = {}
    BY <2>1
  <2>3. PanelInv'
    BY <1>0, <2>1, LoadKeeps, CancelledOlder DEF PanelTypes
  <2>4. OperationTypes' /\ OneOperation' /\ TargetKept'
    BY <1>0, <2>1, <2>2 DEF OperationTypes, OneOperation, TargetKept
  <2> QED BY <2>3, <2>4 DEF BranchesInv
<1>9. ASSUME NEW b \in BranchesBranch, Branches!CreateBranch(b) PROVE BranchesInv'
  BY <1>9, AskKeeps DEF Branches!CreateBranch
<1>10. ASSUME NEW b \in BranchesBranch, Branches!RemoveBranch(b) PROVE BranchesInv'
  BY <1>10, AskKeeps DEF Branches!RemoveBranch
<1>11. ASSUME NEW b \in BranchesBranch, NEW to \in BranchesBranch, Branches!SaveRename(b, to)
       PROVE BranchesInv'
  BY <1>11, AskKeeps DEF Branches!SaveRename
<1>12. CASE UNCHANGED Branches!vars
  <2>1. PanelInv'
    BY <1>0, <1>12 DEF Branches!vars, PanelInv, PanelTypes, PagesInOrder, FirstAwaited, OlderAwaited
  <2> QED BY <1>1, <1>12, <2>1, PanelStepKeeps DEF Branches!vars
<1> QED BY <1>2, <1>3, <1>4, <1>5, <1>6, <1>7, <1>8, <1>9, <1>10, <1>11, <1>12, OperationKeeps
        DEF Branches!Next

LEMMA BranchesInit == ASSUME Branches!BranchesAssumption, Branches!Init PROVE BranchesInv
<1>1. /\ bExists \subseteq BranchesBranch /\ BranchesDefault \in bExists
      /\ bSelected = BranchesDefault /\ bTarget = BranchesDefault /\ bBase = BranchesDefault
             /\ bRepositories = FALSE
      /\ bFirst = {[branch |-> BranchesDefault, active |-> TRUE]} /\ bOlder = {} /\ bHistory = <<>>
      /\ bPage = 1 /\ bMore = FALSE /\ bLoading = TRUE /\ bOperations = {} /\ bFaults = 0
      /\ BranchesDefault \in BranchesBranch
  BY DEF Branches!Init, Branches!BranchesAssumption
<1>2. PanelTypes
  <2>1. bHistory \in Seq(BranchesBranch \X Nat)
    BY <1>1
  <2>2. [branch |-> BranchesDefault, active |-> TRUE] \in FirstRequests
    BY <1>1 DEF FirstRequests
  <2> QED BY <1>1, <2>1, <2>2 DEF PanelTypes
<1>3. PagesInOrder /\ FirstAwaited /\ OlderAwaited
  BY <1>1 DEF PagesInOrder, FirstAwaited, OlderAwaited
<1>4. OperationTypes /\ OneOperation /\ TargetKept
  BY <1>1 DEF OperationTypes, OneOperation, TargetKept
<1> QED BY <1>2, <1>3, <1>4 DEF BranchesInv, PanelInv

\* While the selection stays as long as an older page is on its way, and nothing is
\* deleted before the default branch is known, the panel shows the history of the
\* selected branch and pushes go to a branch that is there, for any branches, pages
\* and failures, in whatever order the answers come.
THEOREM PanelAlwaysShowsRepository ==
  ASSUME BranchesCalmPanel
  PROVE  Branches!Spec => []PanelShowsRepository
<1>1. BranchesInv => PanelShowsRepository
  <2>1. SUFFICES ASSUME BranchesInv PROVE PanelShowsRepository
    OBVIOUS
  <2>2. PanelTypes /\ PagesInOrder /\ OneOperation /\ TargetKept
    BY <2>1 DEF BranchesInv, PanelInv
  <2>3. bHistory = [i \in 1..Len(bHistory) |-> <<bSelected, i>>]
    <3>1. bHistory = [i \in 1..Len(bHistory) |-> bHistory[i]]
      BY <2>2 DEF PanelTypes
    <3> QED BY <2>2, <3>1 DEF PagesInOrder
  <2>4. ASSUME bHistory # <<>>
        PROVE  bPage = Len(bHistory) /\ bMore = (bPage < BranchesPagesOf[bSelected])
    <3>1. /\ bPage = Len(bHistory) /\ bMore \in BOOLEAN
          /\ (bMore <=> bPage < BranchesPagesOf[bSelected])
      BY <2>2, <2>4 DEF PagesInOrder, PanelTypes
    <3>2. CASE bPage < BranchesPagesOf[bSelected]
      BY <3>1, <3>2, Zenon
    <3>3. CASE ~(bPage < BranchesPagesOf[bSelected])
      BY <3>1, <3>3
    <3> QED BY <3>1, <3>2, <3>3
  <2>5. Branches!HistoryIsOfSelected
    BY <2>3, <2>4 DEF Branches!HistoryIsOfSelected
  <2>6. Branches!PushTargetExists
    BY <2>2 DEF Branches!PushTargetExists, TargetKept
  <2> QED BY <2>5, <2>6 DEF PanelShowsRepository, Branches!PanelShowsRepository
<1>2. Branches!Init => BranchesInv
  BY ProjectAssumption, BranchesInit
<1>3. BranchesInv /\ [Branches!Next]_(Branches!vars) => BranchesInv'
  BY ProjectAssumption, BranchesStep
<1> QED BY <1>1, <1>2, <1>3, PTL DEF Branches!Spec

-----------------------------------------------------------------------------
(* EditorFiles: what filters return.                                          *)

\* Numbers up to n have a property that goes from each to the next.
LEMMA UpTo ==
  ASSUME NEW n \in Nat, NEW Q, 0 \in Q, \A i \in 0..n : i \in Q /\ i < n => i + 1 \in Q
  PROVE  \A i \in 0..n : i \in Q
<1> SUFFICES ASSUME NEW bad \in 0..n, bad \notin Q PROVE FALSE
  OBVIOUS
<1> DEFINE B == {0..m : m \in {x \in 0..n : x \notin Q}}
<1>1. B \subseteq SUBSET (0..n) /\ 0..bad \in B
  OBVIOUS
<1>2. IsFiniteSet(0..n)
  BY FS_Interval
<1>3. IsWellFoundedOn(StrictSubsetOrdering(0..n), SUBSET (0..n))
  BY <1>2, FS_StrictSubsetOrderingWellFounded, FS_FiniteSubsetsOfFinite
<1>4. PICK U \in B : \A V \in B : <<V, U>> \notin StrictSubsetOrdering(0..n)
  <2> HIDE DEF B
  <2>1. B # {}
    BY <1>1
  <2>2. QED
    BY <1>1, <1>3, <2>1, WFMin
<1>5. PICK m \in 0..n : m \notin Q /\ U = 0..m
  BY <1>4
<1>6. m # 0 /\ m - 1 \in 0..n
  BY <1>5
<1>7. 0..(m - 1) \notin B
  <2>1. 0..(m - 1) \in SUBSET (0..n) /\ 0..m \in SUBSET (0..n) /\ 0..(m - 1) \subseteq 0..m
    BY <1>6
  <2>2. m \in 0..m /\ m \notin 0..(m - 1)
    BY <1>6
  <2>3. <<0..(m - 1), 0..m>> \in StrictSubsetOrdering(0..n)
    BY <2>1, <2>2 DEF StrictSubsetOrdering
  <2> HIDE DEF B
  <2>4. QED
    BY <1>4, <1>5, <2>3
<1>8. m - 1 \in Q
  BY <1>6, <1>7
<1>9. m - 1 < n /\ (m - 1) + 1 = m
  BY <1>6
<1>10. QED
  BY <1>5, <1>6, <1>8, <1>9

\* The function that a filter is computed by.
LEMMA SelectUnfolds ==
  ASSUME NEW X, NEW s \in Seq(X), NEW kept
  PROVE  \E F : /\ F[0] = <<>> /\ Editor!Select(s, kept) = F[Len(s)]
                /\ \A i \in 1..Len(s) : F[i] = IF s[i] \in kept THEN Append(F[i - 1], s[i]) ELSE F[i - 1]
<1> DEFINE n == Len(s)
           step(f, i) == IF i = 0 THEN <<>> ELSE IF s[i] \in kept THEN Append(f[i - 1], s[i]) ELSE f[i - 1]
           Q == {k \in 0..n : \E f : \A i \in 0..k : f[i] = step(f, i)}
<1>1. n \in Nat
  OBVIOUS
<1>2. 0 \in Q
  <2> DEFINE f == [i \in {0} |-> <<>>]
  <2>1. \A i \in 0..0 : f[i] = step(f, i)
    OBVIOUS
  <2>2. 0 \in 0..n
    BY <1>1
  <2> HIDE DEF f, step
  <2>3. QED
    BY <2>1, <2>2
<1>3. ASSUME NEW k \in 0..n, k \in Q, k < n PROVE k + 1 \in Q
  <2>1. PICK f : \A i \in 0..k : f[i] = step(f, i)
    BY <1>3
  <2> DEFINE g == [i \in 0..(k + 1) |-> IF i = k + 1 THEN step(f, k + 1) ELSE f[i]]
  <2>2. \A i \in 0..k : g[i] = f[i] /\ i # k + 1 /\ (i # 0 => i - 1 \in 0..k)
    BY <1>1
  <2>3. g[k + 1] = step(f, k + 1) /\ k + 1 # 0 /\ (k + 1) - 1 = k /\ k \in 0..k
    BY <1>1
  <2> HIDE DEF g
  <2>4. \A i \in 0..k : g[i] = step(g, i)
    BY <2>1, <2>2
  <2>5. g[k + 1] = step(g, k + 1)
    BY <2>2, <2>3
  <2>6. \A i \in 0..(k + 1) : i \in 0..k \/ i = k + 1
    BY <1>1
  <2> HIDE DEF step
  <2>7. \A i \in 0..(k + 1) : g[i] = step(g, i)
    BY <2>4, <2>5, <2>6
  <2>8. k + 1 \in 0..n
    BY <1>1, <1>3
  <2>9. QED
    BY <2>7, <2>8
<1>4. n \in Q
  <2> HIDE DEF Q
  <2>1. \A i \in 0..n : i \in Q
    BY <1>1, <1>2, <1>3, UpTo
  <2>2. QED
    BY <1>1, <2>1
<1>5. PICK f : \A i \in 0..n : f[i] = step(f, i)
  BY <1>4
<1> DEFINE h == [i \in 0..n |-> f[i]]
<1>6. h = [i \in 0..n |-> step(h, i)]
  <2>1. \A i \in 0..n : step(f, i) = step(h, i)
    <3> TAKE i \in 0..n
    <3>1. i # 0 => i - 1 \in 0..n
      BY <1>1
    <3>2. QED
      BY <3>1
  <2> HIDE DEF step
  <2>2. QED
    BY <1>5, <2>1
<1> DEFINE F == CHOOSE x : x = [i \in 0..n |-> step(x, i)]
<1>7. F = [i \in 0..n |-> step(F, i)]
  <2> HIDE DEF h, step
  <2>1. QED
    BY <1>6
<1>8. Editor!Select(s, kept) = F[n]
  BY DEF Editor!Select
<1> HIDE DEF F
<1>9. \A i \in 0..n : F[i] = step(F, i)
  <2> HIDE DEF step
  <2>1. QED
    BY <1>7
<1>10. 0 \in 0..n /\ \A i \in 1..n : i \in 0..n /\ i # 0
  BY <1>1
<1>11. F[0] = <<>> /\ \A i \in 1..n : F[i] = IF s[i] \in kept THEN Append(F[i - 1], s[i]) ELSE F[i - 1]
  BY <1>9, <1>10
<1>12. QED
  BY <1>8, <1>11

\* t is what s has of the set kept: its entries are entries of s in the same
\* order, all those of the set and no other.
Selected(t, s, kept) ==
  \E at \in [DOMAIN t -> DOMAIN s] :
    /\ \A k \in DOMAIN t : t[k] = s[at[k]] /\ s[at[k]] \in kept
    /\ \A j, k \in DOMAIN t : j # k => at[j] # at[k]
    /\ \A i \in DOMAIN s : s[i] \in kept => \E k \in DOMAIN t : at[k] = i

LEMMA FilterKeeps ==
  ASSUME NEW X, NEW s \in Seq(X), NEW kept
  PROVE  Editor!Select(s, kept) \in Seq(X) /\ Selected(Editor!Select(s, kept), s, kept)
<1> DEFINE n == Len(s)
           good(t, m, i) == \E at \in [1..m -> 1..i] :
             /\ \A k \in 1..m : t[k] = s[at[k]] /\ s[at[k]] \in kept
             /\ \A j, k \in 1..m : j # k => at[j] # at[k]
             /\ \A x \in 1..i : s[x] \in kept => \E k \in 1..m : at[k] = x
<1>1. n \in Nat /\ DOMAIN s = 1..n /\ \A i \in 1..n : s[i] \in X
  OBVIOUS
<1>2. PICK F : /\ F[0] = <<>> /\ Editor!Select(s, kept) = F[n]
               /\ \A i \in 1..n : F[i] = IF s[i] \in kept THEN Append(F[i - 1], s[i]) ELSE F[i - 1]
  BY SelectUnfolds
<1> DEFINE Q == {i \in 0..n : F[i] \in Seq(X) /\ good(F[i], Len(F[i]), i)}
<1>3. 0 \in Q
  <2>1. F[0] \in Seq(X) /\ Len(F[0]) = 0 /\ 0 \in 0..n
    BY <1>1, <1>2
  <2>2. good(F[0], 0, 0)
    <3> DEFINE at == [k \in 1..0 |-> 0]
    <3>1. at \in [1..0 -> 1..0]
      OBVIOUS
    <3>2. QED
      BY <2>1, <3>1
  <2> HIDE DEF good
  <2>3. QED
    BY <2>1, <2>2
<1>4. ASSUME NEW i \in 0..n, i \in Q, i < n PROVE i + 1 \in Q
  <2> DEFINE t == F[i]
             u == F[i + 1]
  <2>1. /\ i + 1 \in 1..n /\ i + 1 \in 0..n /\ (i + 1) - 1 = i /\ i \in Nat
        /\ i + 1 \notin 1..i /\ 1..i \subseteq 1..(i + 1) /\ \A x \in 1..(i + 1) : x \in 1..i \/ x = i + 1
    BY <1>1, <1>4
  <2>2. t \in Seq(X) /\ u = IF s[i + 1] \in kept THEN Append(t, s[i + 1]) ELSE t
    BY <1>2, <1>4, <2>1
  <2>3. PICK at \in [1..Len(t) -> 1..i] :
             /\ \A k \in 1..Len(t) : t[k] = s[at[k]] /\ s[at[k]] \in kept
             /\ \A j, k \in 1..Len(t) : j # k => at[j] # at[k]
             /\ \A x \in 1..i : s[x] \in kept => \E k \in 1..Len(t) : at[k] = x
    BY <1>4
  <2> HIDE DEF t, u
  <2>4. CASE s[i + 1] \notin kept
    <3>1. u = t /\ at \in [1..Len(t) -> 1..(i + 1)]
      BY <2>1, <2>2, <2>3, <2>4
    <3>2. \A x \in 1..(i + 1) : s[x] \in kept => \E k \in 1..Len(t) : at[k] = x
      BY <2>1, <2>3, <2>4
    <3>3. good(t, Len(t), i + 1)
      BY <2>3, <3>1, <3>2
    <3> HIDE DEF good
    <3>4. QED
      BY <2>1, <2>2, <3>1, <3>3 DEF u
  <2>5. CASE s[i + 1] \in kept
    <3> DEFINE l == Len(t)
               to == [k \in 1..(l + 1) |-> IF k = l + 1 THEN i + 1 ELSE at[k]]
    <3>1. s[i + 1] \in X /\ u = Append(t, s[i + 1]) /\ l \in Nat
      BY <1>1, <2>1, <2>2, <2>5
    <3>2. /\ u \in Seq(X) /\ Len(u) = l + 1 /\ u[l + 1] = s[i + 1]
          /\ \A k \in 1..l : u[k] = t[k]
      BY <2>2, <3>1
    <3>3. /\ \A k \in 1..(l + 1) : k \in 1..l \/ k = l + 1
          /\ \A k \in 1..l : k \in 1..(l + 1) /\ k # l + 1
          /\ l + 1 \in 1..(l + 1)
      BY <3>1
    <3>4. to[l + 1] = i + 1 /\ \A k \in 1..l : to[k] = at[k] /\ to[k] \in 1..i
      BY <2>3, <3>3
    <3>5. to \in [1..(l + 1) -> 1..(i + 1)]
      BY <2>1, <2>3, <3>3
    <3> HIDE DEF to, l
    <3>6. \A k \in 1..(l + 1) : u[k] = s[to[k]] /\ s[to[k]] \in kept
      BY <2>3, <2>5, <3>2, <3>3, <3>4 DEF l
    <3>7. \A j, k \in 1..(l + 1) : j # k => to[j] # to[k]
      BY <2>1, <2>3, <3>3, <3>4 DEF l
    <3>8. \A x \in 1..(i + 1) : s[x] \in kept => \E k \in 1..(l + 1) : to[k] = x
      BY <2>1, <2>3, <3>3, <3>4 DEF l
    <3>9. good(u, l + 1, i + 1)
      BY <3>5, <3>6, <3>7, <3>8
    <3> HIDE DEF good
    <3>10. QED
      BY <2>1, <3>2, <3>9 DEF u
  <2>6. QED
    BY <2>4, <2>5
<1>5. n \in Q
  <2> HIDE DEF Q
  <2>1. \A i \in 0..n : i \in Q
    BY <1>1, <1>3, <1>4, UpTo
  <2>2. QED
    BY <1>1, <2>1
<1>6. F[n] \in Seq(X) /\ good(F[n], Len(F[n]), n)
  BY <1>5
<1> DEFINE t == F[n]
<1>7. PICK at \in [1..Len(t) -> 1..n] :
           /\ \A k \in 1..Len(t) : t[k] = s[at[k]] /\ s[at[k]] \in kept
           /\ \A j, k \in 1..Len(t) : j # k => at[j] # at[k]
           /\ \A x \in 1..n : s[x] \in kept => \E k \in 1..Len(t) : at[k] = x
  BY <1>6
<1>8. DOMAIN t = 1..Len(t) /\ DOMAIN s = 1..n /\ t = Editor!Select(s, kept) /\ t \in Seq(X)
  BY <1>1, <1>2, <1>6
<1> HIDE DEF t
<1>9. Selected(t, s, kept)
  <2>1. /\ at \in [DOMAIN t -> DOMAIN s]
        /\ \A k \in DOMAIN t : t[k] = s[at[k]] /\ s[at[k]] \in kept
        /\ \A j, k \in DOMAIN t : j # k => at[j] # at[k]
        /\ \A i \in DOMAIN s : s[i] \in kept => \E k \in DOMAIN t : at[k] = i
    <3> HIDE DEF n
    <3>1. QED
      BY <1>7, <1>8
  <2>2. QED
    BY <2>1 DEF Selected
<1>10. QED
  BY <1>8, <1>9

-----------------------------------------------------------------------------
(* EditorFiles: panes.                                                        *)

EditorTab == EditorFile \cup EditorReview
EditorPanes == [id : Editor!Pane, tabs : Seq(EditorTab), active : EditorTab \cup {""}]
TabsOf(p) == Editor!ToSet(p.tabs)

\* A pane has tabs of a set, and shows one of them if it has any.
GoodPane(p, valid) ==
  /\ p \in EditorPanes /\ TabsOf(p) \subseteq valid
  /\ p.active \in TabsOf(p) \cup {""}
  /\ p.tabs # <<>> => p.active # ""

Apart(p, q) == p.id # q.id /\ TabsOf(p) \cap TabsOf(q) = {}

GoodPanes(panes, valid) ==
  /\ panes \in Seq(EditorPanes)
  /\ \A i \in DOMAIN panes : GoodPane(panes[i], valid)
  /\ \A i, j \in DOMAIN panes : i # j => Apart(panes[i], panes[j])

LEMMA EditorTabs == "" \notin EditorTab /\ EditorFile \cap EditorReview = {}
BY ProjectAssumption DEF Editor!EditorAssumption, EditorTab

LEMMA SetOfTabs ==
  ASSUME NEW tabs \in Seq(EditorTab)
  PROVE  /\ Editor!ToSet(tabs) \subseteq EditorTab
         /\ tabs = <<>> <=> Editor!ToSet(tabs) = {}
         /\ Editor!LastOr(tabs) \in Editor!ToSet(tabs) \cup {""}
         /\ tabs # <<>> => Editor!LastOr(tabs) \in Editor!ToSet(tabs)
         /\ tabs = <<>> => Editor!LastOr(tabs) = ""
         /\ \A x : Editor!Contains(tabs, x) <=> x \in Editor!ToSet(tabs)
<1>1. DOMAIN tabs = 1..Len(tabs) /\ Len(tabs) \in Nat /\ \A i \in 1..Len(tabs) : tabs[i] \in EditorTab
  OBVIOUS
<1>2. tabs = <<>> <=> Len(tabs) = 0
  OBVIOUS
<1>3. tabs # <<>> => Len(tabs) \in 1..Len(tabs)
  BY <1>1, <1>2
<1>4. Editor!ToSet(tabs) = {tabs[i] : i \in 1..Len(tabs)}
  BY <1>1 DEF Editor!ToSet
<1>5. tabs = <<>> <=> Editor!ToSet(tabs) = {}
  BY <1>1, <1>2, <1>3, <1>4
<1>6. /\ tabs # <<>> => Editor!LastOr(tabs) \in Editor!ToSet(tabs)
      /\ tabs = <<>> => Editor!LastOr(tabs) = ""
  BY <1>3, <1>4 DEF Editor!LastOr, Editor!Last
<1>7. \A x : Editor!Contains(tabs, x) <=> x \in Editor!ToSet(tabs)
  BY <1>4 DEF Editor!Contains
<1>8. QED
  BY <1>1, <1>4, <1>5, <1>6, <1>7

LEMMA SelectSet ==
  ASSUME NEW X, NEW s \in Seq(X), NEW kept
  PROVE  /\ Editor!Select(s, kept) \in Seq(X)
         /\ Editor!ToSet(Editor!Select(s, kept)) = Editor!ToSet(s) \cap kept
<1> DEFINE t == Editor!Select(s, kept)
<1>1. t \in Seq(X) /\ Selected(t, s, kept)
  BY FilterKeeps
<1> HIDE DEF t
<1>2. Editor!ToSet(t) = Editor!ToSet(s) \cap kept
  BY <1>1 DEF Selected, Editor!ToSet
<1>3. QED
  BY <1>1, <1>2 DEF t

LEMMA WithTab ==
  ASSUME NEW tabs \in Seq(EditorTab), NEW tab \in EditorTab
  PROVE  /\ Editor!With(tabs, tab) \in Seq(EditorTab) /\ Editor!Without(tabs, tab) \in Seq(EditorTab)
         /\ Editor!ToSet(Editor!With(tabs, tab)) = Editor!ToSet(tabs) \cup {tab}
         /\ Editor!ToSet(Editor!Without(tabs, tab)) = Editor!ToSet(tabs) \ {tab}
<1>1. /\ Editor!Without(tabs, tab) \in Seq(EditorTab)
      /\ Editor!ToSet(Editor!Without(tabs, tab)) = Editor!ToSet(tabs) \ {tab}
  BY SelectSet DEF Editor!Without
<1>2. CASE Editor!Contains(tabs, tab)
  BY <1>1, <1>2, SetOfTabs DEF Editor!With
<1>3. CASE ~Editor!Contains(tabs, tab)
  <2> DEFINE t == Append(tabs, tab)
  <2>1. /\ t \in Seq(EditorTab) /\ DOMAIN t = 1..(Len(tabs) + 1) /\ DOMAIN tabs = 1..Len(tabs)
        /\ t[Len(tabs) + 1] = tab /\ \A i \in 1..Len(tabs) : t[i] = tabs[i]
    OBVIOUS
  <2>2. Len(tabs) \in Nat /\ \A i \in 1..(Len(tabs) + 1) : i \in 1..Len(tabs) \/ i = Len(tabs) + 1
    OBVIOUS
  <2>3. \A i \in 1..Len(tabs) : i \in 1..(Len(tabs) + 1)
    BY <2>2
  <2>4. Len(tabs) + 1 \in 1..(Len(tabs) + 1)
    BY <2>2
  <2> HIDE DEF t
  <2>5. Editor!ToSet(t) = Editor!ToSet(tabs) \cup {tab}
    BY <2>1, <2>2, <2>3, <2>4 DEF Editor!ToSet
  <2>6. QED
    BY <1>1, <1>3, <2>1, <2>5 DEF t, Editor!With
<1>4. QED
  BY <1>2, <1>3

\* The pane of a name.
LEMMA ActiveIs ==
  ASSUME NEW valid, NEW panes, GoodPanes(panes, valid), NEW i \in DOMAIN panes, NEW g, panes[i].id = g
  PROVE  /\ Editor!Named(panes, g) = {i}
         /\ Editor!PaneOf(panes, g) = panes[i]
         /\ Editor!ActiveOf(panes, g) = panes[i].active
<1>1. Editor!Named(panes, g) = {i}
  BY DEF GoodPanes, Apart, Editor!Named
<1>2. Editor!PaneOf(panes, g) = panes[i]
  BY <1>1 DEF Editor!PaneOf
<1>3. QED
  BY <1>1, <1>2 DEF Editor!ActiveOf

\* Panes that are changed one by one, and keep their names.
LEMMA ChangedPanes ==
  ASSUME NEW valid, NEW panes, GoodPanes(panes, valid), NEW new, NEW V,
         new = [i \in DOMAIN panes |-> new[i]],
         \A i \in DOMAIN panes : GoodPane(new[i], V) /\ new[i].id = panes[i].id,
         \A i, j \in DOMAIN panes : i # j => TabsOf(new[i]) \cap TabsOf(new[j]) = {}
  PROVE  /\ GoodPanes(new, V)
         /\ \A g : Editor!Named(new, g) = Editor!Named(panes, g)
<1>1. DOMAIN new = DOMAIN panes /\ DOMAIN panes = 1..Len(panes) /\ Len(panes) \in Nat
  BY DEF GoodPanes
<1>2. \A i \in DOMAIN panes : new[i] \in EditorPanes
  BY DEF GoodPane
<1>3. new \in [1..Len(panes) -> EditorPanes]
  BY <1>1, <1>2
<1>4. new \in Seq(EditorPanes)
  BY <1>1, <1>3
<1>5. GoodPanes(new, V)
  BY <1>1, <1>4 DEF GoodPanes, Apart
<1>6. \A g : Editor!Named(new, g) = Editor!Named(panes, g)
  BY <1>1 DEF Editor!Named
<1>7. QED
  BY <1>5, <1>6

\* A file that is opened is in the pane it is opened in, and no other.
LEMMA OpenGood ==
  ASSUME NEW valid, NEW panes, GoodPanes(panes, valid), NEW g, Editor!Named(panes, g) # {},
         NEW f \in EditorTab, f \in valid
  PROVE  /\ GoodPanes(Editor!OpenFileIn(panes, g, f), valid)
         /\ Editor!Named(Editor!OpenFileIn(panes, g, f), g) # {}
         /\ Editor!ActiveOf(Editor!OpenFileIn(panes, g, f), g) = f
<1> DEFINE new == Editor!OpenFileIn(panes, g, f)
           opened(p) == [p EXCEPT !.tabs = Editor!With(@, f), !.active = f]
           left(p) == [p EXCEPT !.tabs = Editor!Without(@, f),
                                !.active = IF @ = f THEN Editor!LastOr(Editor!Without(p.tabs, f)) ELSE @]
<1>1. new = [i \in DOMAIN panes |-> IF panes[i].id = g THEN opened(panes[i]) ELSE left(panes[i])]
  BY DEF Editor!OpenFileIn
<1>2. ASSUME NEW p, GoodPane(p, valid)
      PROVE  /\ GoodPane(opened(p), valid) /\ opened(p).id = p.id /\ opened(p).active = f
             /\ TabsOf(opened(p)) = TabsOf(p) \cup {f}
             /\ GoodPane(left(p), valid) /\ left(p).id = p.id
             /\ TabsOf(left(p)) = TabsOf(p) \ {f}
  <2> DEFINE with == Editor!With(p.tabs, f)
             without == Editor!Without(p.tabs, f)
             a == IF p.active = f THEN Editor!LastOr(without) ELSE p.active
             q == opened(p)
             r == left(p)
  <2>1. p \in EditorPanes /\ p.tabs \in Seq(EditorTab) /\ p.active \in EditorTab \cup {""}
    BY <1>2 DEF GoodPane, EditorPanes
  <2>2. /\ with \in Seq(EditorTab) /\ Editor!ToSet(with) = TabsOf(p) \cup {f}
        /\ without \in Seq(EditorTab) /\ Editor!ToSet(without) = TabsOf(p) \ {f}
    BY <2>1, WithTab DEF TabsOf
  <2>3. q = [p EXCEPT !.tabs = with, !.active = f] /\ r = [p EXCEPT !.tabs = without, !.active = a]
    BY <2>1 DEF EditorPanes
  <2> HIDE DEF with, without, q, r
  <2>4. a \in EditorTab \cup {""} /\ a \in Editor!ToSet(without) \cup {""} /\ (without # <<>> => a # "")
    <3>1. /\ Editor!LastOr(without) \in Editor!ToSet(without) \cup {""}
          /\ without # <<>> => Editor!LastOr(without) \in Editor!ToSet(without)
          /\ Editor!ToSet(without) \subseteq EditorTab
      BY <2>2, SetOfTabs
    <3>2. p.tabs = <<>> => Editor!ToSet(p.tabs) = {}
      BY <2>1, SetOfTabs
    <3>3. without # <<>> => Editor!ToSet(without) # {}
      BY <2>2, SetOfTabs
    <3>4. without # <<>> => p.active # ""
      BY <1>2, <2>2, <3>2, <3>3 DEF GoodPane, TabsOf
    <3>5. QED
      BY <1>2, <2>1, <2>2, <3>1, <3>4, EditorTabs DEF GoodPane
  <2> HIDE DEF a
  <2>5. q \in EditorPanes /\ q.tabs = with /\ q.active = f /\ q.id = p.id
    BY <2>1, <2>2, <2>3 DEF EditorPanes
  <2>6. r \in EditorPanes /\ r.tabs = without /\ r.active = a /\ r.id = p.id
    BY <2>1, <2>2, <2>3, <2>4 DEF EditorPanes
  <2>7. TabsOf(q) = TabsOf(p) \cup {f} /\ TabsOf(r) = TabsOf(p) \ {f}
    BY <2>2, <2>5, <2>6 DEF TabsOf
  <2>8. GoodPane(q, valid)
    BY <1>2, <2>5, <2>7, EditorTabs DEF GoodPane
  <2>9. GoodPane(r, valid)
    <3>1. r.active \in TabsOf(r) \cup {""} /\ (r.tabs # <<>> => r.active # "")
      BY <2>2, <2>4, <2>6, <2>7
    <3>2. QED
      BY <1>2, <2>6, <2>7, <3>1 DEF GoodPane
  <2>10. QED
    BY <2>5, <2>6, <2>7, <2>8, <2>9 DEF q, r
<1>3. \A i \in DOMAIN panes : GoodPane(panes[i], valid)
  BY DEF GoodPanes
<1> HIDE DEF opened, left, new
<1>4. ASSUME NEW i \in DOMAIN panes
      PROVE  /\ GoodPane(new[i], valid) /\ new[i].id = panes[i].id
             /\ TabsOf(new[i]) = IF panes[i].id = g THEN TabsOf(panes[i]) \cup {f} ELSE TabsOf(panes[i]) \ {f}
  BY <1>1, <1>2, <1>3
<1>5. new = [i \in DOMAIN panes |-> new[i]]
  BY <1>1
<1>6. \A i, j \in DOMAIN panes : i # j => TabsOf(new[i]) \cap TabsOf(new[j]) = {}
  <2> TAKE i, j \in DOMAIN panes
  <2> HAVE i # j
  <2>1. panes[i].id # panes[j].id /\ TabsOf(panes[i]) \cap TabsOf(panes[j]) = {}
    BY DEF GoodPanes, Apart
  <2>2. QED
    BY <1>4, <2>1
<1>7. GoodPanes(new, valid) /\ Editor!Named(new, g) = Editor!Named(panes, g)
  BY <1>4, <1>5, <1>6, ChangedPanes
<1>8. PICK i \in DOMAIN panes : panes[i].id = g
  BY DEF Editor!Named
<1>9. new[i].active = f /\ new[i].id = g /\ i \in DOMAIN new
  BY <1>1, <1>2, <1>3, <1>4, <1>8
<1>10. Editor!ActiveOf(new, g) = f
  BY <1>7, <1>9, ActiveIs
<1>11. QED
  BY <1>7, <1>10 DEF new

\* Panes are pruned to the tabs that are there.
LEMMA PruneGood ==
  ASSUME NEW valid, NEW panes, GoodPanes(panes, valid), NEW V, V \subseteq EditorTab,
         NEW g, Editor!Named(panes, g) # {}
  PROVE  /\ GoodPanes(Editor!Prune(panes, V), V)
         /\ Editor!Named(Editor!Prune(panes, V), g) # {}
         /\ Editor!ActiveOf(Editor!Prune(panes, V), g) \in V \cup {""}
         /\ Editor!ActiveOf(panes, g) \in V \cup {""} =>
              Editor!ActiveOf(Editor!Prune(panes, V), g) = Editor!ActiveOf(panes, g)
<1> DEFINE new == Editor!Prune(panes, V)
           tabs(p) == Editor!Select(p.tabs, V)
           a(p) == IF p.active \in V THEN p.active ELSE Editor!LastOr(tabs(p))
           pruned(p) == [p EXCEPT !.tabs = tabs(p), !.active = a(p)]
<1>1. new = [i \in DOMAIN panes |-> pruned(panes[i])]
  BY DEF Editor!Prune
<1>2. ASSUME NEW p, GoodPane(p, valid)
      PROVE  /\ GoodPane(pruned(p), V) /\ pruned(p).id = p.id
             /\ TabsOf(pruned(p)) \subseteq TabsOf(p)
             /\ pruned(p).active \in V \cup {""}
             /\ p.active \in V \cup {""} => pruned(p).active = p.active
  <2> DEFINE q == pruned(p)
  <2>1. p \in EditorPanes /\ p.tabs \in Seq(EditorTab) /\ p.active \in EditorTab \cup {""}
    BY <1>2 DEF GoodPane, EditorPanes
  <2>2. tabs(p) \in Seq(EditorTab) /\ Editor!ToSet(tabs(p)) = TabsOf(p) \cap V
    BY <2>1, SelectSet DEF TabsOf
  <2> HIDE DEF tabs
  <2>3. /\ Editor!LastOr(tabs(p)) \in Editor!ToSet(tabs(p)) \cup {""}
        /\ tabs(p) # <<>> => Editor!LastOr(tabs(p)) \in Editor!ToSet(tabs(p))
        /\ tabs(p) = <<>> => Editor!LastOr(tabs(p)) = ""
        /\ tabs(p) = <<>> <=> Editor!ToSet(tabs(p)) = {}
        /\ p.tabs = <<>> <=> TabsOf(p) = {}
    BY <2>1, <2>2, SetOfTabs DEF TabsOf
  <2>4. "" \notin V /\ p.active \in TabsOf(p) \cup {""} /\ (p.tabs # <<>> => p.active # "")
    BY <1>2, EditorTabs DEF GoodPane
  <2>5. /\ a(p) \in Editor!ToSet(tabs(p)) \cup {""} /\ (tabs(p) # <<>> => a(p) # "")
        /\ a(p) \in EditorTab \cup {""} /\ a(p) \in V \cup {""}
        /\ p.active \in V \cup {""} => a(p) = p.active
    BY <2>1, <2>2, <2>3, <2>4
  <2>6. q = [p EXCEPT !.tabs = tabs(p), !.active = a(p)]
    OBVIOUS
  <2> HIDE DEF q, a
  <2>7. q \in EditorPanes /\ q.tabs = tabs(p) /\ q.active = a(p) /\ q.id = p.id
    BY <2>1, <2>2, <2>5, <2>6 DEF EditorPanes
  <2>8. TabsOf(q) = TabsOf(p) \cap V
    BY <2>2, <2>7 DEF TabsOf
  <2>9. GoodPane(q, V)
    BY <2>2, <2>5, <2>7, <2>8 DEF GoodPane
  <2>10. QED
    BY <2>5, <2>7, <2>8, <2>9 DEF q, a
<1>3. \A i \in DOMAIN panes : GoodPane(panes[i], valid)
  BY DEF GoodPanes
<1> HIDE DEF pruned, new
<1>4. ASSUME NEW i \in DOMAIN panes
      PROVE  /\ GoodPane(new[i], V) /\ new[i].id = panes[i].id
             /\ TabsOf(new[i]) \subseteq TabsOf(panes[i])
             /\ new[i].active \in V \cup {""}
             /\ panes[i].active \in V \cup {""} => new[i].active = panes[i].active
  BY <1>1, <1>2, <1>3
<1>5. new = [i \in DOMAIN panes |-> new[i]]
  BY <1>1
<1>6. \A i, j \in DOMAIN panes : i # j => TabsOf(new[i]) \cap TabsOf(new[j]) = {}
  <2> TAKE i, j \in DOMAIN panes
  <2> HAVE i # j
  <2>1. TabsOf(panes[i]) \cap TabsOf(panes[j]) = {}
    BY DEF GoodPanes, Apart
  <2>2. QED
    BY <1>4, <2>1
<1>7. GoodPanes(new, V) /\ Editor!Named(new, g) = Editor!Named(panes, g)
  <2>1. \A j \in DOMAIN panes : GoodPane(new[j], V) /\ new[j].id = panes[j].id
    BY <1>4
  <2>2. GoodPanes(new, V) /\ \A o : Editor!Named(new, o) = Editor!Named(panes, o)
    BY ONLY GoodPanes(panes, valid), <2>1, <1>5, <1>6, ChangedPanes
  <2>3. QED
    BY <2>2
<1>8. PICK i \in DOMAIN panes : panes[i].id = g
  BY DEF Editor!Named
<1>9. i \in DOMAIN new /\ new[i].id = g
  BY <1>1, <1>4, <1>8
<1>10. Editor!ActiveOf(new, g) = new[i].active /\ Editor!ActiveOf(panes, g) = panes[i].active
  BY <1>7, <1>8, <1>9, ActiveIs
<1>11. QED
  BY <1>4, <1>7, <1>10 DEF new

\* The tab that takes the place of a closed one is one that stays.
LEMMA NeighbourStays ==
  ASSUME NEW tabs \in Seq(EditorTab), NEW f \in Editor!ToSet(tabs)
  PROVE  /\ Editor!Neighbour(tabs, f) \in Editor!ToSet(Editor!Without(tabs, f)) \cup {""}
         /\ Editor!Without(tabs, f) # <<>> =>
              Editor!Neighbour(tabs, f) \in Editor!ToSet(Editor!Without(tabs, f))
<1> DEFINE rest == Editor!Without(tabs, f)
           i == CHOOSE j \in DOMAIN tabs : tabs[j] = f
           k == IF i <= Len(rest) THEN i ELSE Len(rest)
<1>1. f \in EditorTab
  BY SetOfTabs
<1>2. rest \in Seq(EditorTab)
  BY <1>1, WithTab
<1>3. i \in DOMAIN tabs /\ DOMAIN tabs = 1..Len(tabs)
  BY DEF Editor!ToSet
<1>4. Editor!Neighbour(tabs, f) = IF rest = <<>> THEN "" ELSE rest[k]
  BY DEF Editor!Neighbour
<1> HIDE DEF rest, i
<1>5. rest # <<>> => k \in DOMAIN rest
  BY <1>2, <1>3
<1>6. rest # <<>> => rest[k] \in Editor!ToSet(rest)
  BY <1>5 DEF Editor!ToSet
<1>7. QED
  BY <1>4, <1>6 DEF rest

LEMMA CloseGood ==
  ASSUME NEW valid, NEW panes, GoodPanes(panes, valid), NEW g, Editor!Named(panes, g) # {},
         NEW f, Editor!Contains(Editor!PaneOf(panes, g).tabs, f)
  PROVE  /\ GoodPanes(Editor!CloseFileIn(panes, g, f), valid \ {f})
         /\ Editor!Named(Editor!CloseFileIn(panes, g, f), g) # {}
         /\ Editor!ActiveOf(panes, g) # f =>
              Editor!ActiveOf(Editor!CloseFileIn(panes, g, f), g) = Editor!ActiveOf(panes, g)
<1> DEFINE new == Editor!CloseFileIn(panes, g, f)
           tabs(p) == Editor!Without(p.tabs, f)
           a(p) == IF p.active = f THEN Editor!Neighbour(p.tabs, f) ELSE p.active
           closed(p) == [p EXCEPT !.tabs = tabs(p), !.active = a(p)]
<1>1. PICK i \in DOMAIN panes : panes[i].id = g
  BY DEF Editor!Named
<1>2. /\ \A j \in DOMAIN panes : GoodPane(panes[j], valid)
      /\ \A j \in DOMAIN panes : panes[j].tabs \in Seq(EditorTab)
  BY DEF GoodPanes, GoodPane, EditorPanes
<1>3. f \in TabsOf(panes[i]) /\ Editor!Contains(panes[i].tabs, f)
  <2>1. Editor!PaneOf(panes, g) = panes[i]
    BY ONLY GoodPanes(panes, valid), <1>1, ActiveIs
  <2>2. Editor!Contains(panes[i].tabs, f) /\ panes[i].tabs \in Seq(EditorTab)
    BY <1>1, <1>2, <2>1
  <2>3. QED
    BY <2>2, SetOfTabs DEF TabsOf
<1>4. /\ new = [j \in DOMAIN panes |-> IF panes[j].id # g \/ ~Editor!Contains(panes[j].tabs, f)
                                       THEN panes[j] ELSE closed(panes[j])]
  BY DEF Editor!CloseFileIn
<1>5. \A j \in DOMAIN panes : j # i => panes[j].id # g /\ f \notin TabsOf(panes[j])
  BY <1>1, <1>3 DEF GoodPanes, Apart
<1>6. /\ GoodPane(closed(panes[i]), valid \ {f}) /\ closed(panes[i]).id = g
      /\ TabsOf(closed(panes[i])) \subseteq TabsOf(panes[i])
      /\ panes[i].active # f => closed(panes[i]).active = panes[i].active
  <2> DEFINE p == panes[i]
             q == closed(p)
  <2>1. /\ p \in EditorPanes /\ p.tabs \in Seq(EditorTab) /\ p.active \in EditorTab \cup {""}
        /\ f \in EditorTab /\ p.tabs # <<>>
    BY <1>2, <1>3, SetOfTabs DEF GoodPane, EditorPanes, TabsOf
  <2>2. tabs(p) \in Seq(EditorTab) /\ Editor!ToSet(tabs(p)) = TabsOf(p) \ {f}
    BY <2>1, WithTab DEF TabsOf
  <2>3. /\ Editor!Neighbour(p.tabs, f) \in Editor!ToSet(tabs(p)) \cup {""}
        /\ tabs(p) # <<>> => Editor!Neighbour(p.tabs, f) \in Editor!ToSet(tabs(p))
    BY <1>3, <2>1, NeighbourStays DEF TabsOf
  <2>4. /\ p.active \in TabsOf(p) /\ TabsOf(p) \subseteq valid /\ p.active # ""
    BY <1>2, <2>1 DEF GoodPane
  <2> HIDE DEF tabs
  <2>5. Editor!ToSet(tabs(p)) \subseteq EditorTab
    BY <2>2, SetOfTabs
  <2>6. /\ a(p) \in Editor!ToSet(tabs(p)) \cup {""} /\ (tabs(p) # <<>> => a(p) # "")
        /\ a(p) \in EditorTab \cup {""} /\ (p.active # f => a(p) = p.active)
    BY <2>1, <2>2, <2>3, <2>4, <2>5, EditorTabs
  <2>7. q = [p EXCEPT !.tabs = tabs(p), !.active = a(p)]
    OBVIOUS
  <2> HIDE DEF q, a
  <2>8. q \in EditorPanes /\ q.tabs = tabs(p) /\ q.active = a(p) /\ q.id = p.id
    BY <2>1, <2>2, <2>6, <2>7 DEF EditorPanes
  <2>9. TabsOf(q) = TabsOf(p) \ {f}
    BY <2>2, <2>8 DEF TabsOf
  <2>10. GoodPane(q, valid \ {f})
    BY <2>2, <2>4, <2>6, <2>8, <2>9 DEF GoodPane
  <2>11. QED
    BY <1>1, <2>6, <2>8, <2>9, <2>10 DEF q, a
<1> HIDE DEF closed, new
<1>7. new[i] = closed(panes[i]) /\ \A j \in DOMAIN panes : j # i => new[j] = panes[j]
  BY <1>1, <1>3, <1>4, <1>5
<1>8. \A j \in DOMAIN panes : /\ GoodPane(new[j], valid \ {f}) /\ new[j].id = panes[j].id
                              /\ TabsOf(new[j]) \subseteq TabsOf(panes[j])
  <2>1. \A j \in DOMAIN panes : j # i => GoodPane(panes[j], valid \ {f})
    BY <1>2, <1>5 DEF GoodPane
  <2>2. QED
    BY <1>1, <1>6, <1>7, <2>1
<1>9. new = [j \in DOMAIN panes |-> new[j]]
  BY <1>4
<1>10. \A j, k \in DOMAIN panes : j # k => TabsOf(new[j]) \cap TabsOf(new[k]) = {}
  <2> TAKE j, k \in DOMAIN panes
  <2> HAVE j # k
  <2>1. TabsOf(panes[j]) \cap TabsOf(panes[k]) = {}
    BY DEF GoodPanes, Apart
  <2>2. QED
    BY <1>8, <2>1
<1>11. GoodPanes(new, valid \ {f}) /\ Editor!Named(new, g) = Editor!Named(panes, g)
  <2>1. \A j \in DOMAIN panes : GoodPane(new[j], valid \ {f}) /\ new[j].id = panes[j].id
    BY <1>8
  <2>2. GoodPanes(new, valid \ {f}) /\ \A o : Editor!Named(new, o) = Editor!Named(panes, o)
    BY ONLY GoodPanes(panes, valid), <2>1, <1>9, <1>10, ChangedPanes
  <2>3. QED
    BY <2>2
<1>12. i \in DOMAIN new /\ new[i].id = g
  BY <1>1, <1>8, <1>9
<1>13. Editor!ActiveOf(new, g) = new[i].active /\ Editor!ActiveOf(panes, g) = panes[i].active
  BY <1>1, <1>11, <1>12, ActiveIs
<1>14. QED
  BY <1>6, <1>7, <1>11, <1>13 DEF new

LEMMA Inserted ==
  ASSUME NEW X, NEW s \in Seq(X), NEW t \in Seq(X), NEW x \in X, NEW new,
         new = s \o <<x>> \o t
  PROVE  /\ new \in Seq(X) /\ Len(new) = Len(s) + 1 + Len(t) /\ new[Len(s) + 1] = x
         /\ \A k \in 1..Len(s) : new[k] = s[k]
         /\ \A k \in 1..Len(t) : new[Len(s) + 1 + k] = t[k]
<1> DEFINE mid == s \o <<x>>
<1>1. /\ mid \in Seq(X) /\ Len(mid) = Len(s) + 1 /\ mid[Len(s) + 1] = x
      /\ \A k \in 1..Len(s) : mid[k] = s[k]
  OBVIOUS
<1>2. \A k \in 1..Len(s) : k \in 1..(Len(s) + 1)
  OBVIOUS
<1>3. Len(s) + 1 \in 1..(Len(s) + 1)
  OBVIOUS
<1> HIDE DEF mid
<1>31. mid \in Seq(X) /\ t \in Seq(X)
  BY <1>1
<1>4. /\ mid \o t \in Seq(X) /\ Len(mid \o t) = Len(mid) + Len(t)
      /\ \A k \in 1..Len(mid) : (mid \o t)[k] = mid[k]
      /\ \A k \in 1..Len(t) : (mid \o t)[Len(mid) + k] = t[k]
  BY ONLY <1>31
<1>5. QED
  BY <1>1, <1>2, <1>3, <1>4 DEF mid

\* A new pane beside another is empty.
LEMMA SplitGood ==
  ASSUME NEW valid, NEW panes, GoodPanes(panes, valid), NEW g, Editor!Named(panes, g) # {},
         NEW name \in Editor!Pane, Editor!Named(panes, name) = {}
  PROVE  /\ GoodPanes(Editor!SplitGroup(panes, g, name), valid)
         /\ Editor!Named(Editor!SplitGroup(panes, g, name), name) # {}
<1> DEFINE new == Editor!SplitGroup(panes, g, name)
           i == CHOOSE j \in Editor!Named(panes, g) : TRUE
           pane == Editor!NewPane(name)
           n == Len(panes)
<1>1. i \in 1..n /\ n \in Nat /\ panes \in Seq(EditorPanes) /\ DOMAIN panes = 1..n
  BY DEF Editor!Named, GoodPanes
<1>2. pane \in EditorPanes /\ pane.id = name /\ pane.tabs = <<>> /\ pane.active = "" /\ TabsOf(pane) = {}
  BY DEF Editor!NewPane, EditorPanes, TabsOf, Editor!ToSet
<1>3. GoodPane(pane, valid)
  BY <1>2 DEF GoodPane
<1>4. new = SubSeq(panes, 1, i) \o <<pane>> \o SubSeq(panes, i + 1, n)
  BY DEF Editor!SplitGroup
<1> HIDE DEF i, pane, new, n
<1> DEFINE s == SubSeq(panes, 1, i)
           t == SubSeq(panes, i + 1, n)
           mid == s \o <<pane>>
<1>5. /\ s \in Seq(EditorPanes) /\ Len(s) = i /\ \A k \in 1..i : s[k] = panes[k]
      /\ t \in Seq(EditorPanes) /\ Len(t) = n - i /\ \A k \in 1..(n - i) : t[k] = panes[i + k]
  <2>1. \A k \in 1..n : panes[k] \in EditorPanes
    BY <1>1
  <2>2. i \in Int /\ n \in Int /\ i >= 1 /\ i <= n /\ i + 1 \in Int
    BY <1>1
  <2>3. (\A k \in 1..i : panes[k] \in EditorPanes) /\ \A k \in (i + 1)..n : panes[k] \in EditorPanes
    BY <2>1, <2>2
  <2>4. s \in Seq(EditorPanes) /\ Len(s) = i /\ \A k \in 1..i : s[k] = panes[k]
    <3>1. /\ s \in Seq(EditorPanes) /\ Len(s) = IF 1 <= i THEN i - 1 + 1 ELSE 0
          /\ \A k \in 1..(i - 1 + 1) : s[k] = panes[1 + k - 1]
      BY <2>2, <2>3, SubSeqProperties
    <3> HIDE DEF s
    <3>2. QED
      BY <2>2, <3>1
  <2>5. t \in Seq(EditorPanes) /\ Len(t) = n - i /\ \A k \in 1..(n - i) : t[k] = panes[i + k]
    <3>1. /\ t \in Seq(EditorPanes) /\ Len(t) = IF i + 1 <= n THEN n - (i + 1) + 1 ELSE 0
          /\ \A k \in 1..(n - (i + 1) + 1) : t[k] = panes[i + 1 + k - 1]
      BY <2>2, <2>3, SubSeqProperties
    <3> HIDE DEF t
    <3>2. Len(t) = n - i
      BY <2>2, <3>1
    <3>3. \A k \in 1..(n - i) : k \in 1..(n - (i + 1) + 1) /\ i + 1 + k - 1 = i + k
      BY <2>2
    <3>4. QED
      BY <3>1, <3>2, <3>3
  <2>6. QED
    BY <2>4, <2>5
<1> HIDE DEF s, t
<1>51. /\ new \in Seq(EditorPanes) /\ Len(new) = Len(s) + 1 + Len(t) /\ new[Len(s) + 1] = pane
       /\ \A k \in 1..Len(s) : new[k] = s[k]
       /\ \A k \in 1..Len(t) : new[Len(s) + 1 + k] = t[k]
  <2>1. new = s \o <<pane>> \o t /\ pane \in EditorPanes /\ s \in Seq(EditorPanes) /\ t \in Seq(EditorPanes)
    BY <1>2, <1>4, <1>5 DEF s, t
  <2>2. QED
    BY ONLY <2>1, Inserted
<1>6. /\ new \in Seq(EditorPanes) /\ Len(new) = n + 1 /\ new[i + 1] = pane
      /\ \A k \in 1..i : new[k] = panes[k]
      /\ \A k \in (i + 2)..(n + 1) : new[k] = panes[k - 1]
  <2>1. Len(new) = n + 1 /\ new[i + 1] = pane /\ \A k \in 1..i : new[k] = panes[k]
    BY <1>1, <1>5, <1>51
  <2>2. ASSUME NEW k \in (i + 2)..(n + 1) PROVE new[k] = panes[k - 1]
    <3> DEFINE m == k - (i + 1)
    <3>1. m \in 1..(n - i) /\ i + 1 + m = k /\ i + m = k - 1
      BY <1>1
    <3> HIDE DEF m
    <3>2. new[i + 1 + m] = t[m] /\ t[m] = panes[i + m]
      BY <1>5, <1>51, <3>1
    <3>3. QED
      BY <3>1, <3>2
  <2>3. QED
    BY <1>51, <2>1, <2>2
<1>7. DOMAIN new = 1..(n + 1) /\ i + 1 \in 1..(n + 1)
  BY <1>1, <1>6
<1> DEFINE from(k) == IF k <= i THEN k ELSE k - 1
<1>8. ASSUME NEW k \in DOMAIN new, k # i + 1
      PROVE  from(k) \in DOMAIN panes /\ new[k] = panes[from(k)]
  <2>1. k \in 1..i \/ k \in (i + 2)..(n + 1)
    BY <1>1, <1>7, <1>8
  <2>2. QED
    BY <1>1, <1>6, <2>1
<1>9. ASSUME NEW j \in DOMAIN new, NEW k \in DOMAIN new, j # i + 1, k # i + 1, j # k
      PROVE  from(j) # from(k)
  BY <1>1, <1>7, <1>9
<1> HIDE DEF from
<1>10. /\ \A k \in DOMAIN panes : GoodPane(panes[k], valid) /\ Apart(panes[k], pane) /\ Apart(pane, panes[k])
       /\ \A j, k \in DOMAIN panes : j # k => Apart(panes[j], panes[k])
  BY <1>2 DEF GoodPanes, Apart, Editor!Named
<1>11. \A k \in DOMAIN new : GoodPane(new[k], valid)
  BY <1>3, <1>6, <1>8, <1>10
<1>12. \A j, k \in DOMAIN new : j # k => Apart(new[j], new[k])
  BY <1>6, <1>8, <1>9, <1>10
<1>13. GoodPanes(new, valid)
  BY <1>6, <1>11, <1>12 DEF GoodPanes
<1>14. Editor!Named(new, name) # {}
  BY <1>2, <1>6, <1>7 DEF Editor!Named
<1>15. QED
  BY <1>13, <1>14 DEF new

LEMMA ConcatSet ==
  ASSUME NEW s \in Seq(EditorTab), NEW t \in Seq(EditorTab)
  PROVE  s \o t \in Seq(EditorTab) /\ Editor!ToSet(s \o t) = Editor!ToSet(s) \cup Editor!ToSet(t)
<1> DEFINE u == s \o t
<1>1. /\ u \in Seq(EditorTab) /\ Len(u) = Len(s) + Len(t) /\ Len(s) \in Nat /\ Len(t) \in Nat
      /\ DOMAIN u = 1..Len(u) /\ DOMAIN s = 1..Len(s) /\ DOMAIN t = 1..Len(t)
      /\ \A k \in 1..Len(s) : u[k] = s[k]
      /\ \A k \in 1..Len(t) : u[Len(s) + k] = t[k]
  OBVIOUS
<1> HIDE DEF u
<1>2. \A k \in DOMAIN u : k \in 1..Len(s) \/ \E j \in 1..Len(t) : k = Len(s) + j
  <2> TAKE k \in DOMAIN u
  <2>1. k \in 1..Len(s) \/ k - Len(s) \in 1..Len(t)
    BY <1>1
  <2>2. k = Len(s) + (k - Len(s))
    BY <1>1
  <2>3. QED
    BY <2>1, <2>2
<1>3. /\ \A k \in 1..Len(s) : k \in DOMAIN u
      /\ \A k \in 1..Len(t) : Len(s) + k \in DOMAIN u
  BY <1>1
<1>4. Editor!ToSet(u) = Editor!ToSet(s) \cup Editor!ToSet(t)
  <2>1. /\ \A x : x \in Editor!ToSet(u) <=> \E k \in DOMAIN u : x = u[k]
        /\ \A x : x \in Editor!ToSet(s) <=> \E k \in DOMAIN s : x = s[k]
        /\ \A x : x \in Editor!ToSet(t) <=> \E k \in DOMAIN t : x = t[k]
    BY DEF Editor!ToSet
  <2>2. ASSUME NEW x \in Editor!ToSet(u) PROVE x \in Editor!ToSet(s) \/ x \in Editor!ToSet(t)
    <3>1. PICK k \in DOMAIN u : x = u[k]
      BY <2>1, <2>2
    <3>2. CASE k \in 1..Len(s)
      BY <1>1, <2>1, <3>1, <3>2
    <3>3. CASE \E j \in 1..Len(t) : k = Len(s) + j
      BY <1>1, <2>1, <3>1, <3>3
    <3>4. QED
      BY <1>2, <3>2, <3>3
  <2>3. ASSUME NEW x \in Editor!ToSet(s) PROVE x \in Editor!ToSet(u)
    BY <1>1, <1>3, <2>1
  <2>4. ASSUME NEW x \in Editor!ToSet(t) PROVE x \in Editor!ToSet(u)
    <3>1. PICK k \in 1..Len(t) : x = t[k]
      BY <1>1, <2>1
    <3>2. Len(s) + k \in DOMAIN u /\ u[Len(s) + k] = x
      BY <1>1, <1>3, <3>1
    <3>3. QED
      BY <2>1, <3>2
  <2>5. QED
    BY <2>2, <2>3, <2>4
<1>5. QED
  BY <1>1, <1>4 DEF u

\* The tabs of a pane that is closed go to a pane that stays.
LEMMA RemoveGood ==
  ASSUME NEW valid, NEW panes, GoodPanes(panes, valid), NEW g, Editor!Named(panes, g) # {}, Len(panes) > 1
  PROVE  /\ GoodPanes(Editor!RemoveGroup(panes, g), valid)
         /\ Editor!Named(Editor!RemoveGroup(panes, g), Editor!Heir(panes, g)) # {}
<1> DEFINE new == Editor!RemoveGroup(panes, g)
           i == CHOOSE j \in Editor!Named(panes, g) : TRUE
           e == IF i = 1 THEN 2 ELSE i - 1
           heir == Editor!Heir(panes, g)
           old == Editor!PaneOf(panes, g)
           more(p) == Editor!Select(old.tabs, Editor!ToSet(old.tabs) \ Editor!ToSet(p.tabs))
           tabs(p) == p.tabs \o more(p)
           a(p) == IF p.active = "" THEN old.active ELSE p.active
           fed(p) == [p EXCEPT !.tabs = tabs(p), !.active = a(p)]
           merged == [j \in DOMAIN panes |-> IF panes[j].id # heir THEN panes[j] ELSE fed(panes[j])]
           kept == {p \in Editor!ToSet(merged) : p.id # g}
<1>1. /\ panes \in Seq(EditorPanes) /\ DOMAIN panes = 1..Len(panes) /\ Len(panes) \in Nat
      /\ i \in DOMAIN panes /\ panes[i].id = g
  BY DEF GoodPanes, Editor!Named
<1>2. e \in DOMAIN panes /\ e # i
  <2> HIDE DEF i
  <2>1. i \in 1..Len(panes) /\ Len(panes) \in Nat /\ Len(panes) > 1
    BY <1>1
  <2>2. e \in 1..Len(panes) /\ e # i
    BY <2>1
  <2>3. QED
    BY <1>1, <2>2
<1>3. heir = panes[e].id /\ old = panes[i]
  BY <1>1, ActiveIs DEF Editor!Heir
<1>4. new = Editor!Select(merged, kept)
  BY DEF Editor!RemoveGroup
<1> HIDE DEF i, e, heir, old, new
<1>5. /\ \A j \in DOMAIN panes : GoodPane(panes[j], valid)
      /\ \A j, k \in DOMAIN panes : j # k => Apart(panes[j], panes[k])
      /\ \A j \in DOMAIN panes : panes[j].id = heir => j = e
      /\ \A j \in DOMAIN panes : panes[j].id = g => j = i
      /\ heir # g
  BY <1>1, <1>2, <1>3 DEF GoodPanes, Apart
<1>6. /\ GoodPane(fed(panes[e]), valid) /\ fed(panes[e]).id = heir
      /\ TabsOf(fed(panes[e])) = TabsOf(panes[e]) \cup TabsOf(old)
  <2> DEFINE p == panes[e]
             q == fed(p)
  <2>1. /\ p \in EditorPanes /\ p.tabs \in Seq(EditorTab) /\ p.active \in EditorTab \cup {""}
        /\ old \in EditorPanes /\ old.tabs \in Seq(EditorTab) /\ old.active \in EditorTab \cup {""}
        /\ GoodPane(p, valid) /\ GoodPane(old, valid)
    BY <1>1, <1>2, <1>3, <1>5 DEF GoodPane, EditorPanes
  <2>2. more(p) \in Seq(EditorTab) /\ Editor!ToSet(more(p)) = TabsOf(old) \ TabsOf(p)
    <3> DEFINE others == Editor!ToSet(old.tabs) \ Editor!ToSet(p.tabs)
    <3>1. more(p) = Editor!Select(old.tabs, others)
      OBVIOUS
    <3> HIDE DEF others, more, p
    <3>2. old.tabs \in Seq(EditorTab)
      BY <2>1
    <3>3. /\ Editor!Select(old.tabs, others) \in Seq(EditorTab)
          /\ Editor!ToSet(Editor!Select(old.tabs, others)) = Editor!ToSet(old.tabs) \cap others
      BY <3>2, SelectSet
    <3>4. QED
      BY <3>1, <3>3 DEF others, TabsOf
  <2> HIDE DEF p, more
  <2>3. tabs(p) \in Seq(EditorTab) /\ Editor!ToSet(tabs(p)) = Editor!ToSet(p.tabs) \cup Editor!ToSet(more(p))
    BY <2>1, <2>2, ConcatSet
  <2> HIDE DEF tabs
  <2>4. Editor!ToSet(tabs(p)) = TabsOf(p) \cup TabsOf(old)
    BY <2>2, <2>3 DEF TabsOf
  <2>5. /\ a(p) \in EditorTab \cup {""} /\ a(p) \in Editor!ToSet(tabs(p)) \cup {""}
        /\ tabs(p) # <<>> => a(p) # ""
    <3>1. tabs(p) # <<>> => Editor!ToSet(tabs(p)) # {}
      BY <2>3, SetOfTabs
    <3>2. (p.tabs = <<>> <=> TabsOf(p) = {}) /\ (old.tabs = <<>> <=> TabsOf(old) = {})
      BY <2>1, SetOfTabs DEF TabsOf
    <3>3. /\ p.active \in TabsOf(p) \cup {""} /\ (p.tabs # <<>> => p.active # "")
          /\ old.active \in TabsOf(old) \cup {""} /\ (old.tabs # <<>> => old.active # "")
      BY <2>1 DEF GoodPane
    <3>4. QED
      BY <2>1, <2>4, <3>1, <3>2, <3>3
  <2>6. q = [p EXCEPT !.tabs = tabs(p), !.active = a(p)]
    OBVIOUS
  <2> HIDE DEF q, a
  <2>7. q \in EditorPanes /\ q.tabs = tabs(p) /\ q.active = a(p) /\ q.id = p.id
    BY <2>1, <2>3, <2>5, <2>6 DEF EditorPanes
  <2>8. TabsOf(q) = TabsOf(p) \cup TabsOf(old)
    BY <2>4, <2>7 DEF TabsOf
  <2>9. GoodPane(q, valid)
    BY <2>1, <2>4, <2>5, <2>7, <2>8 DEF GoodPane
  <2>10. QED
    BY <1>3, <2>7, <2>8, <2>9 DEF q, p
<1> HIDE DEF fed
<1>7. /\ DOMAIN merged = DOMAIN panes /\ merged[e] = fed(panes[e])
      /\ \A j \in DOMAIN panes : j # e => merged[j] = panes[j]
  BY <1>2, <1>3, <1>5
<1>8. \A j \in DOMAIN panes : GoodPane(merged[j], valid) /\ merged[j].id = panes[j].id
  BY <1>2, <1>3, <1>5, <1>6, <1>7
<1> HIDE DEF merged
<1>9. ASSUME NEW j \in DOMAIN panes, NEW k \in DOMAIN panes, j # k, j # i, k # i
      PROVE  Apart(merged[j], merged[k])
  <2>1. Apart(panes[j], panes[k]) /\ Apart(panes[j], old) /\ Apart(panes[k], old)
    BY <1>1, <1>3, <1>5, <1>9
  <2>2. QED
    BY <1>2, <1>6, <1>7, <1>8, <1>9, <2>1 DEF Apart
<1>10. merged \in Seq(EditorPanes)
  <2>1. \A j \in 1..Len(panes) : merged[j] \in EditorPanes
    BY <1>1, <1>8 DEF GoodPane
  <2>2. merged = [j \in 1..Len(panes) |-> merged[j]]
    BY <1>1, <1>7 DEF merged
  <2>3. merged \in [1..Len(panes) -> EditorPanes]
    BY <2>1, <2>2
  <2>4. QED
    BY <1>1, <2>3
<1>11. new \in Seq(EditorPanes) /\ Selected(new, merged, kept)
  BY <1>4, <1>10, FilterKeeps
<1>12. PICK at \in [DOMAIN new -> DOMAIN panes] :
         /\ \A k \in DOMAIN new : new[k] = merged[at[k]] /\ merged[at[k]] \in kept
         /\ \A j, k \in DOMAIN new : j # k => at[j] # at[k]
         /\ \A j \in DOMAIN panes : merged[j] \in kept => \E k \in DOMAIN new : at[k] = j
  BY <1>7, <1>11 DEF Selected
<1>13. \A j \in DOMAIN panes : merged[j] \in kept <=> j # i
  BY <1>1, <1>5, <1>7, <1>8 DEF Editor!ToSet
<1> HIDE DEF kept
<1>14. \A k \in DOMAIN new : at[k] \in DOMAIN panes /\ at[k] # i
  BY <1>12, <1>13
<1>15. GoodPanes(new, valid)
  <2>1. \A k \in DOMAIN new : GoodPane(new[k], valid)
    BY <1>8, <1>12, <1>14
  <2>2. ASSUME NEW j \in DOMAIN new, NEW k \in DOMAIN new, j # k PROVE Apart(new[j], new[k])
    <3>1. at[j] # at[k] /\ new[j] = merged[at[j]] /\ new[k] = merged[at[k]]
      BY <1>12, <2>2
    <3>2. at[j] \in DOMAIN panes /\ at[k] \in DOMAIN panes /\ at[j] # i /\ at[k] # i
      BY <1>14
    <3>3. Apart(merged[at[j]], merged[at[k]])
      BY <1>9, <3>1, <3>2
    <3>4. QED
      BY <3>1, <3>3
  <2>3. QED
    BY <1>11, <2>1, <2>2 DEF GoodPanes
<1>16. Editor!Named(new, heir) # {}
  <2>1. PICK k \in DOMAIN new : at[k] = e
    BY <1>2, <1>12, <1>13
  <2>2. new[k].id = heir
    BY <1>2, <1>3, <1>8, <1>12, <2>1
  <2>3. QED
    BY <2>2 DEF Editor!Named
<1>17. QED
  BY <1>15, <1>16 DEF new, heir

LEMMA MoreTabs ==
  ASSUME NEW valid, NEW panes, GoodPanes(panes, valid), NEW V, valid \subseteq V
  PROVE  GoodPanes(panes, V)
BY DEF GoodPanes, GoodPane

OpenTabs(files, reviews) == Editor!ToSet(files) \cup reviews

\* Panes with a pane of the focus, and the active file of that pane.
Shown(panes, g, active, valid) ==
  /\ GoodPanes(panes, valid) /\ Editor!Named(panes, g) # {}
  /\ active = Editor!FileOr(Editor!ActiveOf(panes, g))

FilesKnown(files, stored, file, reviews) ==
  /\ files \in Seq(EditorFile) /\ stored \in EditorFile \cup {""} /\ file \in EditorFile \cup {""}
  /\ reviews \subseteq EditorReview

EditorInv ==
  /\ FilesKnown(eFiles, eStored, eProviderFile, eReviews)
  /\ Shown(eGroups, eGroup, eActive, OpenTabs(eFiles, eReviews))

LEMMA SetOfFiles ==
  ASSUME NEW s \in Seq(EditorFile)
  PROVE  /\ Editor!ToSet(s) \subseteq EditorFile /\ s \in Seq(EditorTab)
         /\ \A f : Editor!Contains(s, f) <=> f \in Editor!ToSet(s)
         /\ s # <<>> => Head(s) \in Editor!ToSet(s)
         /\ s = <<>> => Editor!ToSet(s) = {}
<1>1. DOMAIN s = 1..Len(s) /\ Len(s) \in Nat /\ \A i \in 1..Len(s) : s[i] \in EditorFile
  OBVIOUS
<1>2. Editor!ToSet(s) \subseteq EditorFile
  BY <1>1 DEF Editor!ToSet
<1>3. s \in Seq(EditorTab)
  BY DEF EditorTab
<1>4. s # <<>> => 1 \in DOMAIN s /\ Head(s) = s[1]
  OBVIOUS
<1>5. s # <<>> => Head(s) \in Editor!ToSet(s)
  BY <1>4 DEF Editor!ToSet
<1>6. /\ \A f : Editor!Contains(s, f) <=> f \in Editor!ToSet(s)
      /\ s = <<>> => Editor!ToSet(s) = {}
  BY <1>3, SetOfTabs
<1>7. QED
  BY <1>2, <1>3, <1>5, <1>6

LEMMA FilesAreShown ==
  /\ \A f \in EditorFile : Editor!FileOr(f) = f
  /\ \A r \in EditorReview : Editor!FileOr(r) = ""
  /\ Editor!FileOr("") = ""
BY EditorTabs DEF Editor!FileOr, EditorTab

\* What setActiveFile does keeps the types.
LEMMA ActiveKnown ==
  ASSUME NEW f, EditorInv, Editor!SetActiveFile(f)
  PROVE  /\ eStored' \in EditorFile \cup {""} /\ eProviderFile' \in EditorFile \cup {""}
<1>1. eFiles \in Seq(EditorFile) /\ eStored \in EditorFile \cup {""} /\ eProviderFile \in EditorFile \cup {""}
  BY DEF EditorInv, FilesKnown
<1>2. Editor!Activates(f) => f \in EditorFile
  BY <1>1, SetOfFiles DEF Editor!Activates
<1>3. QED
  BY <1>1, <1>2 DEF Editor!SetActiveFile

\* A pane that gets the focus shows the active file.
LEMMA FocusKeeps ==
  ASSUME EditorInv, NEW reviews, NEW panes, GoodPanes(panes, OpenTabs(eFiles, reviews)),
         NEW g, Editor!Named(panes, g) # {}, Editor!Focus(panes, g)
  PROVE  /\ Shown(eGroups', eGroup', eActive', OpenTabs(eFiles, reviews))
         /\ eStored' \in EditorFile \cup {""} /\ eProviderFile' \in EditorFile \cup {""}
<1> DEFINE f == Editor!FileOr(Editor!ActiveOf(panes, g))
<1>1. /\ eGroup' = g /\ eActive' = f /\ Editor!SetActiveFile(f)
      /\ eGroups' = IF Editor!Activates(f) THEN Editor!OpenFileIn(panes, g, f) ELSE panes
  BY DEF Editor!Focus, Editor!Activated
<1>2. eStored' \in EditorFile \cup {""} /\ eProviderFile' \in EditorFile \cup {""}
  BY <1>1, ActiveKnown
<1> HIDE DEF f
<1>3. CASE Editor!Activates(f)
  <2>1. eFiles \in Seq(EditorFile)
    BY DEF EditorInv, FilesKnown
  <2>2. f \in EditorFile /\ f \in OpenTabs(eFiles, reviews) /\ f \in EditorTab
    BY <1>3, <2>1, SetOfFiles DEF Editor!Activates, OpenTabs, EditorTab
  <2>3. /\ GoodPanes(Editor!OpenFileIn(panes, g, f), OpenTabs(eFiles, reviews))
        /\ Editor!Named(Editor!OpenFileIn(panes, g, f), g) # {}
        /\ Editor!ActiveOf(Editor!OpenFileIn(panes, g, f), g) = f
    BY <2>2, OpenGood
  <2>4. Editor!FileOr(f) = f
    BY <2>2, FilesAreShown
  <2>5. QED
    BY <1>1, <1>2, <1>3, <2>3, <2>4 DEF Shown
<1>4. CASE ~Editor!Activates(f)
  <2>1. eGroups' = panes /\ eActive' = Editor!FileOr(Editor!ActiveOf(panes, g))
    BY <1>1, <1>4 DEF f
  <2>2. QED
    BY <1>1, <1>2, <2>1 DEF Shown
<1>5. QED
  BY <1>3, <1>4

LEMMA EditorFacts ==
  ASSUME EditorInv
  PROVE  /\ eFiles \in Seq(EditorFile) /\ eStored \in EditorFile \cup {""}
         /\ eProviderFile \in EditorFile \cup {""} /\ eReviews \subseteq EditorReview
         /\ GoodPanes(eGroups, OpenTabs(eFiles, eReviews)) /\ Editor!Named(eGroups, eGroup) # {}
         /\ eActive = Editor!FileOr(Editor!ActiveOf(eGroups, eGroup))
         /\ Editor!ActiveOf(eGroups, eGroup) \in OpenTabs(eFiles, eReviews) \cup {""}
<1>1. /\ eFiles \in Seq(EditorFile) /\ eStored \in EditorFile \cup {""}
      /\ eProviderFile \in EditorFile \cup {""} /\ eReviews \subseteq EditorReview
      /\ GoodPanes(eGroups, OpenTabs(eFiles, eReviews)) /\ Editor!Named(eGroups, eGroup) # {}
      /\ eActive = Editor!FileOr(Editor!ActiveOf(eGroups, eGroup))
  BY DEF EditorInv, FilesKnown, Shown
<1>2. PICK i \in DOMAIN eGroups : eGroups[i].id = eGroup
  BY <1>1 DEF Editor!Named
<1>3. Editor!ActiveOf(eGroups, eGroup) = eGroups[i].active
  BY <1>1, <1>2, ActiveIs
<1>4. GoodPane(eGroups[i], OpenTabs(eFiles, eReviews))
  BY <1>1, <1>2 DEF GoodPanes
<1>5. QED
  BY <1>1, <1>3, <1>4 DEF GoodPane

-----------------------------------------------------------------------------
(* EditorFiles: the events.                                                   *)

LEMMA FocusStep ==
  ASSUME EditorInv, NEW g, Editor!SetActiveEditorGroup(g) PROVE EditorInv'
<1>1. /\ Editor!Named(eGroups, g) # {} /\ Editor!Focus(eGroups, g)
      /\ eFiles' = eFiles /\ eReviews' = eReviews
  BY DEF Editor!SetActiveEditorGroup
<1>2. /\ Shown(eGroups', eGroup', eActive', OpenTabs(eFiles, eReviews))
      /\ eStored' \in EditorFile \cup {""} /\ eProviderFile' \in EditorFile \cup {""}
  BY <1>1, EditorFacts, FocusKeeps
<1>3. QED
  BY <1>1, <1>2, EditorFacts DEF EditorInv, FilesKnown

LEMMA OpenStep ==
  ASSUME EditorInv, NEW f \in EditorFile, NEW g, Editor!OpenFile(f, g) PROVE EditorInv'
<1>1. /\ Editor!Contains(eFiles, f) /\ Editor!Named(eGroups, g) # {} /\ eGroup' = g /\ eActive' = f
      /\ Editor!SetActiveFile(f) /\ eGroups' = Editor!OpenFileIn(eGroups, g, f)
      /\ eFiles' = eFiles /\ eReviews' = eReviews
  BY DEF Editor!OpenFile
<1>2. f \in OpenTabs(eFiles, eReviews) /\ f \in EditorTab
  BY <1>1, EditorFacts, SetOfFiles DEF OpenTabs, EditorTab
<1>3. /\ GoodPanes(eGroups', OpenTabs(eFiles, eReviews)) /\ Editor!Named(eGroups', g) # {}
      /\ Editor!ActiveOf(eGroups', g) = f
  <2>1. GoodPanes(eGroups, OpenTabs(eFiles, eReviews)) /\ Editor!Named(eGroups, g) # {}
    BY <1>1, EditorFacts
  <2>2. /\ GoodPanes(Editor!OpenFileIn(eGroups, g, f), OpenTabs(eFiles, eReviews))
        /\ Editor!Named(Editor!OpenFileIn(eGroups, g, f), g) # {}
        /\ Editor!ActiveOf(Editor!OpenFileIn(eGroups, g, f), g) = f
    BY ONLY <1>2, <2>1, OpenGood
  <2>3. QED
    BY <1>1, <2>2
<1>4. eStored' \in EditorFile \cup {""} /\ eProviderFile' \in EditorFile \cup {""} /\ Editor!FileOr(f) = f
  BY <1>1, ActiveKnown, FilesAreShown
<1>5. QED
  BY <1>1, <1>3, <1>4, EditorFacts DEF EditorInv, FilesKnown, Shown

LEMMA ReviewStep ==
  ASSUME EditorInv, NEW r \in EditorReview, Editor!OpenReviewTab(r) PROVE EditorInv'
<1>1. /\ eReviews' = eReviews \cup {r} /\ eActive' = "" /\ eGroups' = Editor!OpenFileIn(eGroups, eGroup, r)
      /\ eFiles' = eFiles /\ eStored' = eStored /\ eProviderFile' = eProviderFile /\ eGroup' = eGroup
  BY DEF Editor!OpenReviewTab
<1> DEFINE V == OpenTabs(eFiles, eReviews \cup {r})
<1>2. r \in V /\ r \in EditorTab /\ OpenTabs(eFiles, eReviews) \subseteq V
  BY DEF OpenTabs, EditorTab
<1> HIDE DEF V
<1>3. GoodPanes(eGroups, V) /\ Editor!Named(eGroups, eGroup) # {}
  BY <1>2, EditorFacts, MoreTabs
<1>4. /\ GoodPanes(Editor!OpenFileIn(eGroups, eGroup, r), V)
      /\ Editor!Named(Editor!OpenFileIn(eGroups, eGroup, r), eGroup) # {}
      /\ Editor!ActiveOf(Editor!OpenFileIn(eGroups, eGroup, r), eGroup) = r
  BY <1>2, <1>3, OpenGood
<1>5. Shown(eGroups', eGroup', eActive', V)
  BY <1>1, <1>4, FilesAreShown DEF Shown
<1>6. OpenTabs(eFiles', eReviews') = V
  BY <1>1 DEF V
<1>7. QED
  BY <1>1, <1>5, <1>6, EditorFacts DEF EditorInv, FilesKnown

LEMMA CloseStep ==
  ASSUME EditorInv, NEW f, Editor!CloseFileTab(f) PROVE EditorInv'
<1> DEFINE next == Editor!CloseFileIn(eGroups, eGroup, f)
           V == OpenTabs(eFiles, eReviews \ {f})
<1>1. /\ Editor!Contains(Editor!PaneOf(eGroups, eGroup).tabs, f) /\ eReviews' = eReviews \ {f}
      /\ eFiles' = eFiles
      /\ IF Editor!ActiveOf(eGroups, eGroup) = f THEN Editor!Focus(next, eGroup)
         ELSE /\ eGroups' = next /\ eGroup' = eGroup /\ eActive' = eActive
              /\ eProviderFile' = eProviderFile /\ eStored' = eStored
  BY DEF Editor!CloseFileTab
<1> HIDE DEF next
<1>2. /\ GoodPanes(next, OpenTabs(eFiles, eReviews) \ {f}) /\ Editor!Named(next, eGroup) # {}
      /\ Editor!ActiveOf(eGroups, eGroup) # f =>
             Editor!ActiveOf(next, eGroup) = Editor!ActiveOf(eGroups, eGroup)
  <2>1. GoodPanes(eGroups, OpenTabs(eFiles, eReviews)) /\ Editor!Named(eGroups, eGroup) # {}
    BY EditorFacts
  <2>2. Editor!Contains(Editor!PaneOf(eGroups, eGroup).tabs, f)
    BY <1>1
  <2>3. QED
    BY ONLY <2>1, <2>2, CloseGood DEF next
<1>3. OpenTabs(eFiles, eReviews) \ {f} \subseteq V
  BY DEF OpenTabs
<1>4. GoodPanes(next, V)
  BY <1>2, <1>3, MoreTabs
<1>5. /\ Shown(eGroups', eGroup', eActive', V)
      /\ eStored' \in EditorFile \cup {""} /\ eProviderFile' \in EditorFile \cup {""}
  <2>1. CASE Editor!ActiveOf(eGroups, eGroup) = f
    BY <1>1, <1>2, <1>4, <2>1, FocusKeeps
  <2>2. CASE Editor!ActiveOf(eGroups, eGroup) # f
    BY <1>1, <1>2, <1>4, <2>2, EditorFacts DEF Shown
  <2>3. QED
    BY <2>1, <2>2
<1>6. QED
  BY <1>1, <1>5, EditorFacts DEF EditorInv, FilesKnown

LEMMA SplitStep ==
  ASSUME EditorInv, NEW name \in Editor!Pane, Editor!SplitWorkspace(name) PROVE EditorInv'
<1> DEFINE next == Editor!SplitGroup(eGroups, eGroup, name)
<1>1. /\ Editor!Named(eGroups, name) = {} /\ Editor!Focus(next, name) /\ eFiles' = eFiles
             /\ eReviews' = eReviews
  BY DEF Editor!SplitWorkspace
<1>2. GoodPanes(next, OpenTabs(eFiles, eReviews)) /\ Editor!Named(next, name) # {}
  BY <1>1, EditorFacts, SplitGood
<1> HIDE DEF next
<1>3. /\ Shown(eGroups', eGroup', eActive', OpenTabs(eFiles, eReviews))
      /\ eStored' \in EditorFile \cup {""} /\ eProviderFile' \in EditorFile \cup {""}
  BY <1>1, <1>2, FocusKeeps
<1>4. QED
  BY <1>1, <1>3, EditorFacts DEF EditorInv, FilesKnown

LEMMA RemoveStep ==
  ASSUME EditorInv, Editor!CloseEditorGroup PROVE EditorInv'
<1> DEFINE next == Editor!RemoveGroup(eGroups, eGroup)
           heir == Editor!Heir(eGroups, eGroup)
<1>1. /\ Len(eGroups) > 1 /\ Editor!Focus(next, heir) /\ eFiles' = eFiles /\ eReviews' = eReviews
  BY DEF Editor!CloseEditorGroup
<1>2. GoodPanes(next, OpenTabs(eFiles, eReviews)) /\ Editor!Named(next, heir) # {}
  BY <1>1, EditorFacts, RemoveGood
<1> HIDE DEF next, heir
<1>3. /\ Shown(eGroups', eGroup', eActive', OpenTabs(eFiles, eReviews))
      /\ eStored' \in EditorFile \cup {""} /\ eProviderFile' \in EditorFile \cup {""}
  BY <1>1, <1>2, FocusKeeps
<1>4. QED
  BY <1>1, <1>3, EditorFacts DEF EditorInv, FilesKnown

-----------------------------------------------------------------------------
(* EditorFiles: the files change.                                             *)

\* What the listener opens is a file of the list, and it is then what is shown.
LEMMA ListenedShows ==
  ASSUME EditorInv, NEW next \in Seq(EditorFile)
  PROVE  /\ GoodPanes(Editor!Listened(next), OpenTabs(next, eReviews))
         /\ Editor!Named(Editor!Listened(next), eGroup) # {}
         /\ Editor!Preferred(next) \in Editor!ToSet(next) \cup {""}
         /\ Editor!Preferred(next) # "" =>
              Editor!ActiveOf(Editor!Listened(next), eGroup) = Editor!Preferred(next)
         /\ Editor!Preferred(next) = "" =>
              /\ Editor!ActiveOf(Editor!Listened(next), eGroup) \in OpenTabs(next, eReviews) \cup {""}
              /\ Editor!ActiveOf(eGroups, eGroup) \in OpenTabs(next, eReviews) \cup {""} =>
                   Editor!ActiveOf(Editor!Listened(next), eGroup) = Editor!ActiveOf(eGroups, eGroup)
<1> DEFINE V == OpenTabs(next, eReviews)
           panes == Editor!Prune(eGroups, V)
           f == Editor!Preferred(next)
<1>1. Editor!Listened(next) = IF f = "" THEN panes ELSE Editor!OpenFileIn(panes, eGroup, f)
  BY DEF Editor!Listened, OpenTabs
<1>2. f \in Editor!ToSet(next) \cup {""}
  BY SetOfFiles DEF Editor!Preferred
<1>3. Editor!ToSet(next) \subseteq V /\ V \subseteq EditorTab
  BY EditorFacts, SetOfFiles DEF OpenTabs, EditorTab
<1> HIDE DEF V, f
<1>4. /\ GoodPanes(panes, V) /\ Editor!Named(panes, eGroup) # {}
      /\ Editor!ActiveOf(panes, eGroup) \in V \cup {""}
      /\ Editor!ActiveOf(eGroups, eGroup) \in V \cup {""} =>
           Editor!ActiveOf(panes, eGroup) = Editor!ActiveOf(eGroups, eGroup)
  BY <1>3, EditorFacts, PruneGood
<1> HIDE DEF panes
<1>5. CASE f = ""
  BY <1>1, <1>4, <1>5 DEF f, V
<1>6. CASE f # ""
  <2>1. f \in EditorTab /\ f \in V
    BY <1>2, <1>3, <1>6
  <2>2. /\ GoodPanes(Editor!OpenFileIn(panes, eGroup, f), V)
        /\ Editor!Named(Editor!OpenFileIn(panes, eGroup, f), eGroup) # {}
        /\ Editor!ActiveOf(Editor!OpenFileIn(panes, eGroup, f), eGroup) = f
    <3>1. ASSUME NEW q, GoodPanes(q, V), Editor!Named(q, eGroup) # {}
          PROVE  /\ GoodPanes(Editor!OpenFileIn(q, eGroup, f), V)
                 /\ Editor!Named(Editor!OpenFileIn(q, eGroup, f), eGroup) # {}
                 /\ Editor!ActiveOf(Editor!OpenFileIn(q, eGroup, f), eGroup) = f
      BY ONLY <3>1, <2>1, OpenGood
    <3>2. QED
      BY <1>4, <3>1
  <2>3. QED
    BY <1>1, <1>2, <1>6, <2>2 DEF f, V
<1>7. QED
  BY <1>5, <1>6

LEMMA SubscribeStep ==
  ASSUME EditorInv, Editor!Subscribe PROVE EditorInv'
<1> DEFINE f == Editor!Preferred(eFiles)
           new == Editor!Listened(eFiles)
<1>1. /\ eGroups' = new /\ eActive' = IF f = "" THEN eActive ELSE f
      /\ IF f = eStored THEN Editor!SetActiveFile(eStored)
         ELSE eProviderFile' = eProviderFile /\ eStored' = eStored
      /\ eFiles' = eFiles /\ eReviews' = eReviews /\ eGroup' = eGroup
  BY DEF Editor!Subscribe
<1>2. /\ GoodPanes(new, OpenTabs(eFiles, eReviews)) /\ Editor!Named(new, eGroup) # {}
      /\ f \in Editor!ToSet(eFiles) \cup {""}
      /\ f # "" => Editor!ActiveOf(new, eGroup) = f
      /\ f = "" => Editor!ActiveOf(new, eGroup) = Editor!ActiveOf(eGroups, eGroup)
  BY EditorFacts, ListenedShows
<1> HIDE DEF f, new
<1>3. f # "" => Editor!FileOr(f) = f
  BY <1>2, EditorFacts, SetOfFiles, FilesAreShown
<1>4. Shown(eGroups', eGroup', eActive', OpenTabs(eFiles, eReviews))
  BY <1>1, <1>2, <1>3, EditorFacts DEF Shown
<1>5. eStored' \in EditorFile \cup {""} /\ eProviderFile' \in EditorFile \cup {""}
  BY <1>1, ActiveKnown, EditorFacts
<1>6. QED
  BY <1>1, <1>4, <1>5, EditorFacts DEF EditorInv, FilesKnown

LEMMA UpdateStep ==
  ASSUME EditorInv, NEW next \in Seq(EditorFile), Editor!UpdateFiles(next) PROVE EditorInv'
<1> DEFINE f == Editor!Preferred(next)
           new == Editor!Listened(next)
           now == IF f = eStored /\ eStored # "" THEN eStored
                  ELSE IF Editor!Contains(next, eProviderFile) THEN eProviderFile
                  ELSE IF next = <<>> THEN "" ELSE Head(next)
           V == OpenTabs(next, eReviews)
<1>1. /\ eFiles' = next /\ eProviderFile' = now /\ eActive' = now
      /\ eStored' = IF now = "" THEN eStored ELSE now
      /\ eGroups' = IF now = "" THEN new ELSE Editor!OpenFileIn(new, eGroup, now)
      /\ eReviews' = eReviews /\ eGroup' = eGroup
  BY DEF Editor!UpdateFiles
<1>2. /\ GoodPanes(new, V) /\ Editor!Named(new, eGroup) # {}
      /\ f \in Editor!ToSet(next) \cup {""}
      /\ f = "" => Editor!ActiveOf(new, eGroup) \in V \cup {""}
  BY ListenedShows
<1>3. /\ Editor!ToSet(next) \subseteq EditorFile /\ "" \notin Editor!ToSet(next)
      /\ next = <<>> => Editor!ToSet(next) = {}
  BY SetOfFiles, EditorTabs DEF EditorTab
<1>4. now \in Editor!ToSet(next) \/ (now = "" /\ next = <<>>)
  BY <1>2, SetOfFiles
<1> HIDE DEF f, new, now
<1>5. CASE now \in Editor!ToSet(next)
  <2>1. now # "" /\ now \in EditorFile /\ now \in V /\ now \in EditorTab /\ Editor!FileOr(now) = now
    BY <1>3, <1>5, FilesAreShown DEF OpenTabs, EditorTab
  <2> HIDE DEF V
  <2>2. /\ GoodPanes(Editor!OpenFileIn(new, eGroup, now), V)
        /\ Editor!Named(Editor!OpenFileIn(new, eGroup, now), eGroup) # {}
        /\ Editor!ActiveOf(Editor!OpenFileIn(new, eGroup, now), eGroup) = now
    <3>1. ASSUME NEW q, GoodPanes(q, V), Editor!Named(q, eGroup) # {}, NEW o \in EditorTab, o \in V
          PROVE  /\ GoodPanes(Editor!OpenFileIn(q, eGroup, o), V)
                 /\ Editor!Named(Editor!OpenFileIn(q, eGroup, o), eGroup) # {}
                 /\ Editor!ActiveOf(Editor!OpenFileIn(q, eGroup, o), eGroup) = o
      BY ONLY <3>1, OpenGood
    <3>2. QED
      BY <1>2, <2>1, <3>1
  <2>3. Shown(eGroups', eGroup', eActive', V)
    BY <1>1, <2>1, <2>2 DEF Shown
  <2>4. QED
    BY <1>1, <2>1, <2>3, EditorFacts DEF EditorInv, FilesKnown, V
<1>6. CASE now = "" /\ next = <<>>
  <2>1. f = "" /\ V = eReviews
    BY <1>2, <1>3, <1>6 DEF OpenTabs
  <2>2. Editor!FileOr(Editor!ActiveOf(new, eGroup)) = ""
    BY <1>2, <2>1, EditorFacts, FilesAreShown
  <2> HIDE DEF V
  <2>3. Shown(eGroups', eGroup', eActive', V)
    BY <1>1, <1>2, <1>6, <2>2 DEF Shown
  <2>4. QED
    BY <1>1, <1>6, <2>3, EditorFacts DEF EditorInv, FilesKnown, V
<1>7. QED
  BY <1>4, <1>5, <1>6

LEMMA OneOf == ASSUME NEW X, NEW x \in X PROVE <<x>> \in Seq(X)
OBVIOUS

LEMMA EditorInit == Editor!Init => EditorInv
<1> SUFFICES ASSUME Editor!Init PROVE EditorInv
  OBVIOUS
<1> DEFINE p == Editor!NewPane(1)
<1>1. /\ eFiles = <<>> /\ eProviderFile = "" /\ eStored \in EditorFile \cup {""} /\ eReviews = {}
      /\ eGroups = <<p>> /\ eGroup = 1 /\ eActive = ""
  BY DEF Editor!Init
<1>2. 1 \in Editor!Pane
  <2>1. EditorMaxGroups \in Nat /\ EditorMaxGroups # 0
    BY ProjectAssumption DEF Editor!EditorAssumption
  <2>2. 1 \in 1..EditorMaxGroups
    BY <2>1
  <2>3. QED
    BY <2>2 DEF Editor!Pane
<1>3. p \in EditorPanes /\ p.id = 1 /\ p.tabs = <<>> /\ p.active = "" /\ TabsOf(p) = {}
  BY <1>2 DEF Editor!NewPane, EditorPanes, TabsOf, Editor!ToSet
<1> HIDE DEF p
<1>4. /\ eGroups \in Seq(EditorPanes) /\ DOMAIN eGroups = {1} /\ eGroups[1] = p
  <2>1. <<p>> \in Seq(EditorPanes)
    BY ONLY <1>3, OneOf
  <2>2. DOMAIN <<p>> = {1} /\ <<p>>[1] = p
    OBVIOUS
  <2>3. QED
    BY <1>1, <2>1, <2>2
<1>5. GoodPanes(eGroups, OpenTabs(eFiles, eReviews))
  BY <1>3, <1>4 DEF GoodPanes, GoodPane
<1>6. Editor!Named(eGroups, eGroup) # {} /\ Editor!ActiveOf(eGroups, eGroup) = ""
  <2>1. 1 \in DOMAIN eGroups /\ eGroups[1].id = eGroup
    BY <1>1, <1>3, <1>4
  <2>2. /\ Editor!Named(eGroups, eGroup) = {1}
        /\ Editor!ActiveOf(eGroups, eGroup) = eGroups[1].active
    BY ONLY <1>5, <2>1, ActiveIs
  <2>3. QED
    BY <1>3, <1>4, <2>2
<1>7. FilesKnown(eFiles, eStored, eProviderFile, eReviews)
  <2>1. <<>> \in Seq(EditorFile)
    OBVIOUS
  <2>2. eFiles \in Seq(EditorFile) /\ eProviderFile \in EditorFile \cup {""}
            /\ eReviews \subseteq EditorReview
    BY <1>1, <2>1
  <2>3. QED
    BY <1>1, <2>2 DEF FilesKnown
<1>8. Shown(eGroups, eGroup, eActive, OpenTabs(eFiles, eReviews))
  BY <1>1, <1>5, <1>6, FilesAreShown DEF Shown
<1>9. QED
  BY <1>7, <1>8 DEF EditorInv

LEMMA EditorStep == EditorInv /\ [Editor!Next]_(Editor!vars) => EditorInv'
<1> SUFFICES ASSUME EditorInv, [Editor!Next]_(Editor!vars) PROVE EditorInv'
  OBVIOUS
<1>1. CASE Editor!Subscribe
  BY <1>1, SubscribeStep
<1>2. CASE Editor!CloseEditorGroup
  BY <1>2, RemoveStep
<1>3. ASSUME NEW f \in EditorFile, Editor!CreateFile(f) PROVE EditorInv'
  <2>1. Append(eFiles, f) \in Seq(EditorFile) /\ Editor!UpdateFiles(Append(eFiles, f))
    <3>1. eFiles \in Seq(EditorFile)
      BY EditorFacts
    <3>2. Append(eFiles, f) \in Seq(EditorFile)
      BY <3>1
    <3>3. QED
      BY <1>3, <3>2 DEF Editor!CreateFile
  <2>2. QED
    BY <2>1, UpdateStep
<1>4. ASSUME NEW f \in EditorFile, Editor!DeleteFile(f) PROVE EditorInv'
  <2>1. Editor!Without(eFiles, f) \in Seq(EditorFile)
    BY EditorFacts, SelectSet DEF Editor!Without
  <2>2. Editor!UpdateFiles(Editor!Without(eFiles, f))
    BY <1>4 DEF Editor!DeleteFile
  <2>3. QED
    BY <2>1, <2>2, UpdateStep
<1>5. ASSUME NEW f \in EditorFile, NEW g \in Editor!Pane, Editor!OpenFile(f, g) PROVE EditorInv'
  BY <1>5, OpenStep
<1>6. ASSUME NEW r \in EditorReview, Editor!OpenReviewTab(r) PROVE EditorInv'
  BY <1>6, ReviewStep
<1>7. ASSUME NEW f, Editor!CloseFileTab(f) PROVE EditorInv'
  BY <1>7, CloseStep
<1>8. ASSUME NEW g, Editor!SetActiveEditorGroup(g) PROVE EditorInv'
  BY <1>8, FocusStep
<1>9. ASSUME NEW g \in Editor!Pane, Editor!SplitWorkspace(g) PROVE EditorInv'
  BY <1>9, SplitStep
<1>10. CASE UNCHANGED Editor!vars
  BY <1>10 DEF Editor!vars, EditorInv
<1>11. QED
  BY <1>1, <1>2, <1>3, <1>4, <1>5, <1>6, <1>7, <1>8, <1>9, <1>10 DEF Editor!Next

\* Whatever is opened, closed, split and deleted, for any number of panes, files and
\* reviews: a file is in one pane, a pane with tabs shows one of them, tabs are of
\* files and reviews that are there, and the room works on the file of the focused pane.
THEOREM PanesAlwaysShowOpenFiles == Editor!Spec => []PanesShowOpenFiles
<1>1. EditorInv => PanesShowOpenFiles
  <2> SUFFICES ASSUME EditorInv PROVE PanesShowOpenFiles
    OBVIOUS
  <2>1. /\ \A i \in DOMAIN eGroups : GoodPane(eGroups[i], OpenTabs(eFiles, eReviews))
        /\ \A i, j \in DOMAIN eGroups : i # j => Apart(eGroups[i], eGroups[j])
    BY EditorFacts DEF GoodPanes
  <2>2. Editor!Tabs(eGroups) \subseteq Editor!ToSet(eFiles) \cup eReviews
    BY <2>1 DEF Editor!Tabs, GoodPane, TabsOf, OpenTabs
  <2>3. QED
    BY <2>1, <2>2, EditorFacts DEF GoodPane, Apart, TabsOf, PanesShowOpenFiles, Editor!PanesShowOpenFiles
<1>2. EditorInv /\ [Editor!Next]_(Editor!vars) => EditorInv'
  BY ProjectAssumption, EditorStep
<1>3. Editor!Init => EditorInv
  BY EditorInit
<1> QED BY <1>1, <1>2, <1>3, PTL DEF Editor!Spec
=============================================================================
