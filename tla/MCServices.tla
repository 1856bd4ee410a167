----------------------------- MODULE MCServices -----------------------------
(* Every service on a small instance of its own: the first state chooses a     *)
(* part, and only that part takes steps. One run then checks them all, and the  *)
(* state spaces add up and do not multiply.                                     *)
EXTENDS ProjectServices, ExecutionServices

MemberOfTab == [t \in RecoveryTab |-> "C"]
KindOfPath == [p |-> "plain", v |-> "generated", i |-> "ignored"]
SizeOfPath == [p |-> 2, v |-> 1, i |-> 1]
PagesOfBranch == [m |-> 3, d |-> 2, e |-> 2]
HomeOf == [a1 |-> "r1", z1 |-> "r2"]
MemberOfConn == [c \in MembersConn |-> "A"]
CreatorOf == [r \in MembersRoom |-> "A"]

VARIABLE part

recovery == <<rMeta, rRemembered, rRecovery, rPeople, rTree, rCreated, rSnapshots, rSweep, rCall,
  rInRoom, rShows, rPending, rBudget, rRestored, rSettled>>
imports == <<iEntries, iCreated, iStored, iQuota, iBaseline, iJob, iTold, iImports, iFailures, iStopped>>
terminals == <<tUp, tAsked, tHub, tRegistry, tOwner, tTab, tStage, tProgram, tWatched, tReleased, tRoom,
  tSlots, tAged, tLost, tFailures>>
files == <<fShared, fStored, fDisk, fKnown, fAnswers, fRun, fCount, fTyped, fSeen, fRefused, fClicked>>
servers == <<lUp, lHub, lOwner, lReserved, lListed, lKey, lTicket, lProxy, lToClose, lStage, lPlaces,
  lAged, lLost, lFailures>>
client == <<cPath, cText, cPhase, cDocs, cModels, cPane, cUsed, cBound, cActive, cTimer, cCount>>
docker == <<dFlow, dDir, dNetwork, dBox, dAged, dActive, dSweep, dAlive, dSwept, dFaults>>
session == <<sValid, sVault, sLock, sCall, sLogin, sSignOut, sFaults>>
push == <<pCommits, pHeads, pRoom, pBaseline, pLock, pPush, pReview, pEdits, pRequests, pFaults>>
branches == <<bExists, bGone, bRepositories, bBase, bSelected, bTarget, bFirst, bOlder, bHistory, bPage,
  bMore, bLoading, bOperations, bChanges, bFaults>>
editor == <<eFiles, eProviderFile, eStored, eReviews, eGroups, eGroup, eActive, eChanges>>
members == <<mLink, mWants, mCall, mParticipants, mActive, mConnections, mCrashed, mHadAdmin, mMembers,
  mRequests, mRejected, mContext, mActs, mGranted, mDemoted>>

\* A part that is not chosen stays in one initial state.
Init ==
  /\ part \in {"recovery", "imports", "terminals", "files", "servers", "client", "containers", "session",
               "push", "branches", "editor", "members"}
  /\ Recovery!Init /\ Imports!Init /\ Terminals!Init /\ Files!Init
  /\ Servers!Init /\ Client!Init /\ Docker!Init /\ Session!Init
  /\ Push!Init /\ Branches!Init /\ Editor!Init /\ Members!Init
  /\ part # "files" => fShared["f"] = {0}
  /\ part # "client" => cPath["f"] = "p" /\ cPath["g"] = "q"
  /\ part # "push" => pCommits = <<>>
  /\ part # "branches" => bExists = {"m"}
  /\ part # "editor" => eStored = ""

Next ==
  \/ part = "recovery" /\ Recovery!Next
     /\ UNCHANGED <<part, imports, terminals, files, servers, client, docker, session, push, branches, editor, members>>
  \/ part = "imports" /\ Imports!Next
     /\ UNCHANGED <<part, recovery, terminals, files, servers, client, docker, session, push, branches, editor, members>>
  \/ part = "terminals" /\ Terminals!Next
     /\ UNCHANGED <<part, recovery, imports, files, servers, client, docker, session, push, branches, editor, members>>
  \/ part = "files" /\ Files!Next
     /\ UNCHANGED <<part, recovery, imports, terminals, servers, client, docker, session, push, branches, editor, members>>
  \/ part = "servers" /\ Servers!Next
     /\ UNCHANGED <<part, recovery, imports, terminals, files, client, docker, session, push, branches, editor, members>>
  \/ part = "client" /\ Client!Next
     /\ UNCHANGED <<part, recovery, imports, terminals, files, servers, docker, session, push, branches, editor, members>>
  \/ part = "containers" /\ Docker!Next
     /\ UNCHANGED <<part, recovery, imports, terminals, files, servers, client, session, push, branches, editor, members>>
  \/ part = "session" /\ Session!Next
     /\ UNCHANGED <<part, recovery, imports, terminals, files, servers, client, docker, push, branches, editor, members>>
  \/ part = "push" /\ Push!Next
     /\ UNCHANGED <<part, recovery, imports, terminals, files, servers, client, docker, session, branches, editor, members>>
  \/ part = "branches" /\ Branches!Next
     /\ UNCHANGED <<part, recovery, imports, terminals, files, servers, client, docker, session, push, editor, members>>
  \/ part = "editor" /\ Editor!Next
     /\ UNCHANGED <<part, recovery, imports, terminals, files, servers, client, docker, session, push, branches, members>>
  \/ part = "members" /\ Members!Next
     /\ UNCHANGED <<part, recovery, imports, terminals, files, servers, client, docker, session, push, branches, editor>>

Spec == Init /\ [][Next]_<<part, recovery, imports, terminals, files, servers, client, docker, session, push, branches, editor, members>>

\* The fairness of the three parts that state liveness, each for its own runs.
FairSpec ==
  /\ Spec
  /\ \A s \in Terminals!Session :
       /\ WF_terminals(part = "terminals" /\ Terminals!Age(s))
       /\ WF_terminals(part = "terminals" /\ Terminals!Cleanup(s))
       /\ WF_terminals(part = "terminals" /\ Terminals!ProgramEnds(s) /\ tStage[s] = "closing")
       /\ WF_terminals(part = "terminals" /\ Terminals!Dispose(s))
  /\ WF_docker(part = "containers" /\ Docker!Restart)
  /\ WF_docker(part = "containers" /\ Docker!ListContainers)
  /\ WF_docker(part = "containers" /\ Docker!RemoveStale)
  /\ WF_docker(part = "containers" /\ Docker!CleanupOrphanedWorkspaces)
  /\ \A b \in DockerBox :
       /\ WF_docker(part = "containers" /\ Docker!CheckContainer(b))
       /\ WF_docker(part = "containers" /\ (Docker!DockerCreates(b) \/ Docker!DockerStarts(b)))
       /\ WF_docker(part = "containers" /\ Docker!Age(b))
       /\ WF_docker(part = "containers" /\ Docker!AgeWorkspace(b))
  /\ \A c \in MembersConn :
       /\ WF_members(part = "members" /\ Members!HubStep(c))
       /\ WF_members(part = "members" /\ mLink[c] = "lost" /\ Members!Disconnect(c))
  /\ WF_members(part = "members" /\ Members!LeaseExpires)
  /\ \A r \in MembersRoom : WF_members(part = "members" /\ Members!Prune(r))
=============================================================================
