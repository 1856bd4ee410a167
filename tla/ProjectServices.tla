-------------------------- MODULE ProjectServices ---------------------------
(* The services that hold a room's project, beside the shared documents: expiry *)
(* and recovery, imports, GitHub, the panes of the editor, and the membership.  *)
(* Each part stands on its own. The names of its constants begin with the name  *)
(* of its instance, those of its variables with a letter.                       *)

CONSTANTS
  RecoveryTab, RecoveryMember, RecoveryMemberOf, RecoveryFile, RecoveryPlain, RecoveryMaxFailures,
  RecoveryMaxCrashes, RecoveryMaxExpiries, RecoveryCalmSweeps,
  ImportsTab, ImportsPath, ImportsKindOf, ImportsSizeOf, ImportsMaxFileBytes, ImportsMaxTotalBytes,
  ImportsMaxRoomBytes, ImportsMaxImports, ImportsMaxFailures,
  SessionRequest, SessionMaxTokens, SessionMaxFaults,
  PushTab, PushPath, PushText, PushAdmin, PushBranch, PushMain, PushShared, PushMaxCommits,
  PushMaxEdits, PushMaxRequests, PushMaxFaults,
  BranchesBranch, BranchesDefault, BranchesPagesOf, BranchesMaxRequests, BranchesMaxChanges,
  BranchesMaxFaults, BranchesCalmPanel,
  EditorFile, EditorReview, EditorMaxGroups, EditorMaxChanges,
  MembersRoom, MembersConn, MembersMember, MembersHome, MembersMemberOf, MembersCreator, MembersLead,
  MembersMaxParticipants, MembersMaxActiveRooms, MembersMaxConnections, MembersMaxActs,
  MembersQuietTargets

VARIABLES
  rMeta, rRemembered, rRecovery, rPeople, rTree, rCreated, rSnapshots, rSweep, rCall, rInRoom, rShows,
  rPending, rBudget, rRestored, rSettled,
  iEntries, iCreated, iStored, iQuota, iBaseline, iJob, iTold, iImports, iFailures, iStopped,
  sValid, sVault, sLock, sCall, sLogin, sSignOut, sFaults,
  pCommits, pHeads, pRoom, pBaseline, pLock, pPush, pReview, pEdits, pRequests, pFaults,
  bExists, bGone, bRepositories, bBase, bSelected, bTarget, bFirst, bOlder, bHistory, bPage, bMore,
  bLoading, bOperations, bChanges, bFaults,
  eFiles, eProviderFile, eStored, eReviews, eGroups, eGroup, eActive, eChanges,
  mLink, mWants, mCall, mParticipants, mActive, mConnections, mCrashed, mHadAdmin, mMembers, mRequests,
  mRejected, mContext, mActs, mGranted, mDemoted

Recovery == INSTANCE RoomRecovery WITH
  Tab <- RecoveryTab, Member <- RecoveryMember, MemberOf <- RecoveryMemberOf, File <- RecoveryFile,
  Plain <- RecoveryPlain, MaxFailures <- RecoveryMaxFailures, MaxCrashes <- RecoveryMaxCrashes,
  MaxExpiries <- RecoveryMaxExpiries, CalmSweeps <- RecoveryCalmSweeps,
  meta <- rMeta, remembered <- rRemembered, recovery <- rRecovery, people <- rPeople, tree <- rTree,
  created <- rCreated, snapshots <- rSnapshots, sweep <- rSweep, call <- rCall, inRoom <- rInRoom,
  shows <- rShows, pending <- rPending, budget <- rBudget, restored <- rRestored, settled <- rSettled

Imports == INSTANCE ProjectImport WITH
  Tab <- ImportsTab, Path <- ImportsPath, KindOf <- ImportsKindOf, SizeOf <- ImportsSizeOf,
  MaxFileBytes <- ImportsMaxFileBytes, MaxTotalBytes <- ImportsMaxTotalBytes,
  MaxRoomBytes <- ImportsMaxRoomBytes, MaxImports <- ImportsMaxImports,
  MaxFailures <- ImportsMaxFailures,
  entries <- iEntries, created <- iCreated, stored <- iStored, quota <- iQuota, baseline <- iBaseline,
  job <- iJob, told <- iTold, imports <- iImports, failures <- iFailures, stopped <- iStopped

Session == INSTANCE GithubSession WITH
  Request <- SessionRequest, MaxTokens <- SessionMaxTokens, MaxFaults <- SessionMaxFaults,
  valid <- sValid, vault <- sVault, lock <- sLock, call <- sCall, login <- sLogin, signOut <- sSignOut,
  faults <- sFaults

Push == INSTANCE GithubPush WITH
  Tab <- PushTab, Path <- PushPath, Text <- PushText, Admin <- PushAdmin, Branch <- PushBranch,
  Main <- PushMain, Shared <- PushShared, MaxCommits <- PushMaxCommits, MaxEdits <- PushMaxEdits,
  MaxRequests <- PushMaxRequests, MaxFaults <- PushMaxFaults,
  commits <- pCommits, heads <- pHeads, room <- pRoom, baseline <- pBaseline, lock <- pLock,
  push <- pPush, review <- pReview, edits <- pEdits, requests <- pRequests, faults <- pFaults

Branches == INSTANCE GithubBranches WITH
  Branch <- BranchesBranch, Default <- BranchesDefault, PagesOf <- BranchesPagesOf,
  MaxRequests <- BranchesMaxRequests, MaxChanges <- BranchesMaxChanges, MaxFaults <- BranchesMaxFaults,
  CalmPanel <- BranchesCalmPanel,
  exists <- bExists, gone <- bGone, repositories <- bRepositories, base <- bBase, selected <- bSelected,
  target <- bTarget, first <- bFirst, older <- bOlder, history <- bHistory, page <- bPage,
  more <- bMore, loading <- bLoading, operations <- bOperations, changes <- bChanges, faults <- bFaults

Editor == INSTANCE EditorFiles WITH
  File <- EditorFile, Review <- EditorReview, MaxGroups <- EditorMaxGroups,
  MaxChanges <- EditorMaxChanges,
  files <- eFiles, providerFile <- eProviderFile, stored <- eStored, reviews <- eReviews,
  groups <- eGroups, group <- eGroup, active <- eActive, changes <- eChanges

Members == INSTANCE RoomMembership WITH
  Room <- MembersRoom, Conn <- MembersConn, Member <- MembersMember, Home <- MembersHome,
  MemberOf <- MembersMemberOf, Creator <- MembersCreator, Lead <- MembersLead,
  MaxParticipants <- MembersMaxParticipants, MaxActiveRooms <- MembersMaxActiveRooms,
  MaxConnections <- MembersMaxConnections, MaxActs <- MembersMaxActs,
  QuietTargets <- MembersQuietTargets,
  link <- mLink, wants <- mWants, call <- mCall, participants <- mParticipants, active <- mActive,
  connections <- mConnections, crashed <- mCrashed, hadAdmin <- mHadAdmin, members <- mMembers,
  requests <- mRequests, rejected <- mRejected, context <- mContext, acts <- mActs, granted <- mGranted,
  demoted <- mDemoted

ASSUME ProjectAssumption ==
  /\ Recovery!RecoveryAssumption
  /\ Imports!ImportAssumption
  /\ Session!SessionAssumption
  /\ Push!PushAssumption
  /\ Branches!BranchesAssumption
  /\ Editor!EditorAssumption
-----------------------------------------------------------------------------
(* Properties: those of the parts *)

\* Members who were in an expired room can come back to it (RoomRecoveryService).
MembersCanReturn == Recovery!MembersCanReturn

\* A recovery that says it is complete has restored every file it could.
CompleteMeansRestored == Recovery!CompleteMeansRestored

\* Tabs and server agree on an imported workspace, and every file in it has its text (ProjectImportService).
RoomShowsImport == Imports!RoomShowsImport

\* Concurrent requests never throw away the GitHub session of a member.
SessionSurvives == Session!SessionSurvives

\* Signing out revokes the grant at GitHub.
SignOutRevokes == Session!SignOutRevokes

\* A push replaces text at GitHub only when its room had seen it.
KnownTextReplaced == Push!KnownTextReplaced

\* The source control panel shows the commits of the selected branch, and a push target that exists.
PanelShowsRepository == Branches!PanelShowsRepository

\* A pane shows a file it has a tab for, and the focused pane exists.
PanesShowOpenFiles == Editor!PanesShowOpenFiles

\* Participants whose connection ended go.
GhostsLeave == Members!GhostsLeave
=============================================================================
