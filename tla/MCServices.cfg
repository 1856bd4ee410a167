\* Every service on its own small instance.
\* Parts may stop: their failures, edits and requests are bounded.
CONSTANTS
  \* RoomRecovery
  RecoveryTab = {"c1", "c2"}  RecoveryMember = {"B", "C"}  RecoveryMemberOf <- MemberOfTab
  RecoveryFile = {"f"}  RecoveryPlain = {"f"}  RecoveryMaxFailures = 1  RecoveryMaxCrashes = 1
  RecoveryMaxExpiries = 1  RecoveryCalmSweeps = TRUE
  \* ProjectImport
  ImportsTab = {"1", "2"}  ImportsPath = {"p", "v", "i"}  ImportsKindOf <- KindOfPath
  ImportsSizeOf <- SizeOfPath  ImportsMaxFileBytes = 2  ImportsMaxTotalBytes = 3
  ImportsMaxRoomBytes = 3  ImportsMaxImports = 2  ImportsMaxFailures = 1
  \* TerminalSessions
  TerminalsConn = {"c1", "c2"}  TerminalsMaxStarts = 2  TerminalsMaxTabs = 3
  TerminalsMaxPerConnection = 1  TerminalsMaxSessionsPerRoom = 2  TerminalsMaxSessions = 1
  TerminalsMaxFailures = 1
  \* TerminalFiles
  FilesFile = {"f"}  FilesMaxEdits = 2  FilesMaxChanges = 2  FilesMaxAnswers = 2
  FilesMaxRuns = 1  FilesMaxLost = 1
  \* LanguageServers
  ServersConn = {"c1"}  ServersMaxStarts = 3  ServersMaximumSessionsPerConnection = 1
  ServersMaxPlaces = 2  ServersMaxFailures = 1
  \* LanguageClient
  ClientFile = {"f", "g"}  ClientPath = {"p", "q", "r"}  ClientMaxEdits = 1
  ClientMaxRenames = 2  ClientMaxPanes = 3  ClientMaxSockets = 1
  \* Containers
  DockerBox = {"t", "e"}  DockerTerminal = {"t"}  DockerMaxFaults = 1  DockerCalmHost = TRUE
  \* GithubSession
  SessionRequest = {"a", "b"}  SessionMaxTokens = 3  SessionMaxFaults = 1
  \* GithubPush
  PushTab = {"t1", "t2"}  PushPath = {"p", "q"}  PushText = {"x", "y"}  PushAdmin = {"t1"}
  PushBranch = {"main", "dev"}  PushMain = "main"  PushShared = {"p"}  PushMaxCommits = 3
  PushMaxEdits = 1  PushMaxRequests = 2  PushMaxFaults = 1
  \* GithubBranches
  BranchesBranch = {"m", "d", "e"}  BranchesDefault = "m"  BranchesPagesOf <- PagesOfBranch
  BranchesMaxRequests = 2  BranchesMaxChanges = 3  BranchesMaxFaults = 1
  BranchesCalmPanel = TRUE
  \* EditorFiles
  EditorFile = {"f", "h"}  EditorReview = {"r"}  EditorMaxGroups = 3  EditorMaxChanges = 3
  \* RoomMembership
  MembersRoom = {"r1", "r2"}  MembersConn = {"a1", "z1"}  MembersMember = {"A"}
  MembersHome <- HomeOf  MembersMemberOf <- MemberOfConn  MembersCreator <- CreatorOf
  MembersLead = {"a1"}  MembersMaxParticipants = 2  MembersMaxActiveRooms = 1
  MembersMaxConnections = 3  MembersMaxActs = 0  MembersQuietTargets = FALSE
SPECIFICATION FairSpec
INVARIANTS
   CompleteMeansRestored RoomShowsImport PlacesMatchContainers
  NoSilentOrphans   ServerHasRoomTexts SweepSparesSessions
  SessionSurvives SignOutRevokes  PanesShowOpenFiles
PROPERTIES
  OrphansEnd UnseenEditsSurvive LeftoversEnd  GhostsLeave
CHECK_DEADLOCK FALSE
