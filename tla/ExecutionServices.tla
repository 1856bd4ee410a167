------------------------- MODULE ExecutionServices --------------------------
(* The services that run programs for a room: terminals and their files,        *)
(* language servers with the client of the editor, and the containers.          *)
(* Each part stands on its own. The names of its constants begin with the name  *)
(* of its instance, those of its variables with a letter.                       *)

CONSTANTS
  TerminalsConn, TerminalsMaxStarts, TerminalsMaxTabs, TerminalsMaxPerConnection,
  TerminalsMaxSessionsPerRoom, TerminalsMaxSessions, TerminalsMaxFailures,
  FilesFile, FilesMaxEdits, FilesMaxChanges, FilesMaxAnswers, FilesMaxRuns, FilesMaxLost,
  ServersConn, ServersMaxStarts, ServersMaximumSessionsPerConnection, ServersMaxPlaces,
  ServersMaxFailures,
  ClientFile, ClientPath, ClientMaxEdits, ClientMaxRenames, ClientMaxPanes, ClientMaxSockets,
  DockerBox, DockerTerminal, DockerMaxFaults, DockerCalmHost

VARIABLES
  tUp, tAsked, tHub, tRegistry, tOwner, tTab, tStage, tProgram, tWatched, tReleased, tRoom, tSlots,
  tAged, tLost, tFailures,
  fShared, fStored, fDisk, fKnown, fAnswers, fRun, fCount, fTyped, fSeen, fRefused, fClicked,
  lUp, lHub, lOwner, lReserved, lListed, lKey, lTicket, lProxy, lToClose, lStage, lPlaces, lAged, lLost,
  lFailures,
  cPath, cText, cPhase, cDocs, cModels, cPane, cUsed, cBound, cActive, cTimer, cCount,
  dFlow, dDir, dNetwork, dBox, dAged, dActive, dSweep, dAlive, dSwept, dFaults

Terminals == INSTANCE TerminalSessions WITH
  Conn <- TerminalsConn, MaxStarts <- TerminalsMaxStarts, MaxTabs <- TerminalsMaxTabs,
  MaxPerConnection <- TerminalsMaxPerConnection, MaxSessionsPerRoom <- TerminalsMaxSessionsPerRoom,
  MaxSessions <- TerminalsMaxSessions, MaxFailures <- TerminalsMaxFailures,
  up <- tUp, asked <- tAsked, hub <- tHub, registry <- tRegistry, owner <- tOwner, tab <- tTab,
  stage <- tStage, program <- tProgram, watched <- tWatched, released <- tReleased, room <- tRoom,
  slots <- tSlots, aged <- tAged, lost <- tLost, failures <- tFailures

Files == INSTANCE TerminalFiles WITH
  File <- FilesFile, MaxEdits <- FilesMaxEdits, MaxChanges <- FilesMaxChanges,
  MaxAnswers <- FilesMaxAnswers, MaxRuns <- FilesMaxRuns, MaxLost <- FilesMaxLost,
  shared <- fShared, stored <- fStored, disk <- fDisk, known <- fKnown, answers <- fAnswers,
  run <- fRun, count <- fCount, typed <- fTyped, seen <- fSeen, refused <- fRefused, clicked <- fClicked

Servers == INSTANCE LanguageServers WITH
  Conn <- ServersConn, MaxStarts <- ServersMaxStarts,
  MaximumSessionsPerConnection <- ServersMaximumSessionsPerConnection, MaxPlaces <- ServersMaxPlaces,
  MaxFailures <- ServersMaxFailures,
  up <- lUp, hub <- lHub, owner <- lOwner, reserved <- lReserved, listed <- lListed, key <- lKey,
  ticket <- lTicket, proxy <- lProxy, toClose <- lToClose, stage <- lStage, places <- lPlaces,
  aged <- lAged, lost <- lLost, failures <- lFailures

Client == INSTANCE LanguageClient WITH
  File <- ClientFile, Path <- ClientPath, MaxEdits <- ClientMaxEdits, MaxRenames <- ClientMaxRenames,
  MaxPanes <- ClientMaxPanes, MaxSockets <- ClientMaxSockets,
  path <- cPath, text <- cText, phase <- cPhase, docs <- cDocs, models <- cModels, pane <- cPane,
  used <- cUsed, bound <- cBound, active <- cActive, timer <- cTimer, count <- cCount

Docker == INSTANCE Containers WITH
  Box <- DockerBox, Terminal <- DockerTerminal, MaxFaults <- DockerMaxFaults,
  CalmHost <- DockerCalmHost,
  flow <- dFlow, dir <- dDir, network <- dNetwork, box <- dBox, aged <- dAged, active <- dActive,
  sweep <- dSweep, alive <- dAlive, swept <- dSwept, faults <- dFaults

ASSUME ExecutionAssumption ==
  /\ Terminals!TerminalAssumption
  /\ Files!FilesAssumption
  /\ Servers!LanguageServerAssumption
  /\ Client!LanguageClientAssumption
  /\ Docker!ContainerAssumption
-----------------------------------------------------------------------------
(* Properties: those of the parts *)

\* The counters of terminals stand for the containers that run.
PlacesMatchContainers == Terminals!PlacesMatchContainers

\* A terminal that runs is shown by a panel, or on its way out, unless a message was lost.
NoSilentOrphans == Terminals!NoSilentOrphans

\* A terminal that nobody owns ends.
OrphansEnd == Terminals!OrphansEnd

\* What a terminal brings to the room takes no edit out that its container had not seen.
UnseenEditsSurvive == Files!UnseenEditsSurvive

\* A program of a terminal is given what the tab shows, and gives back what it wrote.
RunsExchangeEdits == Files!RunsExchangeEdits

\* A connection holds its language servers within the limit, and none after its end.
NoStrayServers == Servers!NoStrayServers

\* The language server has the text the editor shows of each open file.
ServerHasRoomTexts == Client!ServerHasRoomTexts

\* The sweep of stale containers spares calls that start or run.
SweepSparesSessions == Docker!SweepSparesSessions

\* What a call leaves behind is removed.
LeftoversEnd == Docker!LeftoversEnd
=============================================================================
