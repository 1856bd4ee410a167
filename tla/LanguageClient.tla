--------------------------- MODULE LanguageClient ---------------------------
(* The language client of a tab (RoomLanguageServerClient): it keeps the      *)
(* documents of one language server equal to the files of the room, and ends  *)
(* itself when no pane uses it. One language; a file has at most one pane.    *)
EXTENDS Integers, FiniteSets

CONSTANTS File, Path, MaxEdits, MaxRenames, MaxPanes, MaxSockets

LanguageClientAssumption ==
  /\ {MaxEdits, MaxRenames, MaxPanes, MaxSockets} \subseteq Nat
  /\ "none" \notin Path    \* none: where a file is that the room has not

VARIABLES
  path,       \* path of each file of the room, "none" when it is not there
  text,       \* its text
  phase,      \* of the client: none, connecting, connected
  docs,       \* documents: at each path the text sent last, or Closed
  models,     \* documents.models: the panes that hold a reference, at each path
  pane,       \* closed, waiting for the connection, joined, or cut off from an ended client
  used,       \* the path a pane's effect ran with
  bound,      \* bindingsByModel
  active,     \* activeModels
  timer,      \* idleTimer is set
  count

vars == <<path, text, phase, docs, models, pane, used, bound, active, timer, count>>
room == <<path, text>>

Closed == <<>>
NoDocs == [p \in Path |-> Closed]
NoModels == [p \in Path |-> {}]
FileAt(p) == {f \in File : path[f] = p}
TextOf(f) == <<f, text[f]>>

Init ==
  /\ path \in {r \in [File -> Path] : \A f, g \in File : r[f] = r[g] => f = g}
  /\ text = [f \in File |-> 1] /\ phase = "none"
  /\ docs = NoDocs /\ models = NoModels /\ pane = [f \in File |-> "closed"] /\ used = [f \in File |-> "none"]
  /\ bound = {} /\ active = 0 /\ timer = FALSE
  /\ count = [edits |-> 0, renames |-> 0, panes |-> 0, sockets |-> 0]
-----------------------------------------------------------------------------
(* What the client does *)

\* syncWorkspace: a file the server does not know is opened, a changed one is
\* sent, and a path without a file is closed with its bindings.
SyncWorkspace(files) ==
  LET at(p) == {f \in File : files[f] = p} IN
  /\ docs' = [p \in Path |-> IF at(p) = {} THEN Closed ELSE TextOf(CHOOSE f \in at(p) : TRUE)]
  /\ models' = [p \in Path |-> IF at(p) = {} THEN {} ELSE models[p]]
  /\ bound' = bound \ UNION {models[p] : p \in {q \in Path : at(q) = {}}}

\* A mutant of SyncFile: a document that is open is taken for up to date.
SyncNewFile(f) ==
  docs' = IF phase = "connected" /\ docs[path[f]] = Closed THEN [docs EXCEPT ![path[f]] = <<f, text'[f]>>] ELSE docs

\* syncFile, for a change of one text.
SyncFile(f) == docs' = IF phase = "connected" THEN [docs EXCEPT ![path[f]] = <<f, text'[f]>>] ELSE docs

\* openDocument of the panes ps, each at its path.
OpenDocuments(ps, sent, held) ==
  /\ docs' = [p \in Path |-> IF sent[p] = Closed /\ \E f \in ps : used[f] = p
                             THEN TextOf(CHOOSE f \in ps : used[f] = p) ELSE sent[p]]
  /\ models' = [p \in Path |-> held[p] \cup {f \in ps : used[f] = p}]
  /\ bound' = bound \cup ps /\ active' = active + Cardinality(ps)

\* closeDocument: nothing when the document is gone, also not the count.
CloseDocument(f) ==
  IF docs[used[f]] = Closed THEN UNCHANGED <<models, bound, active, timer>>
  ELSE /\ models' = [models EXCEPT ![used[f]] = @ \ {f}]
       /\ bound' = IF f \in models[used[f]] THEN bound \ {f} ELSE bound
       /\ active' = IF active > 0 THEN active - 1 ELSE 0
       /\ timer' = (timer \/ active' = 0)

\* dispose.
Dispose ==
  /\ phase' = "none" /\ docs' = NoDocs /\ models' = NoModels /\ active' = 0 /\ timer' = FALSE
  /\ bound' = bound \ UNION {models[p] : p \in Path}
  /\ pane' = [f \in File |-> IF pane[f] \in {"joined", "waiting"} THEN "cut off" ELSE pane[f]]
-----------------------------------------------------------------------------
(* The panes *)

\* connect stops the timer, whether or not there is a connection.
ClearTimer == timer' = FALSE

\* The effect of a pane: connect, and openDocument when there is a connection.
OpenPane(f) ==
  /\ pane[f] = "closed" /\ path[f] # "none" /\ count.panes < MaxPanes
  /\ count' = [count EXCEPT !.panes = @ + 1] /\ used' = [used EXCEPT ![f] = path[f]]
  /\ ClearTimer
  /\ IF phase = "connected"
     THEN /\ pane' = [pane EXCEPT ![f] = "joined"] /\ UNCHANGED phase
          /\ docs' = [docs EXCEPT ![path[f]] = IF @ = Closed THEN TextOf(f) ELSE @]
          /\ models' = [models EXCEPT ![path[f]] = @ \cup {f}]
          /\ bound' = bound \cup {f} /\ active' = active + 1
     ELSE pane' = [pane EXCEPT ![f] = "waiting"] /\ phase' = "connecting" /\ UNCHANGED <<docs, models, bound, active>>
  /\ UNCHANGED room

\* The socket is open and initialized: the subscriptions and syncWorkspace, then
\* those that waited open their documents.
Connect ==
  LET ps == {f \in File : pane[f] = "waiting"}
      sent == [p \in Path |-> IF FileAt(p) = {} THEN Closed ELSE TextOf(CHOOSE f \in FileAt(p) : TRUE)]
  IN
  /\ phase = "connecting" /\ phase' = "connected"
  /\ OpenDocuments(ps, sent, NoModels)
  /\ pane' = [f \in File |-> IF f \in ps THEN "joined" ELSE pane[f]]
  /\ UNCHANGED <<room, used, timer, count>>

\* The start is refused, the socket does not open in time, or it closes.
EndSocket ==
  /\ phase # "none" /\ count.sockets < MaxSockets /\ count' = [count EXCEPT !.sockets = @ + 1]
  /\ Dispose /\ UNCHANGED <<room, used>>

IdleTimeout == timer /\ Dispose /\ UNCHANGED <<room, used, count>>

\* The pane goes, or its effect runs again because the path of its file changed:
\* the cleanup of an effect that still waits closes when it is answered.
ClosePane(f) ==
  /\ pane[f] \in {"joined", "cut off"} /\ pane' = [pane EXCEPT ![f] = "closed"]
  /\ IF pane[f] = "joined" THEN CloseDocument(f) ELSE UNCHANGED <<models, bound, active, timer>>
  /\ UNCHANGED <<room, phase, docs, used, count>>
-----------------------------------------------------------------------------
(* The room *)

Edit(f) ==
  /\ path[f] # "none" /\ count.edits < MaxEdits /\ count' = [count EXCEPT !.edits = @ + 1]
  /\ text' = [text EXCEPT ![f] = @ + 1] /\ SyncFile(f)
  /\ UNCHANGED <<path, phase, models, pane, used, bound, active, timer>>

\* A file is renamed to a path that is free, or deleted.
Rename(f, p) ==
  /\ path[f] # "none" /\ (p = "none" \/ FileAt(p) = {}) /\ count.renames < MaxRenames
  /\ count' = [count EXCEPT !.renames = @ + 1] /\ path' = [path EXCEPT ![f] = p]
  /\ IF phase = "connected" THEN SyncWorkspace(path') ELSE UNCHANGED <<docs, models, bound>>
  /\ UNCHANGED <<text, phase, pane, used, active, timer>>
-----------------------------------------------------------------------------
Next ==
  \/ \E f \in File :
       OpenPane(f) \/ ClosePane(f) \/ Edit(f) \/ \E p \in Path \cup {"none"} : Rename(f, p)
  \/ Connect \/ EndSocket \/ IdleTimeout

Spec == Init /\ [][Next]_vars
-----------------------------------------------------------------------------
(* Properties *)

\* A connected language server has the text of every file of the room at the
\* path it has now, whatever was edited and renamed before and while it started.
ServerHasRoomTexts ==
  phase = "connected" => \A f \in File : path[f] # "none" => docs[path[f]] = TextOf(f)
=============================================================================
