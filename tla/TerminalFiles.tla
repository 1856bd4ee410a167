---------------------------- MODULE TerminalFiles ----------------------------
(* The files of a Bash terminal and those of the room. A run writes the       *)
(* room's files into the container; every poll reads what programs changed    *)
(* there, and the tab applies it to the room unless the room has a newer text.*)
(*                                                                            *)
(* A text is the set of the edits it contains, and 0 when the file is there;  *)
(* an absent file is the empty set. Folders and paths are left out, as are    *)
(* files that are never shared.                                               *)
EXTENDS Naturals, FiniteSets

CONSTANTS
  File,
  MaxEdits,        \* edits of texts, in the room or in the container
  MaxChanges,      \* files created or deleted, in the room or in the container
  MaxAnswers,      \* answers of polls the tab has not applied yet
  MaxRuns,
  MaxLost          \* answers that do not arrive, or meet a locked editor

FilesAssumption == {MaxEdits, MaxChanges, MaxAnswers, MaxRuns, MaxLost} \subseteq Nat

VARIABLES
  shared,      \* the text of each file in the tab
  stored,      \* its snapshot on the server
  disk,        \* the workspace of the container
  known,       \* WorkspaceEntries: what the execution service compares with
  answers,     \* changes the tab has been told of and has not applied
  run,         \* how far runTerminalFile is, and what the server read for it
  count,       \* edits, changes, runs and losses so far
  typed,       \* history: edits made in the room
  seen,        \* history: edits of the room the container had
  refused,     \* history: files with a conflict or a lost answer, made or deleted in the room, or deleted in the container
  clicked      \* history: the texts the tab had when it asked for the run

vars == <<shared, stored, disk, known, answers, run, count, typed, seen, refused, clicked>>

Absent == {}
NoRun == [at |-> "idle", poll |-> 0, entries |-> [f \in File |-> Absent]]
All(texts) == UNION {texts[f] : f \in File}

\* StartTerminal: the snapshots of the room are the workspace.
Init ==
  /\ shared \in [File -> {Absent, {0}}] /\ stored = shared /\ disk = shared /\ known = shared
  /\ answers = {} /\ run = NoRun /\ typed = {} /\ seen = {} /\ refused = {} /\ clicked = shared
  /\ count = [edits |-> 0, changes |-> 0, runs |-> 0, lost |-> 0, polls |-> 0]
-----------------------------------------------------------------------------
(* The room *)

\* Somebody types; the snapshot follows later.
Type(f) ==
  LET e == count.edits + 1 IN
  /\ shared[f] # Absent /\ count.edits < MaxEdits /\ count' = [count EXCEPT !.edits = e]
  /\ shared' = [shared EXCEPT ![f] = @ \cup {e}] /\ typed' = typed \cup {e}
  /\ UNCHANGED <<stored, disk, known, answers, run, seen, refused, clicked>>

SaveSnapshot(f) ==
  /\ stored[f] # shared[f] /\ stored' = [stored EXCEPT ![f] = shared[f]]
  /\ UNCHANGED <<shared, disk, known, answers, run, count, typed, seen, refused, clicked>>

\* A file is created or deleted in the tree.
ChangeTree(f) ==
  /\ count.changes < MaxChanges /\ count' = [count EXCEPT !.changes = @ + 1]
  /\ shared' = [shared EXCEPT ![f] = IF @ = Absent THEN {0} ELSE Absent]
  /\ stored' = [stored EXCEPT ![f] = shared'[f]] /\ refused' = refused \cup {f}
  /\ UNCHANGED <<disk, known, answers, run, typed, seen, clicked>>
-----------------------------------------------------------------------------
(* The container *)

\* A program writes, creates or deletes a file.
ProgramEdits(f) ==
  LET e == count.edits + 1 IN
  /\ disk[f] # Absent /\ count.edits < MaxEdits /\ count' = [count EXCEPT !.edits = e]
  /\ disk' = [disk EXCEPT ![f] = @ \cup {e}]
  /\ UNCHANGED <<shared, stored, known, answers, run, typed, seen, refused, clicked>>

ProgramChanges(f) ==
  /\ count.changes < MaxChanges /\ count' = [count EXCEPT !.changes = @ + 1]
  /\ disk' = [disk EXCEPT ![f] = IF @ = Absent THEN {0} ELSE Absent]
  /\ refused' = IF disk[f] = Absent THEN refused ELSE refused \cup {f}
  /\ UNCHANGED <<shared, stored, known, answers, run, typed, seen, clicked>>

\* ReadWorkspaceChanges: what differs from the entries it remembers.
Changes == {f \in File : disk[f] # known[f]}

\* A poll takes the changes, each with the text it replaces. They are forgotten
\* here before the tab has applied them.
Poll ==
  /\ known' = disk /\ count' = [count EXCEPT !.polls = @ + 1]
  /\ answers' = answers \cup
       {[poll |-> count.polls + 1, todo |-> Changes, text |-> disk, previous |-> known]}

ReadTerminalOutput ==
  /\ Changes # {} /\ Cardinality(answers) < MaxAnswers /\ Poll
  /\ UNCHANGED <<shared, stored, disk, run, typed, seen, refused, clicked>>

\* The answer does not come, or the tab refuses it whole.
LoseAnswer(a) ==
  /\ count.lost < MaxLost /\ count' = [count EXCEPT !.lost = @ + 1]
  /\ answers' = answers \ {a} /\ refused' = refused \cup a.todo
  /\ run' = IF run.at = "flush room" /\ run.poll = a.poll THEN NoRun ELSE run
  /\ UNCHANGED <<shared, stored, disk, known, typed, seen, clicked>>
-----------------------------------------------------------------------------
(* syncTerminalWorkspace *)

\* What the change of a file in an answer does to the room: a text, or a conflict.
Conflict == {MaxEdits + 1}

\* A mutant of UpdateFile: the text of the terminal always wins.
UpdateAnyway(f, text, previous) == text

\* updateTerminalFileEntry: only over the text the terminal started from.
UpdateFile(f, text, previous) ==
  IF shared[f] = text THEN text ELSE IF shared[f] # previous THEN Conflict ELSE text

\* createTerminalEntry: not a file the terminal knew, which the room deleted.
CreateFile(f, text, previous) == IF previous # Absent THEN Conflict ELSE text

\* deleteTerminalEntry: only a file that still has the text the terminal knew.
DeleteFile(f, previous) ==
  IF shared[f] = Absent THEN Absent ELSE IF shared[f] # previous THEN Conflict ELSE Absent

\* One entry after the other, creations and updates before deletions.
ApplyEntry(a, f) ==
  LET result == IF a.text[f] = Absent THEN DeleteFile(f, a.previous[f])
                ELSE IF shared[f] # Absent THEN UpdateFile(f, a.text[f], a.previous[f])
                ELSE CreateFile(f, a.text[f], a.previous[f])
  IN
  /\ f \in a.todo /\ (a.text[f] = Absent => \A g \in a.todo : a.text[g] = Absent)
  /\ answers' = (answers \ {a}) \cup (IF a.todo = {f} THEN {} ELSE {[a EXCEPT !.todo = @ \ {f}]})
  /\ IF result = Conflict THEN refused' = refused \cup {f} /\ UNCHANGED <<shared, stored>>
     ELSE /\ shared' = [shared EXCEPT ![f] = result] /\ UNCHANGED refused
          /\ stored' = IF (result = Absent) # (shared[f] = Absent)
                       THEN [stored EXCEPT ![f] = IF result = Absent THEN Absent ELSE {0}] ELSE stored
  /\ UNCHANGED <<disk, known, run, count, typed, seen, clicked>>
-----------------------------------------------------------------------------
(* runTerminalFile *)

\* First the changes of the terminal, by a poll of its own.
AskForRun ==
  /\ run.at = "idle" /\ count.runs < MaxRuns /\ count' = [count EXCEPT !.runs = @ + 1]
  /\ run' = [run EXCEPT !.at = "flush terminal"] /\ clicked' = shared
  /\ UNCHANGED <<shared, stored, disk, known, answers, typed, seen, refused>>

FlushTerminal ==
  /\ run.at = "flush terminal"
  /\ IF Changes = {} THEN run' = [run EXCEPT !.at = "flush room"] /\ UNCHANGED <<answers, known, count>>
     ELSE Poll /\ run' = [run EXCEPT !.at = "flush room", !.poll = count.polls + 1]
  /\ UNCHANGED <<shared, stored, disk, typed, seen, refused, clicked>>

\* A mutant of FlushRoom: the pending snapshots are left to their timers.
FlushNothing ==
  /\ run.at = "flush room" /\ ~\E a \in answers : a.poll = run.poll
  /\ run' = [run EXCEPT !.at = "asked"]
  /\ UNCHANGED <<shared, stored, disk, known, answers, count, typed, seen, refused, clicked>>

\* When its changes are applied, flushRoomWorkspace.
FlushRoom ==
  /\ run.at = "flush room" /\ ~\E a \in answers : a.poll = run.poll
  /\ run' = [run EXCEPT !.at = "asked"] /\ stored' = shared
  /\ UNCHANGED <<shared, disk, known, answers, count, typed, seen, refused, clicked>>

\* RunFile reads the snapshots of the room.
Materialize ==
  /\ run.at = "asked" /\ run' = [run EXCEPT !.at = "sync", !.entries = stored]
  /\ UNCHANGED <<shared, stored, disk, known, answers, count, typed, seen, refused, clicked>>

\* syncode-sync-workspace writes them all, and removes the files the service
\* knew and the room has no more. A poll waits for it, a program does not.
SyncWorkspace ==
  LET e == run.entries IN
  /\ run.at = "sync" /\ run' = [run EXCEPT !.at = "runs"]
  /\ disk' = [f \in File |-> IF e[f] # Absent \/ known[f] # Absent THEN e[f] ELSE disk[f]]
  /\ known' = e /\ seen' = seen \cup (All(e) \cap typed)
  /\ UNCHANGED <<shared, stored, answers, count, typed, refused, clicked>>

Started ==
  /\ run.at = "runs" /\ run' = NoRun
  /\ UNCHANGED <<shared, stored, disk, known, answers, count, typed, seen, refused, clicked>>
-----------------------------------------------------------------------------
Next ==
  \/ \E f \in File :
       Type(f) \/ SaveSnapshot(f) \/ ChangeTree(f) \/ ProgramEdits(f) \/ ProgramChanges(f)
       \/ \E a \in answers : ApplyEntry(a, f)
  \/ \E a \in answers : LoseAnswer(a)
  \/ ReadTerminalOutput \/ AskForRun \/ FlushTerminal \/ FlushRoom \/ Materialize \/ SyncWorkspace \/ Started

Spec == Init /\ [][Next]_vars
-----------------------------------------------------------------------------
(* Properties *)

\* What a terminal writes never takes an edit out of the room's text that its
\* container did not have, whatever polls, runs and edits come in between.
UnseenEditsSurvive ==
  [][\A f \in File : ~ChangeTree(f) => (shared[f] \cap typed) \ seen \subseteq shared'[f]]_vars

\* An edit a program made and a poll has read arrives in the room, unless it
\* was reported as a conflict, was lost, the room made or deleted the file, or a program deleted it.
TerminalEditsArrive ==
  \A f \in File : f \notin refused /\ disk[f] = known[f] /\ (\A a \in answers : f \notin a.todo) =>
    disk[f] \ {0} \subseteq shared[f]

\* When the program starts, the container has what the tab showed when the run
\* was asked for, save the files whose tree changed meanwhile.
RunSeesTab ==
  run.at = "runs" => \A f \in File \ refused : (clicked[f] \cap typed) \ seen \subseteq run.entries[f]

\* A program is given what the tab shows, and gives back what it wrote.
RunsExchangeEdits == RunSeesTab /\ TerminalEditsArrive
=============================================================================
