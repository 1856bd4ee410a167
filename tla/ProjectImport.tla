---------------------------- MODULE ProjectImport ----------------------------
(* Importing files into a room: a tab inspects and prepares them, the server  *)
(* validates, plans, stores the texts, reserves room for them and appends the *)
(* operations that add them, one call to Redis at a time. Imports of several  *)
(* admins overlap, and any call may fail.                                     *)
(*                                                                            *)
(* Files are at the root; folders, which are created on the way to a file,    *)
(* follow the rules of ProjectTreeSync. Sizes are in units of the limits.     *)
EXTENDS Naturals, FiniteSets, FiniteSetsExt

CONSTANTS
  Tab,            \* tabs of admins
  Path, KindOf,   \* KindOf[p]: what the rules for names say of a path
  SizeOf,         \* SizeOf[p]: bytes of its text
  MaxFileBytes, MaxTotalBytes,  \* limits of one import, the same in the tab and the server
  MaxRoomBytes,   \* limit of all imports of a room
  MaxImports, MaxFailures

ImportAssumption ==
  /\ KindOf \in [Path -> {"plain", "ignored", "generated", "binary"}] /\ SizeOf \in [Path -> Nat]
  /\ {MaxFileBytes, MaxTotalBytes, MaxRoomBytes, MaxImports, MaxFailures} \subseteq Nat

VARIABLES
  entries,   \* the tree: identifiers of files
  created,   \* identifiers the append script has accepted
  stored,    \* identifiers with a stored snapshot
  quota,     \* room:project-import-bytes
  baseline,  \* the paths of the repository the room was imported from
  job,       \* the import each tab has under way
  told,      \* the creations and deletions each tab has applied
  imports, failures,
  stopped    \* history: an import ended after its first operation and before its last

vars == <<entries, created, stored, quota, baseline, job, told, imports, failures, stopped>>

\* A file is identified by the import that made its identifier and by its path.
PathOf(f) == f[2]
Paths(files) == {PathOf(f) : f \in files}
Bytes(paths) == MapThenSumSet(LAMBDA p : SizeOf[p], paths)

NoJob == [at |-> "idle", files |-> {}, paths |-> {}, base |-> {}, replace |-> FALSE, old |-> {},
          new |-> {}, before |-> {}, saved |-> {}, changed |-> {}]
Shows(t) == told[t].created \ told[t].deleted
To(t, step) == job' = [job EXCEPT ![t].at = step]
End(t) == job' = [job EXCEPT ![t] = NoJob]

Init ==
  /\ entries = {} /\ created = {} /\ stored = {} /\ quota = 0 /\ baseline = {}
  /\ job = [t \in Tab |-> NoJob] /\ told = [t \in Tab |-> [created |-> {}, deleted |-> {}]]
  /\ imports = 0 /\ failures = 0 /\ stopped = FALSE
-----------------------------------------------------------------------------
(* The rules of the tab and of the server *)

\* getImportIgnoreReason, and a text that holds a NUL or is not UTF-8.
Ignored(p) == KindOf[p] = "ignored"
Text(p) == KindOf[p] # "binary"

\* inspectSource, for every source, readSelectedImportFiles, and the totals of
\* prepareProjectImport.
Accepted(p) == ~Ignored(p) /\ SizeOf[p] <= MaxFileBytes /\ Text(p)
Candidates(picked) == {p \in picked : Accepted(p)}
Selected(paths) == paths # {} /\ \A p \in paths : SizeOf[p] <= MaxFileBytes
Prepared(paths) == Bytes(paths) <= MaxTotalBytes

\* IsSharedPath: the server knows generated folders the tab does not skip.
Shared(p) == KindOf[p] \notin {"ignored", "generated"}

\* ProjectImportValidator.
ValidFiles(paths) ==
  /\ paths # {} /\ \A p \in paths : Shared(p) /\ SizeOf[p] <= MaxFileBytes
  /\ Bytes(paths) <= MaxTotalBytes
ValidBaseline(base, paths) == base = {} \/ base = paths

\* baselineForSelectedFiles.
BaselineFor(base, paths) == base \cap paths
-----------------------------------------------------------------------------
(* The tab *)

\* A folder replaces the workspace, one file is added to it, and a repository
\* replaces it and brings its baseline; paths are what the user selects.
Pick(t, picked, paths, replace, repository) ==
  /\ job[t].at = "idle" /\ imports < MaxImports
  /\ paths \subseteq Candidates(picked) /\ Selected(paths) /\ Prepared(paths)
  /\ ~replace => Cardinality(picked) = 1
  /\ repository => replace
  /\ job' = [job EXCEPT ![t] = [NoJob EXCEPT !.at = "prepare", !.paths = paths, !.replace = replace,
                                  !.base = IF repository THEN BaselineFor(picked, paths) ELSE {}]]
  /\ UNCHANGED <<entries, created, stored, quota, baseline, told, imports, failures, stopped>>

\* importProjectFiles: a file that is added keeps the identifier of the one shown
\* with its path.
Send(t) ==
  LET existing == IF job[t].replace THEN {} ELSE {f \in Shows(t) : PathOf(f) \in job[t].paths}
      new == {<<imports + 1, p>> : p \in job[t].paths \ Paths(existing)}
  IN /\ job[t].at = "prepare" /\ imports' = imports + 1
     /\ job' = [job EXCEPT ![t].at = "plan", ![t].files = existing \cup new]
     /\ UNCHANGED <<entries, created, stored, quota, baseline, told, failures, stopped>>

\* The signal is looked at before the call. CancelProjectImport comes too late:
\* the hub takes it when the ImportProject of the same connection has ended.
Abort(t) ==
  /\ job[t].at = "prepare" /\ End(t)
  /\ UNCHANGED <<entries, created, stored, quota, baseline, told, imports, failures, stopped>>
-----------------------------------------------------------------------------
(* ImportAsync *)

\* Build: a path that exists may only be a file of the same identifier, and a
\* new entry has an identifier no entry has.
Fits(files, present) ==
  \A f \in files : f \in present \/ (PathOf(f) \notin Paths(present) /\ f \notin present)

Plan(t) ==
  LET present == IF job[t].replace THEN {} ELSE entries
      files == job[t].files
  IN /\ job[t].at = "plan"
     /\ IF ValidFiles(job[t].paths) /\ ValidBaseline(job[t].base, job[t].paths) /\ Fits(files, present)
        THEN job' = [job EXCEPT ![t].at = "save", ![t].old = IF job[t].replace THEN entries ELSE {},
                       ![t].new = files \ present, ![t].before = IF job[t].replace THEN {} ELSE files \cap stored]
        ELSE End(t)
     /\ UNCHANGED <<entries, created, stored, quota, baseline, told, imports, failures, stopped>>

\* SaveSnapshotsAsync.
Save(t, f) ==
  /\ job[t].at = "save" /\ f \in job[t].files \ job[t].saved
  /\ stored' = stored \cup {f} /\ job' = [job EXCEPT ![t].saved = @ \cup {f}]
  /\ UNCHANGED <<entries, created, quota, baseline, told, imports, failures, stopped>>

\* A mutant of Restored: every file of the import goes.
RestoredNothing(t) == stored \ job[t].files
\* RestoreSnapshotsAsync: what had no snapshot before has none again.
Restored(t) == (stored \ (job[t].files \ job[t].before)) \cup job[t].before

\* The scripts that reserve and that replace the bytes of the imports of a room.
Reserved(t) == Bytes(job[t].paths) + (IF job[t].replace THEN 0 ELSE quota)

Reserve(t) ==
  /\ job[t].at = "save" /\ job[t].saved = job[t].files
  /\ IF Reserved(t) <= MaxRoomBytes
     THEN quota' = Reserved(t) /\ To(t, "append") /\ UNCHANGED stored
     ELSE stored' = Restored(t) /\ End(t) /\ UNCHANGED quota
  /\ UNCHANGED <<entries, created, baseline, told, imports, failures, stopped>>

\* PersistOperationsAsync: first the deletions, then the creations; a name or an
\* identifier that is taken stops the import.
Append(t, f) ==
  LET old == job[t].old \cap entries
      new == job[t].new \ job[t].changed IN
  /\ job[t].at = "append"
  /\ \/ f \in old /\ entries' = entries \ {f} /\ job' = [job EXCEPT ![t].changed = @ \cup {f}]
        /\ UNCHANGED <<created, stopped>>
     \/ /\ old = {} /\ f \in new
        /\ IF f \in created \/ PathOf(f) \in Paths(entries)
           THEN End(t) /\ stopped' = TRUE /\ UNCHANGED <<entries, created>>
           ELSE /\ entries' = entries \cup {f} /\ created' = created \cup {f}
                /\ job' = [job EXCEPT ![t].changed = @ \cup {f}] /\ UNCHANGED stopped
  /\ UNCHANGED <<stored, quota, baseline, told, imports, failures>>

\* The operations that changed something; a deletion outlives a creation that
\* comes after it.
Told(t, u) == [created |-> told[u].created \cup job[t].new,
               deleted |-> told[u].deleted \cup (job[t].changed \cap job[t].old)]

\* The snapshots of the former files go; the baseline is the one of this import,
\* none for local files; the room and the tab are told what changed.
Complete(t) ==
  /\ job[t].at = "append" /\ job[t].old \cap entries = {} /\ job[t].new \subseteq job[t].changed
  /\ stored' = stored \ job[t].old /\ baseline' = job[t].base
  /\ told' = [u \in Tab |-> Told(t, u)]
  /\ End(t)
  /\ UNCHANGED <<entries, created, quota, imports, failures, stopped>>

\* A command fails: before the reservation what was saved is undone.
Fail(t) ==
  /\ job[t].at \in {"save", "append"} /\ failures < MaxFailures /\ failures' = failures + 1
  /\ stored' = IF job[t].at = "save" THEN Restored(t) ELSE stored
  /\ stopped' = (stopped \/ job[t].at = "append") /\ End(t)
  /\ UNCHANGED <<entries, created, quota, baseline, told, imports>>

Next == \E t \in Tab :
  \/ \E picked \in SUBSET Path : \E paths \in SUBSET picked, replace, repository \in BOOLEAN :
       Pick(t, picked, paths, replace, repository)
  \/ Send(t) \/ Abort(t) \/ Plan(t) \/ Reserve(t) \/ Complete(t) \/ Fail(t)
  \/ \E f \in (1..MaxImports) \X Path : Save(t, f) \/ Append(t, f)

Spec == Init /\ [][Next]_vars
-----------------------------------------------------------------------------
(* Properties *)

\* A file the server lists has its text stored, however imports overlap, are
\* refused, fail and undo what they saved.
ListedFilesHaveText == entries \subseteq stored

\* As long as no import stopped half-way, a tab shows what the server lists once
\* every import has ended.
TabsShowTree ==
  ~stopped /\ (\A t \in Tab : job[t].at = "idle") => \A t \in Tab : Shows(t) = entries

\* Tabs and server agree on the workspace, and every file in it has its text.
RoomShowsImport == ListedFilesHaveText /\ TabsShowTree
=============================================================================
