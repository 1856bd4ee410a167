------------------------------ MODULE GithubPush ------------------------------
(* A room and its GitHub repository: an admin imports a branch, participants  *)
(* push what the room has changed since (GithubRepositoryPushService), branches*)
(* are made and deleted, and others commit to them meanwhile.                 *)
(* GitHub (external) keeps commits and branch heads; a blob stands for a text.*)
EXTENDS Naturals, Sequences

CONSTANTS
  Tab, Path, Text,
  Admin,            \* tabs whose participant is an admin
  Branch, Main,     \* branches of the repository and the default one
  Shared,           \* the paths that others at GitHub change, to other texts
  MaxCommits,       \* commits in the repository
  MaxEdits,         \* changes of the room's files
  MaxRequests,      \* imports, pushes and changes of branches
  MaxFaults         \* locks that lapse after two minutes, and stores and calls that fail

PushAssumption ==
  /\ Main \in Branch /\ Admin \subseteq Tab /\ Shared \subseteq Path /\ "absent" \notin Text /\ "free" \notin Tab
  /\ MaxCommits \in Nat /\ MaxEdits \in Nat /\ MaxRequests \in Nat /\ MaxFaults \in Nat

VARIABLES
  commits,     \* the commits: parent and tree
  heads,       \* per branch its commit, 0 when the branch does not exist
  room,        \* text per path
  baseline,    \* GithubRepositoryStore: branch, commit and texts of the tracked files
  lock,        \* the push lock of the room
  push,        \* per tab: its push
  review,      \* per tab: the import it looks at, a baseline
  edits, requests, faults

vars == <<commits, heads, room, baseline, lock, push, review, edits, requests, faults>>
github == <<commits, heads>>

NoFiles == [p \in Path |-> "absent"]
SomeFiles == [p \in Path |-> CHOOSE x \in Text : TRUE]
NoBaseline == [branch |-> Main, commit |-> 0, files |-> NoFiles]
NoPush == [at |-> "idle", branch |-> Main, changes |-> {}, base |-> NoBaseline,
           target |-> 0, tree |-> NoFiles, files |-> NoFiles]
MayFail == faults < MaxFaults /\ faults' = faults + 1
MayAsk == requests < MaxRequests /\ requests' = requests + 1
Tree(c) == commits[c].tree
Ancestors[c \in 0..MaxCommits] == IF c = 0 THEN {} ELSE {c} \cup Ancestors[commits[c].parent]

Selected(files, chosen) == [p \in Path |-> IF p \in chosen THEN files[p] ELSE "absent"]

\* A room with files of its own and no repository, or one that has opened some
\* of the files of a repository with one commit.
Init ==
  /\ \/ commits = <<>> /\ heads = [b \in Branch |-> 0] /\ room = SomeFiles /\ baseline = NoBaseline
     \/ /\ commits = <<[parent |-> 0, tree |-> SomeFiles]>> /\ heads = [b \in Branch |-> 1]
        /\ \E chosen \in SUBSET Path \ {{}} : room = Selected(SomeFiles, chosen)
        /\ baseline = [branch |-> Main, commit |-> 1, files |-> room]
  /\ lock = "free"
  /\ push = [t \in Tab |-> NoPush] /\ review = [t \in Tab |-> NoBaseline]
  /\ edits = 0 /\ requests = 0 /\ faults = 0
-----------------------------------------------------------------------------
(* The room, and others at GitHub *)

Edit(p, x) ==
  /\ edits < MaxEdits /\ edits' = edits + 1 /\ x # room[p] /\ room' = [room EXCEPT ![p] = x]
  /\ UNCHANGED <<commits, heads, baseline, lock, push, review, requests, faults>>

Commit(b, parent, files) ==
  /\ Len(commits) < MaxCommits /\ commits' = Append(commits, [parent |-> parent, tree |-> files])
  /\ heads' = [heads EXCEPT ![b] = Len(commits) + 1]

ForeignCommit(b, p, x) ==
  /\ p \in Shared /\ x \in Text /\ heads[b] # 0 /\ x # Tree(heads[b])[p]
  /\ Commit(b, heads[b], [Tree(heads[b]) EXCEPT ![p] = x])
  /\ UNCHANGED <<room, baseline, lock, push, review, edits, requests, faults>>
-----------------------------------------------------------------------------
(* Branches *)

CreateBranch(b, source) ==
  /\ MayAsk /\ heads[b] = 0 /\ heads[source] # 0 /\ heads' = [heads EXCEPT ![b] = heads[source]]
  /\ UNCHANGED <<commits, room, baseline, lock, push, review, edits, faults>>

DeleteBranch(b) ==
  /\ MayAsk /\ b # Main /\ heads[b] # 0 /\ heads' = [heads EXCEPT ![b] = 0]
  /\ UNCHANGED <<commits, room, baseline, lock, push, review, edits, faults>>
-----------------------------------------------------------------------------
(* Opening a repository *)

\* The admin's grant is good; the server reads the head of the branch, its tree
\* and its texts.
ReviewRepository(t, b) ==
  /\ MayAsk /\ t \in Admin /\ heads[b] # 0
  /\ review' = [review EXCEPT ![t] = [branch |-> b, commit |-> heads[b], files |-> Tree(heads[b])]]
  /\ UNCHANGED <<commits, heads, room, baseline, lock, push, edits, faults>>

\* Large, binary and ignored files are skipped, and the admin selects among the
\* others: the room and the baseline get those.
Offered(t) == {p \in Path : review[t].files[p] # "absent"}

ImportRepository(t, chosen) ==
  LET files == Selected(review[t].files, chosen) IN
  /\ review[t].commit # 0 /\ files # NoFiles /\ chosen \subseteq Offered(t)
  /\ room' = files /\ baseline' = [review[t] EXCEPT !.files = files]
  /\ review' = [review EXCEPT ![t] = NoBaseline]
  /\ UNCHANGED <<commits, heads, lock, push, edits, requests, faults>>
-----------------------------------------------------------------------------
(* A push *)

ChangedPaths == {p \in Path : room[p] # baseline.files[p]}

\* What the tab found changed, or a selection of it, for any branch name.
AskToPush(t, b, paths) ==
  /\ MayAsk /\ push[t] = NoPush /\ baseline.commit # 0 /\ paths # {} /\ paths \subseteq ChangedPaths
  /\ push' = [push EXCEPT ![t] = [NoPush EXCEPT !.at = "asked", !.branch = b,
                                  !.changes = {[path |-> p, text |-> room[p]] : p \in paths}]]
  /\ UNCHANGED <<commits, heads, room, baseline, lock, review, edits, faults>>

Refuse(t) == push' = [push EXCEPT ![t] = [NoPush EXCEPT !.at = "leaving"]]

AcquirePushLock(t) ==
  /\ push[t].at = "asked"
  /\ IF lock = "free" THEN lock' = t /\ push' = [push EXCEPT ![t].at = "locked"]
     ELSE push' = [push EXCEPT ![t] = NoPush] /\ UNCHANGED lock
  /\ UNCHANGED <<commits, heads, room, baseline, review, edits, requests, faults>>

LockLapses ==
  /\ lock # "free" /\ MayFail /\ lock' = "free"
  /\ UNCHANGED <<commits, heads, room, baseline, push, review, edits, requests>>

\* Deleted files must be tracked and gone from the room, others must be in it.
ValidChange(change) ==
  IF change.text = "absent" THEN baseline.files[change.path] # "absent" /\ room[change.path] = "absent"
  ELSE room[change.path] # "absent"

Updated(files, changes) ==
  [p \in Path |-> IF \E c \in changes : c.path = p THEN (CHOOSE c \in changes : c.path = p).text ELSE files[p]]
Tracked(files) == [p \in Path |-> IF baseline.files[p] = "absent" THEN "absent" ELSE files[p]]

\* The tracked files as they are in the branch pushed to, with the changes.
BuildTreePlan(target, changes) == Updated(Tracked(Tree(target)), changes)

\* A mutant of Moved: the branch may have moved.
NeverMoved(b) == FALSE

Moved(b) == b = baseline.branch /\ heads[b] # baseline.commit

\* A branch that does not exist yet starts from the branch the room has open.
LoadPushContext(t) ==
  LET p == push[t]
      b == IF heads[p.branch] # 0 THEN p.branch ELSE baseline.branch
      target == heads[b] IN
  /\ p.at = "locked"
  /\ IF baseline.commit = 0 \/ target = 0 \/ Moved(b) \/ \E c \in p.changes : ~ValidChange(c)
     THEN Refuse(t)
     ELSE push' = [push EXCEPT ![t] = [p EXCEPT !.at = "built", !.base = baseline, !.target = target,
                                          !.tree = Updated(Tree(target), p.changes),
                                          !.files = BuildTreePlan(target, p.changes)]]
  /\ UNCHANGED <<commits, heads, room, baseline, lock, review, edits, requests, faults>>

CheckBranch(t) ==
  LET head == heads[push[t].branch] IN
  /\ push[t].at = "built"
  /\ IF head # 0 /\ head # push[t].target THEN Refuse(t)
     ELSE push' = [push EXCEPT ![t].at = IF head = 0 THEN "create" ELSE "update"]
  /\ UNCHANGED <<commits, heads, room, baseline, lock, review, edits, requests, faults>>

Published(t) ==
  /\ Commit(push[t].branch, push[t].target, push[t].tree)
  /\ push' = [push EXCEPT ![t].at = "published", ![t].target = Len(commits) + 1]

\* GitHub takes the commit when the branch is still behind it.
UpdateBranch(t) ==
  /\ push[t].at = "update"
  /\ IF heads[push[t].branch] \in Ancestors[push[t].target] THEN Published(t)
     ELSE Refuse(t) /\ UNCHANGED github
  /\ UNCHANGED <<room, baseline, lock, review, edits, requests, faults>>

CreateRef(t) ==
  /\ push[t].at = "create"
  /\ IF heads[push[t].branch] = 0 THEN Published(t) ELSE Refuse(t) /\ UNCHANGED github
  /\ UNCHANGED <<room, baseline, lock, review, edits, requests, faults>>

\* The new baseline is stored and sent to the room. When that fails the branch
\* has moved, and the room stays at the commit before.
SaveBaseline(t) ==
  LET p == push[t] IN
  /\ p.at = "published" /\ push' = [push EXCEPT ![t] = [NoPush EXCEPT !.at = "leaving"]]
  /\ \/ baseline' = [branch |-> p.branch, commit |-> p.target, files |-> p.files] /\ UNCHANGED faults
     \/ UNCHANGED baseline /\ MayFail
  /\ UNCHANGED <<commits, heads, room, lock, review, edits, requests>>

ReleasePushLock(t) ==
  /\ push[t].at = "leaving" /\ push' = [push EXCEPT ![t] = NoPush]
  /\ lock' = IF lock = t THEN "free" ELSE lock
  /\ UNCHANGED <<commits, heads, room, baseline, review, edits, requests, faults>>

\* A repository for a room that has none, from the files the server has.
CreateRepository(t) ==
  /\ MayAsk /\ t \in Admin /\ baseline.commit = 0 /\ commits = <<>> /\ lock = "free" /\ push[t] = NoPush /\ room # NoFiles
  /\ lock' = t /\ Commit(Main, 0, room)
  /\ push' = [push EXCEPT ![t] = [NoPush EXCEPT !.at = "published", !.target = 1, !.tree = room, !.files = room]]
  /\ UNCHANGED <<room, baseline, review, edits, faults>>
-----------------------------------------------------------------------------
Next ==
  \/ \E p \in Path, x \in Text \cup {"absent"} : Edit(p, x) \/ \E b \in Branch : ForeignCommit(b, p, x)
  \/ \E b, c \in Branch : CreateBranch(b, c)
  \/ \E b \in Branch : DeleteBranch(b) \/ \E t \in Tab : ReviewRepository(t, b)
  \/ LockLapses
  \/ \E t \in Tab : \E paths \in SUBSET Path :
       ImportRepository(t, paths) \/ \E b \in Branch : AskToPush(t, b, paths)
  \/ \E t \in Tab :
       AcquirePushLock(t) \/ LoadPushContext(t) \/ CheckBranch(t) \/ UpdateBranch(t) \/ CreateRef(t)
       \/ SaveBaseline(t) \/ ReleasePushLock(t) \/ CreateRepository(t)

Spec == Init /\ [][Next]_vars
-----------------------------------------------------------------------------
(* Properties *)

\* A push to the branch that the room has open replaces only texts the room
\* knew: a tracked file that somebody has changed there is never overwritten.
KnownTextReplaced ==
  [][\A t \in Tab :
       LET p == push[t] IN
       p.at \in {"create", "update"} /\ push'[t].at = "published" /\ p.branch = p.base.branch =>
         \A q \in Path : p.base.files[q] # "absent" /\ p.tree[q] # Tree(p.target)[q] =>
           Tree(p.target)[q] = p.base.files[q]]_vars
=============================================================================
