--------------------------- MODULE GithubBranches ---------------------------
(* The source control panel of one tab: the branches and the history of the   *)
(* room's repository (GithubSourceControlRemoteActions, useGithubBranchActions)*)
(* over GithubRepositoryBrowserService. Requests are answered in any order;   *)
(* GitHub keeps the branches (external), and others make and delete some.     *)
EXTENDS Naturals, Sequences, FiniteSets

CONSTANTS
  Branch, Default,  \* branches, and the repository's default one
  PagesOf,          \* per branch the pages of a hundred commits of its history
  MaxRequests,      \* older pages that are asked for at the same time
  MaxChanges,       \* selections, operations on branches, and changes by others
  MaxFaults,        \* requests that fail
  CalmPanel         \* TRUE: the selection stays while an older page loads, and no branch
                    \* is deleted before the list of repositories has come, and the
                    \* room's baseline stays during an operation

BranchesAssumption ==
  /\ Default \in Branch /\ PagesOf \in [Branch -> Nat \ {0}]
  /\ MaxRequests \in Nat /\ MaxChanges \in Nat /\ MaxFaults \in Nat /\ CalmPanel \in BOOLEAN

VARIABLES
  exists,        \* GitHub: the branches
  gone,          \* the branches that others have deleted
  repositories,  \* the list of repositories has come, and with it the default branch
  base,          \* the branch of the room's baseline
  selected,      \* the branch whose history is shown
  target,        \* the branch that pushes go to
  first,         \* requests for first pages: branch, and whether its effect is active
  older,         \* requests for older pages: branch, page, and whether the panel is still this one
  history, page, more, loading,
  operations,    \* the operations on branches that are under way
  changes, faults

vars == <<exists, gone, repositories, base, selected, target, first, older, history, page, more, loading, operations, changes, faults>>
panel == <<history, page, more, loading>>

Busy == \E o \in operations : o.here
MayChange == changes < MaxChanges /\ changes' = changes + 1
MayFail == faults < MaxFaults /\ faults' = faults + 1
Cancelled(requests) == {[r EXCEPT !.active = FALSE] : r \in requests}

\* The room has opened the default branch, which has been the only one so far
\* or not; the panel's first requests are under way.
Init ==
  /\ exists \in {{Default}, Branch} /\ gone = {} /\ repositories = FALSE /\ base = Default
  /\ selected = Default /\ target = Default /\ first = {[branch |-> Default, active |-> TRUE]} /\ older = {}
  /\ history = <<>> /\ page = 1 /\ more = FALSE /\ loading = TRUE
  /\ operations = {} /\ changes = 0 /\ faults = 0

RepositoriesArrive ==
  /\ ~repositories /\ repositories' = TRUE
  /\ UNCHANGED <<exists, gone, base, selected, target, first, older, panel, operations, changes, faults>>
-----------------------------------------------------------------------------
(* The history *)

\* The effect of a selection: the requests before are no longer active, the
\* history is emptied and the branch's first page asked for.
Load(b) ==
  /\ first' = Cancelled(first) \cup {[branch |-> b, active |-> TRUE]}
  /\ history' = <<>> /\ page' = 1 /\ more' = FALSE /\ loading' = TRUE

Select(b) == selected' = b /\ IF b = selected THEN UNCHANGED <<first, panel>> ELSE Load(b)

SelectBranch(b) ==
  /\ MayChange /\ ~Busy /\ b \in exists /\ b # selected /\ (CalmPanel => older = {}) /\ Select(b) /\ target' = b
  /\ UNCHANGED <<exists, gone, repositories, base, older, operations, faults>>

\* The pages of a branch that was deleted cannot be had.
ListHistory(b, p, rest) ==
  IF b \notin exists THEN UNCHANGED panel
  ELSE /\ history' = Append(rest, <<b, p>>) /\ page' = p /\ more' = (p < PagesOf[b])

\* A mutant of FirstPageArrives: an answer is shown whatever was selected since.
AnyFirstPageArrives ==
  \E r \in first :
    /\ first' = first \ {r} /\ ListHistory(r.branch, 1, <<>>) /\ loading' = FALSE
    /\ UNCHANGED <<exists, gone, repositories, base, selected, target, older, operations, changes, faults>>

FirstPageArrives ==
  \E r \in first :
    /\ first' = first \ {r}
    /\ IF r.active /\ r.branch \in exists THEN ListHistory(r.branch, 1, <<>>) /\ loading' = FALSE
       ELSE UNCHANGED <<history, page, more>> /\ loading' = (loading /\ ~r.active)
    /\ UNCHANGED <<exists, gone, repositories, base, selected, target, older, operations, changes, faults>>

FirstPageFails ==
  /\ MayFail /\ \E r \in first : first' = first \ {r} /\ loading' = (loading /\ ~r.active)
  /\ UNCHANGED <<exists, gone, repositories, base, selected, target, older, history, page, more, operations, changes>>

LoadMoreHistory ==
  /\ more /\ ~loading /\ Cardinality(older) < MaxRequests
  /\ loading' = TRUE /\ older' = older \cup {[branch |-> selected, page |-> page + 1, active |-> TRUE]}
  /\ UNCHANGED <<exists, gone, repositories, base, selected, target, first, history, page, more, operations, changes, faults>>

\* No check of what is selected by now; only a panel that is gone ignores it.
OlderPageArrives ==
  \E r \in older :
    /\ older' = older \ {r}
    /\ IF ~r.active THEN UNCHANGED panel
       ELSE /\ loading' = FALSE
            /\ IF r.branch \in exists THEN ListHistory(r.branch, r.page, history)
               ELSE UNCHANGED <<history, page, more>>
    /\ UNCHANGED <<exists, gone, repositories, base, selected, target, first, operations, changes, faults>>

OlderPageFails ==
  /\ MayFail /\ \E r \in older : older' = older \ {r} /\ loading' = (loading /\ ~r.active)
  /\ UNCHANGED <<exists, gone, repositories, base, selected, target, first, history, page, more, operations, changes>>
-----------------------------------------------------------------------------
(* Operations on branches: GitHub's answer, then the list of branches. An     *)
(* operation knows what was selected when it was asked for, and goes on when  *)
(* its panel is gone: then it sets only where pushes go to.                   *)

Ask(kind, b, to) ==
  /\ MayChange /\ ~Busy
  /\ operations' = operations \cup {[kind |-> kind, branch |-> b, to |-> to, was |-> selected,
                                    knows |-> repositories, here |-> TRUE]}
  /\ UNCHANGED <<exists, gone, repositories, base, selected, target, first, older, panel, faults>>

CreateBranch(b) == b \notin exists /\ base \in exists /\ Ask("create", b, b)
SaveRename(b, to) == b \in exists \ {Default} /\ to \notin exists /\ Ask("rename", b, to)
\* Without the list of repositories the panel knows no default branch.
RemoveBranch(b) == b \in exists \ {Default} /\ (CalmPanel => repositories) /\ Ask("delete", b, b)

Done(o) == operations' = operations \ {o}

\* The selection of an operations, with its effect.
Choose(o, b) ==
  /\ target' = b
  /\ IF o.here THEN (CalmPanel => older = {}) /\ Select(b) ELSE UNCHANGED <<selected, first, panel>>
NoChoice == UNCHANGED <<selected, target, first, panel>>

CreateBranchAsync(o) ==
  /\ o.kind = "create" /\ Done(o)
  /\ IF o.to \in exists \/ base \notin exists THEN UNCHANGED exists /\ NoChoice
     ELSE exists' = exists \cup {o.to} /\ Choose(o, o.to)
  /\ UNCHANGED <<gone, repositories, base, older, changes, faults>>

\* The new ref is made first, then the old one is deleted.
RenameBranchAsync(o) ==
  /\ o.kind = "rename" /\ Done(o)
  /\ IF o.branch \notin exists \/ o.to \in exists THEN UNCHANGED <<exists, faults>> /\ NoChoice
     ELSE \/ /\ exists' = (exists \ {o.branch}) \cup {o.to} /\ UNCHANGED faults
             /\ IF o.was = o.branch THEN Choose(o, o.to) ELSE NoChoice
          \/ exists' = exists \cup {o.to} /\ MayFail /\ NoChoice
  /\ UNCHANGED <<gone, repositories, base, older, changes>>

DeleteBranchAsync(o) ==
  /\ o.kind = "delete"
  /\ IF o.branch \in exists
     THEN exists' = exists \ {o.branch} /\ operations' = (operations \ {o}) \cup {[o EXCEPT !.kind = "deleted"]}
     ELSE UNCHANGED exists /\ Done(o)
  /\ UNCHANGED <<gone, repositories, base, selected, target, first, older, panel, changes, faults>>

\* After a deletion the list is awaited before the selection changes.
ListAfterDelete(o) ==
  /\ o.kind = "deleted" /\ Done(o)
  /\ IF o.knows /\ o.branch = o.was THEN Choose(o, Default) ELSE NoChoice
  /\ UNCHANGED <<exists, gone, repositories, base, older, changes, faults>>

\* The call, or the list of branches after a deletion, fails.
OperationFails(o) ==
  /\ MayFail /\ Done(o)
  /\ UNCHANGED <<exists, gone, repositories, base, selected, target, first, older, panel, changes>>
-----------------------------------------------------------------------------
(* Others *)

ForeignDelete(b) ==
  /\ MayChange /\ b \in exists \ {Default} /\ exists' = exists \ {b} /\ gone' = gone \cup {b}
  /\ UNCHANGED <<repositories, base, selected, target, first, older, panel, operations, faults>>

\* A push or an import gives the room another baseline: React makes a new panel
\* (its key is the baseline), with the baseline's branch selected.
BaselineChanges(b) ==
  /\ MayChange /\ b \in exists /\ (CalmPanel => operations = {})
  /\ base' = b /\ selected' = b /\ target' = b /\ Load(b)
  /\ older' = Cancelled(older) /\ operations' = {[o EXCEPT !.here = FALSE] : o \in operations} /\ repositories' = FALSE
  /\ UNCHANGED <<exists, gone, faults>>
-----------------------------------------------------------------------------
Next ==
  \/ RepositoriesArrive \/ FirstPageArrives \/ FirstPageFails
  \/ LoadMoreHistory \/ OlderPageArrives \/ OlderPageFails
  \/ \E o \in operations :
       CreateBranchAsync(o) \/ RenameBranchAsync(o) \/ DeleteBranchAsync(o) \/ ListAfterDelete(o) \/ OperationFails(o)
  \/ \E b \in Branch :
       \/ SelectBranch(b) \/ CreateBranch(b) \/ RemoveBranch(b) \/ ForeignDelete(b) \/ BaselineChanges(b)
       \/ \E to \in Branch : SaveRename(b, to)

Spec == Init /\ [][Next]_vars
-----------------------------------------------------------------------------
(* Properties *)

\* The commits shown are those of the selected branch, page after page from its
\* newest, and older ones can be asked for as long as there are some: however
\* the answers to earlier selections come in between.
HistoryIsOfSelected ==
  /\ history = [i \in 1..Len(history) |-> <<selected, i>>]
  /\ history # <<>> => page = Len(history) /\ more = (page < PagesOf[selected])

\* Pushes go to a branch that is there, so they do not bring a branch back that
\* the tab has deleted or renamed. (A branch that others delete is not noticed.)
PushTargetExists == faults = 0 /\ operations = {} => target \in exists \cup gone

\* What the panel shows of the repository is so: its commits and its push target.
PanelShowsRepository == HistoryIsOfSelected /\ PushTargetExists
=============================================================================
