----------------------------- MODULE EditorFiles -----------------------------
(* The panes and tabs of the editor of one browser tab (useEditorFileState     *)
(* over editorGroups), while the provider tells of the files that others and   *)
(* this tab create and delete. A tab shows a file, or a review of a change.    *)
(* React renders the updates of an event before the next event.                *)
EXTENDS Naturals, Sequences, SequencesExt

CONSTANTS
  File, Review,     \* files of the project, and changes that can be reviewed
  MaxGroups,        \* panes: a width of 12.5 percent allows eight
  MaxChanges        \* files that are created or deleted

EditorAssumption ==
  /\ File \cap Review = {} /\ "" \notin File \cup Review
  /\ MaxGroups \in Nat \ {0} /\ MaxChanges \in Nat

VARIABLES
  files,            \* the provider's files, in its order
  providerFile,     \* its active file
  stored,           \* the active file that sessionStorage remembers
  reviews,          \* the review tabs
  groups,           \* the panes: name, tabs, active tab
  group,            \* the pane that has the focus
  active,           \* activeFileId, the file that the room works on
  changes

vars == <<files, providerFile, stored, reviews, groups, group, active, changes>>

Pane == 1..MaxGroups
NewPane(g) == [id |-> g, tabs |-> <<>>, active |-> ""]
Named(panes, g) == {i \in DOMAIN panes : panes[i].id = g}
PaneOf(panes, g) == panes[CHOOSE i \in Named(panes, g) : TRUE]
ActiveOf(panes, g) == IF Named(panes, g) = {} THEN "" ELSE PaneOf(panes, g).active
FileOr(tab) == IF tab \in Review THEN "" ELSE tab
LastOr(tabs) == IF tabs = <<>> THEN "" ELSE Last(tabs)

\* What s has of the set kept, in its order (filter).
Select(s, kept) ==
  LET F[i \in 0..Len(s)] ==
        IF i = 0 THEN <<>> ELSE IF s[i] \in kept THEN Append(F[i - 1], s[i]) ELSE F[i - 1]
  IN  F[Len(s)]

Without(tabs, tab) == Select(tabs, ToSet(tabs) \ {tab})
With(tabs, tab) == IF Contains(tabs, tab) THEN tabs ELSE Append(tabs, tab)

\* sessionStorage may remember a file from before the page was reloaded.
Init ==
  /\ files = <<>> /\ providerFile = "" /\ stored \in File \cup {""} /\ reviews = {}
  /\ groups = <<NewPane(1)>> /\ group = 1 /\ active = "" /\ changes = 0
-----------------------------------------------------------------------------
(* The operations on panes *)

SplitGroup(panes, g, new) ==
  LET i == CHOOSE j \in Named(panes, g) : TRUE IN
  SubSeq(panes, 1, i) \o <<NewPane(new)>> \o SubSeq(panes, i + 1, Len(panes))

\* A mutant of OpenFileIn: the file stays in the pane it was in.
OpenAlsoIn(panes, g, f) ==
  IF Named(panes, g) = {} THEN panes
  ELSE [i \in DOMAIN panes |->
         IF panes[i].id = g THEN [panes[i] EXCEPT !.tabs = With(@, f), !.active = f] ELSE panes[i]]

\* A file is in one pane: the one it was opened in last.
OpenFileIn(panes, g, f) ==
  IF Named(panes, g) = {} THEN panes
  ELSE [i \in DOMAIN panes |->
         LET p == panes[i] IN
         IF p.id = g THEN [p EXCEPT !.tabs = With(@, f), !.active = f]
         ELSE [p EXCEPT !.tabs = Without(@, f), !.active = IF @ = f THEN LastOr(Without(p.tabs, f)) ELSE @]]

\* The tab that takes the place of the closed one, or the last.
Neighbour(tabs, f) ==
  LET rest == Without(tabs, f)
      i == CHOOSE j \in DOMAIN tabs : tabs[j] = f IN
  IF rest = <<>> THEN "" ELSE rest[IF i <= Len(rest) THEN i ELSE Len(rest)]

CloseFileIn(panes, g, f) ==
  [i \in DOMAIN panes |->
    LET p == panes[i] IN
    IF p.id # g \/ ~Contains(p.tabs, f) THEN p
    ELSE [p EXCEPT !.tabs = Without(@, f), !.active = IF @ = f THEN Neighbour(p.tabs, f) ELSE @]]

Prune(panes, valid) ==
  [i \in DOMAIN panes |->
    LET p == panes[i]
        tabs == Select(p.tabs, valid) IN
    [p EXCEPT !.tabs = tabs, !.active = IF @ \in valid THEN @ ELSE LastOr(tabs)]]

\* The pane's tabs go to the pane before it, or to the second when it is the first.
Heir(panes, g) ==
  LET i == CHOOSE j \in Named(panes, g) : TRUE IN panes[IF i = 1 THEN 2 ELSE i - 1].id

RemoveGroup(panes, g) ==
  LET old == PaneOf(panes, g)
      merged == [i \in DOMAIN panes |->
                  LET p == panes[i] IN
                  IF p.id # Heir(panes, g) THEN p
                  ELSE [p EXCEPT !.tabs = p.tabs \o Select(old.tabs, ToSet(old.tabs) \ ToSet(p.tabs)),
                                 !.active = IF @ = "" THEN old.active ELSE @]] IN
  Select(merged, {p \in ToSet(merged) : p.id # g})
-----------------------------------------------------------------------------
(* Events *)

\* provider.setActiveFile: nothing when the file is active or gone, otherwise
\* the listener opens it in the focused pane and remembers it.
Activates(f) == f # providerFile /\ Contains(files, f)
Activated(panes, g, f) == IF Activates(f) THEN OpenFileIn(panes, g, f) ELSE panes
SetActiveFile(f) ==
  /\ providerFile' = IF Activates(f) THEN f ELSE providerFile
  /\ stored' = IF Activates(f) THEN f ELSE stored

\* The pane g of the panes gets the focus.
Focus(panes, g) ==
  LET f == FileOr(ActiveOf(panes, g)) IN
  /\ group' = g /\ active' = f /\ SetActiveFile(f) /\ groups' = Activated(panes, g, f)

SetActiveEditorGroup(g) ==
  /\ Named(groups, g) # {} /\ g # group /\ Focus(groups, g) /\ UNCHANGED <<files, reviews, changes>>

OpenFile(f, g) ==
  /\ Contains(files, f) /\ Named(groups, g) # {}
  /\ group' = g /\ active' = f /\ SetActiveFile(f) /\ groups' = OpenFileIn(groups, g, f)
  /\ UNCHANGED <<files, reviews, changes>>

OpenReviewTab(r) ==
  /\ reviews' = reviews \cup {r} /\ active' = "" /\ groups' = OpenFileIn(groups, group, r)
  /\ UNCHANGED <<files, providerFile, stored, group, changes>>

\* The pane has the focus: the click on its tab gave it.
CloseFileTab(f) ==
  LET next == CloseFileIn(groups, group, f) IN
  /\ Contains(PaneOf(groups, group).tabs, f) /\ reviews' = reviews \ {f}
  /\ IF ActiveOf(groups, group) = f THEN Focus(next, group)
     ELSE groups' = next /\ UNCHANGED <<group, active, providerFile, stored>>
  /\ UNCHANGED <<files, changes>>

SplitWorkspace(new) ==
  /\ Named(groups, new) = {} /\ Focus(SplitGroup(groups, group, new), new)
  /\ UNCHANGED <<files, reviews, changes>>

CloseEditorGroup ==
  /\ Len(groups) > 1 /\ Focus(RemoveGroup(groups, group), Heir(groups, group))
  /\ UNCHANGED <<files, reviews, changes>>
-----------------------------------------------------------------------------
(* The files change *)

\* What the file listener opens: the remembered file, or the first one when the
\* active file is gone, and nothing when a review has the focus.
Preferred(next) ==
  IF ActiveOf(groups, group) \in Review THEN ""
  ELSE IF Contains(next, stored) THEN stored
  ELSE IF Contains(next, active) \/ next = <<>> THEN ""
  ELSE Head(next)

\* It closes the tabs of files that are gone, and then opens that.
Listened(next) ==
  LET panes == Prune(groups, ToSet(next) \cup reviews) IN
  IF Preferred(next) = "" THEN panes ELSE OpenFileIn(panes, group, Preferred(next))

\* The effect subscribes anew when the connection's status or the reviews
\* change, and the provider calls the listener at once.
Subscribe ==
  /\ groups' = Listened(files) /\ active' = IF Preferred(files) = "" THEN active ELSE Preferred(files)
  /\ IF Preferred(files) = stored THEN SetActiveFile(stored) ELSE UNCHANGED <<providerFile, stored>>
  /\ UNCHANGED <<files, reviews, group, changes>>

\* The provider keeps its active file or takes the first, calls the listener of
\* the files and then the one of its active file, which opens that.
UpdateFiles(next) ==
  LET now == IF Preferred(next) = stored /\ stored # "" THEN stored
             ELSE IF Contains(next, providerFile) THEN providerFile
             ELSE IF next = <<>> THEN "" ELSE Head(next) IN
  /\ changes < MaxChanges /\ changes' = changes + 1
  /\ files' = next /\ providerFile' = now /\ active' = now
  /\ stored' = IF now = "" THEN stored ELSE now
  /\ groups' = IF now = "" THEN Listened(next) ELSE OpenFileIn(Listened(next), group, now)
  /\ UNCHANGED <<reviews, group>>

CreateFile(f) == ~Contains(files, f) /\ UpdateFiles(Append(files, f))
DeleteFile(f) == Contains(files, f) /\ UpdateFiles(Without(files, f))
-----------------------------------------------------------------------------
Next ==
  \/ Subscribe \/ CloseEditorGroup
  \/ \E f \in File :
       \/ CreateFile(f) \/ DeleteFile(f) \/ \E g \in Pane : OpenFile(f, g)
  \/ \E r \in Review : OpenReviewTab(r)
  \/ \E f \in File \cup Review : CloseFileTab(f)
  \/ \E g \in Pane : SetActiveEditorGroup(g) \/ SplitWorkspace(g)

Spec == Init /\ [][Next]_vars
-----------------------------------------------------------------------------
(* Properties *)

Tabs(panes) == UNION {ToSet(panes[i].tabs) : i \in DOMAIN panes}

\* Whatever is opened, closed, split and deleted: a file is in one pane, a pane
\* with tabs shows one of them, tabs are of files and reviews that are there,
\* and the file the room works on is the one that the focused pane shows.
PanesShowOpenFiles ==
  /\ \A i, j \in DOMAIN groups : i # j => ToSet(groups[i].tabs) \cap ToSet(groups[j].tabs) = {}
  /\ \A i \in DOMAIN groups :
       /\ groups[i].active \in ToSet(groups[i].tabs) \cup {""}
       /\ groups[i].tabs # <<>> => groups[i].active # ""
  /\ Tabs(groups) \subseteq ToSet(files) \cup reviews
  /\ Named(groups, group) # {} /\ active = FileOr(ActiveOf(groups, group))
=============================================================================
