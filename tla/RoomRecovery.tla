---------------------------- MODULE RoomRecovery ----------------------------
(* A room expires after two hours without activity and is kept, for those it  *)
(* remembers, as a recovery record. The member who comes back first makes it  *)
(* again and uploads the files its tab still shows.                           *)
(*                                                                            *)
(* One room. A tab is one connection; approval is left to RoomMembership:     *)
(* here, who has the key of an existing room is let in.                       *)
EXTENDS Naturals, FiniteSets

CONSTANTS
  Tab, Member, MemberOf,   \* MemberOf[t]: the request identifier of a tab
  File,                    \* identifiers of entries, all of them files at the root
  Plain,                   \* files one site typed from left to right and deleted nothing of
  MaxFailures,             \* commands to Redis that fail in an import
  MaxCrashes,              \* server instances that stop
  MaxExpiries,
  CalmSweeps               \* no call of a tab runs while a sweep of the room does

RecoveryAssumption ==
  /\ MemberOf \in [Tab -> Member] /\ CalmSweeps \in BOOLEAN /\ Plain \subseteq File
  /\ {MaxFailures, MaxCrashes, MaxExpiries} \subseteq Nat

VARIABLES
  meta,        \* room:meta: whether it exists, has the access key, is fresh, whose recovery it is
  remembered,  \* room:approved-participants
  recovery,    \* the members in the recovery record, none if there is no record
  people,      \* room:participants
  tree,        \* the entries of the project tree
  created,     \* the identifiers the append script has an accepted creation of
  snapshots,   \* the files with a stored snapshot
  sweep,       \* how far the cleanup of the room is
  call,        \* the hub method each tab has under way
  inRoom,      \* roomJoined of a tab
  shows,       \* the files a tab shows, kept when the room expires
  pending,     \* tabs with roomRecoveryPending
  budget,      \* failures, crashes and expiries so far
  restored,    \* history: what the last completed upload was to restore, until a sweep deletes it
  settled      \* history: a member was remembered

stored == <<meta, remembered, recovery, people, tree, created, snapshots>>
vars == <<stored, sweep, call, inRoom, shows, pending, budget, restored, settled>>

NoMeta == [exists |-> FALSE, key |-> FALSE, fresh |-> FALSE, owner |-> "nobody", status |-> "none"]
NoCall == [at |-> "idle", old |-> {}, todo |-> {}, again |-> FALSE]
Now(t, step) == call' = [call EXCEPT ![t].at = step]
Done(t) == call' = [call EXCEPT ![t] = NoCall]

\* CreateRoom: the room is there, with its key; its creator is about to join.
Init ==
  /\ meta = [NoMeta EXCEPT !.exists = TRUE, !.key = TRUE, !.fresh = TRUE]
  /\ remembered = {} /\ recovery = {} /\ people = {} /\ tree = {} /\ created = {} /\ snapshots = {}
  /\ sweep = "idle" /\ call = [t \in Tab |-> NoCall] /\ inRoom = [t \in Tab |-> FALSE]
  /\ shows = [t \in Tab |-> {}] /\ pending = {} /\ restored = {} /\ settled = FALSE
  /\ budget = [failures |-> 0, crashes |-> 0, expiries |-> 0]
-----------------------------------------------------------------------------
(* JoinRoom *)

\* TryRestoreExpiredRoom: a transaction on the condition that there is no room;
\* the reads before it are taken together with it.
RestoreRoom(t) ==
  LET m == MemberOf[t] IN
  /\ call[t].at = "idle" /\ ~inRoom[t] /\ t \notin people
  /\ CalmSweeps => sweep = "idle"
  /\ IF ~meta.exists /\ m \in recovery
     THEN /\ meta' = [exists |-> TRUE, key |-> TRUE, fresh |-> TRUE, owner |-> m, status |-> "pending"]
          /\ remembered' = remembered \cup recovery /\ recovery' = {}
     ELSE UNCHANGED <<meta, remembered, recovery>>
  /\ call' = [call EXCEPT ![t].at = "validate", ![t].again =
       IF meta.exists THEN meta.owner = m /\ meta.status = "pending" ELSE m \in recovery]
  /\ UNCHANGED <<people, tree, created, snapshots, sweep, inRoom, shows, pending, budget, restored, settled>>

\* The access key, then the first test of the script that admits.
Enter(t) ==
  /\ call[t].at = "validate"
  /\ IF meta.key THEN people' = people \cup {t} /\ Now(t, "touch") ELSE Done(t) /\ UNCHANGED people
  /\ UNCHANGED <<meta, remembered, recovery, tree, created, snapshots, sweep, inRoom, shows, pending,
                 budget, restored, settled>>

\* TouchRoom writes a field of a hash, which makes the hash when it is gone.
Touch(t) ==
  /\ call[t].at \in {"touch", "touchOnly"}
  /\ meta' = [meta EXCEPT !.exists = TRUE, !.fresh = TRUE]
  /\ IF call[t].at = "touch" THEN Now(t, "save") ELSE Done(t)
  /\ UNCHANGED <<remembered, recovery, people, tree, created, snapshots, sweep, inRoom, shows, pending,
                 budget, restored, settled>>

\* SaveMember, and the tab that shows what the room has besides what it kept.
SaveMember(t) ==
  /\ call[t].at = "save" /\ Done(t)
  /\ remembered' = remembered \cup {MemberOf[t]} /\ settled' = TRUE
  /\ inRoom' = [inRoom EXCEPT ![t] = TRUE] /\ shows' = [shows EXCEPT ![t] = @ \cup tree]
  /\ pending' = IF call[t].again THEN pending \cup {t} ELSE pending
  /\ UNCHANGED <<meta, recovery, people, tree, created, snapshots, sweep, budget, restored>>

\* A new file, its snapshot, and the activity that is noted after it.
Work(t, f) ==
  /\ call[t].at = "idle" /\ inRoom[t] /\ t \in people /\ f \notin created
  /\ tree' = tree \cup {f} /\ created' = created \cup {f} /\ snapshots' = snapshots \cup {f}
  /\ shows' = [u \in Tab |-> IF inRoom[u] THEN shows[u] \cup {f} ELSE shows[u]]
  /\ Now(t, "touchOnly")
  /\ UNCHANGED <<meta, remembered, recovery, people, sweep, inRoom, pending, budget, restored, settled>>

Leave(t) ==
  /\ call[t].at = "idle" /\ (inRoom[t] \/ t \in people)
  /\ people' = people \ {t} /\ inRoom' = [inRoom EXCEPT ![t] = FALSE]
  /\ UNCHANGED <<meta, remembered, recovery, tree, created, snapshots, sweep, call, shows, pending, budget,
                 restored, settled>>
-----------------------------------------------------------------------------
(* RunCleanup *)

\* Two hours without activity; calls are shorter than that.
Expire ==
  /\ meta.fresh /\ sweep = "idle" /\ budget.expiries < MaxExpiries /\ \A t \in Tab : call[t].at = "idle"
  /\ meta' = [meta EXCEPT !.fresh = FALSE] /\ budget' = [budget EXCEPT !.expiries = @ + 1]
  /\ UNCHANGED <<remembered, recovery, people, tree, created, snapshots, sweep, call, inRoom, shows,
                 pending, restored, settled>>

\* A stale room: its tabs are told (RoomExpired) and keep what they show.
FindStale ==
  /\ sweep = "idle" /\ meta.exists /\ ~meta.fresh /\ sweep' = "stale"
  /\ CalmSweeps => \A t \in Tab : call[t].at = "idle"
  /\ inRoom' = [t \in Tab |-> FALSE] /\ pending' = pending \cup {t \in Tab : inRoom[t]}
  /\ UNCHANGED <<stored, call, shows, budget, restored, settled>>

RemovePeople ==
  /\ sweep = "stale" /\ sweep' = "removed" /\ people' = {}
  /\ UNCHANGED <<meta, remembered, recovery, tree, created, snapshots, call, inRoom, shows, pending,
                 budget, restored, settled>>

\* A mutant of Archive: the room is forgotten.
ArchiveNothing ==
  /\ sweep = "removed" /\ sweep' = "deleting"
  /\ UNCHANGED <<stored, call, inRoom, shows, pending, budget, restored, settled>>

\* ArchiveExpiredRoom: nothing without an access key or without members.
Archive ==
  /\ sweep = "removed" /\ sweep' = "deleting"
  /\ recovery' = IF meta.key /\ remembered # {} THEN remembered ELSE recovery
  /\ UNCHANGED <<meta, remembered, people, tree, created, snapshots, call, inRoom, shows, pending,
                 budget, restored, settled>>

\* DeleteRoom lists the keys of the room and deletes them, in no order.
DeleteMeta ==
  /\ sweep \in {"deleting", "restGone"} /\ meta' = NoMeta
  /\ sweep' = IF sweep = "deleting" THEN "metaGone" ELSE "idle"
  /\ UNCHANGED <<remembered, recovery, people, tree, created, snapshots, call, inRoom, shows, pending,
                 budget, restored, settled>>

DeleteRest ==
  /\ sweep \in {"deleting", "metaGone"}
  /\ remembered' = {} /\ people' = {} /\ tree' = {} /\ created' = {} /\ snapshots' = {}
  /\ sweep' = IF sweep = "deleting" THEN "restGone" ELSE "idle"
  /\ restored' = {}
  /\ UNCHANGED <<meta, recovery, call, inRoom, shows, pending, budget, settled>>

\* The server stops with every call and the sweep; its tabs reconnect.
Crash ==
  /\ budget.crashes < MaxCrashes /\ budget' = [budget EXCEPT !.crashes = @ + 1]
  /\ call' = [t \in Tab |-> NoCall] /\ sweep' = "idle" /\ people' = {}
  /\ inRoom' = [t \in Tab |-> FALSE]
  /\ UNCHANGED <<meta, remembered, recovery, tree, created, snapshots, shows, pending, restored, settled>>
-----------------------------------------------------------------------------
(* RestoreExpiredWorkspace *)

\* A mutant of Pending: an upload that runs does not keep another one out.
PendingOrRunning(t) == meta.owner = MemberOf[t] /\ meta.status \in {"pending", "running"}

\* BeginWorkspaceRestore.
Pending(t) == meta.owner = MemberOf[t] /\ meta.status = "pending"

BeginRestore(t) ==
  /\ call[t].at = "idle" /\ inRoom[t] /\ t \in people /\ t \in pending
  /\ IF Pending(t)
     THEN /\ meta' = [meta EXCEPT !.status = "running"]
          /\ call' = [call EXCEPT ![t] = [NoCall EXCEPT !.at = "save files", !.old = tree, !.todo = shows[t]]]
          /\ UNCHANGED pending
     ELSE /\ meta.owner = MemberOf[t] /\ meta.status = "complete"
          /\ pending' = pending \ {t} /\ UNCHANGED <<meta, call>>
  /\ UNCHANGED <<remembered, recovery, people, tree, created, snapshots, sweep, inRoom, shows, budget,
                 restored, settled>>

\* ImportedSnapshotValidator takes the documents it knows from imports: one
\* site, consecutive counters, each character the origin of the next, no tombstone.
Valid(files) == files \subseteq Plain

\* ImportAsync with replaceWorkspace: first the snapshots of all files.
SaveFiles(t) ==
  /\ call[t].at = "save files"
  /\ IF Valid(call[t].todo)
     THEN /\ snapshots' = snapshots \cup call[t].todo
          /\ Now(t, IF call[t].todo = {} THEN "complete" ELSE "append")
     ELSE Now(t, "cancel") /\ UNCHANGED snapshots
  /\ UNCHANGED <<meta, remembered, recovery, people, tree, created, sweep, inRoom, shows, pending, budget,
                 restored, settled>>

\* Then one operation after the other: what the room had is deleted, and the
\* files are created. The script refuses to create an identifier a second time.
AppendImport(t, f) ==
  /\ call[t].at = "append"
  /\ \/ f \in call[t].old \cap tree /\ tree' = tree \ {f} /\ UNCHANGED <<created, call>>
     \/ /\ call[t].old \cap tree = {} /\ f \in call[t].todo \ tree
        /\ IF f \in created THEN Now(t, "cancel") /\ UNCHANGED <<tree, created>>
           ELSE tree' = tree \cup {f} /\ created' = created \cup {f} /\ UNCHANGED call
  /\ UNCHANGED <<meta, remembered, recovery, people, snapshots, sweep, inRoom, shows, pending, budget,
                 restored, settled>>

\* The snapshots of what the room had go; CompleteWorkspaceRestore.
CompleteRestore(t) ==
  /\ \/ call[t].at = "complete" /\ UNCHANGED snapshots
     \/ /\ call[t].at = "append" /\ call[t].old \cap tree = {} /\ call[t].todo \subseteq tree
        /\ snapshots' = snapshots \ call[t].old
  /\ meta' = IF meta.owner = MemberOf[t] /\ meta.status = "running"
             THEN [meta EXCEPT !.status = "complete"] ELSE meta
  /\ restored' = call[t].todo /\ pending' = pending \ {t} /\ Done(t)
  /\ UNCHANGED <<remembered, recovery, people, tree, created, sweep, inRoom, shows, budget, settled>>

\* An exception anywhere in the import ends in CancelWorkspaceRestore.
Fail(t) ==
  /\ call[t].at \in {"save files", "append", "complete"} /\ budget.failures < MaxFailures
  /\ budget' = [budget EXCEPT !.failures = @ + 1] /\ Now(t, "cancel")
  /\ UNCHANGED <<stored, sweep, inRoom, shows, pending, restored, settled>>

CancelRestore(t) ==
  /\ call[t].at = "cancel" /\ Done(t)
  /\ meta' = IF meta.owner = MemberOf[t] /\ meta.status = "running"
             THEN [meta EXCEPT !.status = "pending"] ELSE meta
  /\ UNCHANGED <<remembered, recovery, people, tree, created, snapshots, sweep, inRoom, shows, pending,
                 budget, restored, settled>>
-----------------------------------------------------------------------------
Next ==
  \/ \E t \in Tab :
       \/ RestoreRoom(t) \/ Enter(t) \/ Touch(t) \/ SaveMember(t) \/ Leave(t)
       \/ BeginRestore(t) \/ SaveFiles(t) \/ CompleteRestore(t) \/ Fail(t) \/ CancelRestore(t)
       \/ \E f \in File : Work(t, f) \/ AppendImport(t, f)
  \/ Expire \/ FindStale \/ RemovePeople \/ Archive \/ DeleteMeta \/ DeleteRest \/ Crash

Spec == Init /\ [][Next]_vars
-----------------------------------------------------------------------------
(* Properties *)

\* A room that remembered somebody can be entered with its key or made again
\* from its recovery record, wherever a sweep or the server stops.
MembersCanReturn == settled => (meta.exists /\ meta.key) \/ recovery # {}

\* A workspace marked as restored has every file of the tab that restored it,
\* with its text, whatever tabs of the same member, failures, crashes and
\* retries did before.
CompleteMeansRestored == meta.status = "complete" => restored \subseteq tree \cap snapshots
=============================================================================
