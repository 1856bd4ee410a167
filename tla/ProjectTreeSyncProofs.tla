------------------------ MODULE ProjectTreeSyncProofs ------------------------
(***************************************************************************)
(* What holds of ProjectTreeSync for every number of tabs, entries, names, *)
(* changes and broken connections.                                         *)
(***************************************************************************)
EXTENDS ProjectTreeSync, ProjectTreeProofs, SequenceTheorems

-----------------------------------------------------------------------------
(* Sequences as sets.                                                      *)

LEMMA ToSetType ==
  ASSUME NEW X, NEW s \in Seq(X)
  PROVE  /\ ToSet(s) \subseteq X
         /\ IsFiniteSet(ToSet(s))
<1>1. DOMAIN s = 1..Len(s) /\ Len(s) \in Nat
  OBVIOUS
<1>2. IsFiniteSet(1..Len(s))
  BY <1>1, FS_Interval
<1>3. IsFiniteSet({s[i] : i \in 1..Len(s)})
  BY <1>2, FiniteImage
<1>4. \A i \in 1..Len(s) : s[i] \in X
  OBVIOUS
<1>5. QED
  BY <1>1, <1>3, <1>4 DEF ToSet

LEMMA ToSetAppend ==
  ASSUME NEW X, NEW s \in Seq(X), NEW x \in X
  PROVE  ToSet(Append(s, x)) = ToSet(s) \cup {x}
<1> DEFINE t == Append(s, x)
<1>1. /\ DOMAIN t = 1..(Len(s) + 1) /\ DOMAIN s = 1..Len(s) /\ Len(s) \in Nat
      /\ \A i \in 1..Len(s) : t[i] = s[i]
      /\ t[Len(s) + 1] = x
  OBVIOUS
<1> HIDE DEF t
<1>2. 1..(Len(s) + 1) = (1..Len(s)) \cup {Len(s) + 1}
  BY <1>1
<1>3. ToSet(t) = ToSet(s) \cup {x}
  BY <1>1, <1>2 DEF ToSet
<1>4. QED
  BY <1>3 DEF t

LEMMA AppendKeepsHead ==
  ASSUME NEW X, NEW s \in Seq(X), s # <<>>, NEW x \in X
  PROVE  Append(s, x) # <<>> /\ Head(Append(s, x)) = Head(s)
OBVIOUS

LEMMA ToSetTail ==
  ASSUME NEW X, NEW s \in Seq(X), s # <<>>
  PROVE  /\ Head(s) \in ToSet(s) /\ Head(s) \in X
         /\ Tail(s) \in Seq(X)
         /\ ToSet(s) = ToSet(Tail(s)) \cup {Head(s)}
<1> DEFINE t == Tail(s)
<1>1. /\ DOMAIN t = 1..(Len(s) - 1) /\ DOMAIN s = 1..Len(s) /\ Len(s) \in Nat \ {0}
      /\ \A i \in 1..(Len(s) - 1) : t[i] = s[i + 1]
      /\ Head(s) = s[1] /\ s[1] \in X /\ t \in Seq(X)
  OBVIOUS
<1> HIDE DEF t
<1>2. \A i \in 1..Len(s) : i = 1 \/ (i - 1 \in 1..(Len(s) - 1) /\ s[i] = t[i - 1])
  BY <1>1
<1>3. \A i \in 1..(Len(s) - 1) : i + 1 \in 1..Len(s)
  BY <1>1
<1>4. 1 \in 1..Len(s)
  BY <1>1
<1>5. ToSet(t) \cup {Head(s)} \subseteq ToSet(s)
  BY <1>1, <1>3, <1>4 DEF ToSet
<1>6. ToSet(s) \subseteq ToSet(t) \cup {Head(s)}
  BY <1>1, <1>2 DEF ToSet
<1>7. QED
  BY <1>1, <1>4, <1>5, <1>6 DEF t, ToSet

-----------------------------------------------------------------------------
(* What the operators of the tree return.                                  *)

LEMMA ClockType ==
  ASSUME NEW ops \in SUBSET ProjectTreeOperation, IsFiniteSet(ops)
  PROVE  Clock(ops) \in Nat /\ \A o \in ops : o.id.counter <= Clock(ops)
<1> DEFINE counters == {o.id.counter : o \in ops}
           counter == [o \in ops |-> o.id.counter]
<1>1. counters \subseteq Nat
  BY OperationType DEF OpId
<1>2. IsFiniteSet(counters)
  <2>1. counters = {counter[o] : o \in ops}
    OBVIOUS
  <2> HIDE DEF counter
  <2>2. IsFiniteSet({counter[o] : o \in ops})
    BY FiniteImage
  <2>3. QED
    BY <2>1, <2>2
<1>3. IsFiniteSet(counters \cup {0})
  BY <1>2, FS_AddElement
<1>4. QED
  <2> HIDE DEF counters
  <2>1. counters \cup {0} \in SUBSET Nat /\ counters \cup {0} # {}
    BY <1>1
  <2>2. Max(counters \cup {0}) \in Nat /\ \A n \in counters : n <= Max(counters \cup {0})
    BY <1>3, <2>1, FiniteMax
  <2>3. QED
    BY <2>2 DEF Clock, counters

LEMMA MaxOfTwo ==
  ASSUME NEW a \in Nat, NEW b \in Nat
  PROVE  Max({a, b}) \in Nat /\ a <= Max({a, b}) /\ b <= Max({a, b})
<1> DEFINE S == {a, b}
<1>1. S \in SUBSET Nat /\ S # {} /\ a \in S /\ b \in S
  OBVIOUS
<1>2. IsFiniteSet(S)
  <2>1. S = {a} \cup {b}
    OBVIOUS
  <2>2. IsFiniteSet({a})
    BY FS_Singleton
  <2>3. QED
    BY <2>1, <2>2, FS_AddElement
<1> HIDE DEF S
<1>3. Max(S) \in Nat /\ a <= Max(S) /\ b <= Max(S)
  BY <1>1, <1>2, FiniteMax
<1>4. QED
  BY <1>3 DEF S

\* The entries a tab shows.
LEMMA ShownType ==
  ASSUME NEW ops \in SUBSET ProjectTreeOperation
  PROVE  DOMAIN getEntries(ops) \subseteq Entry
BY DEF getEntries, Attached, Visible, Parents, Listed, Created

\* The entries the server lists.
LEMMA ListedType ==
  ASSUME NEW ops \in SUBSET ProjectTreeOperation, IsFiniteSet(ops)
  PROVE  GetEntries(ops) \in Entries /\ IsFiniteSet(DOMAIN GetEntries(ops))
<1>1. Remaining(ops) \subseteq Created(ops)
  BY DEF Remaining, Parents, Listed
<1>2. ASSUME NEW e \in Created(ops), NEW kinds \in {{"create", "rename"}, {"create", "move"}}
      PROVE  Latest(Writes(ops, e, kinds)) \in Writes(ops, e, kinds)
  <2>1. Writes(ops, e, kinds) # {}
    BY <1>2 DEF Created, Writes
  <2>2. Writes(ops, e, kinds) \subseteq ops
    BY DEF Writes
  <2>3. QED
    BY <2>1, <2>2, FS_Subset, LatestExists
<1>3. \A e \in Created(ops) : NameOp(ops, e).name \in Name
  <2> TAKE e \in Created(ops)
  <2>1. NameOp(ops, e) \in Writes(ops, e, {"create", "rename"})
    BY <1>2 DEF NameOp
  <2>2. QED
    BY <2>1, OperationType DEF Writes
<1>4. \A e \in Created(ops) : ParentOp(ops, e).parent \in Parent
  <2> TAKE e \in Created(ops)
  <2>1. ParentOp(ops, e) \in Writes(ops, e, {"create", "move"})
    BY <1>2 DEF ParentOp
  <2>2. QED
    BY <2>1, OperationType DEF Writes
<1>5. Created(ops) \subseteq Entry
  BY DEF Created
<1>6. IsFiniteSet(Created(ops))
  <2> DEFINE entry == [o \in ops |-> o.entry]
  <2>1. Created(ops) \subseteq {entry[o] : o \in ops}
    BY DEF Created, Writes
  <2> HIDE DEF entry
  <2>2. IsFiniteSet({entry[o] : o \in ops})
    BY FiniteImage
  <2>3. QED
    BY <2>1, <2>2, FS_Subset
<1>7. GetEntries(ops) \in [Remaining(ops) -> [name : Name, parent : Parent]]
  BY <1>1, <1>3, <1>4 DEF GetEntries
<1>8. Remaining(ops) \in SUBSET Entry
  BY <1>1, <1>5
<1>9. QED
  BY <1>1, <1>6, <1>7, <1>8, FS_Subset DEF Entries

\* The seeds made of them.
LEMMA SeedsType ==
  ASSUME NEW files \in Entries, IsFiniteSet(DOMAIN files)
  PROVE  fromEntries(files) \subseteq ProjectTreeOperation /\ IsFiniteSet(fromEntries(files))
<1> DEFINE rank(e) == {d \in DOMAIN files : d <= e}
           seed(e) ==
             [kind |-> "create", id |-> [counter |-> Cardinality(rank(e)), site |-> SeedSite],
              entry |-> e, name |-> files[e].name, parent |-> files[e].parent]
<1>1. PICK D \in SUBSET Entry : files \in [D -> [name : Name, parent : Parent]]
  BY DEF Entries
<1>2. \A e \in DOMAIN files :
        e \in Entry /\ files[e].name \in Name /\ files[e].parent \in Parent
  BY <1>1
<1>3. ASSUME NEW e \in DOMAIN files PROVE Cardinality(rank(e)) \in Nat \ {0}
  <2>1. rank(e) \subseteq DOMAIN files
    OBVIOUS
  <2>2. e \in rank(e)
    <3>1. e \in Nat
      BY <1>2, ProjectTreeAssumption
    <3>2. e <= e
      BY <3>1
    <3>3. QED
      BY <3>2
  <2> HIDE DEF rank
  <2>3. IsFiniteSet(rank(e)) /\ rank(e) # {}
    BY <2>1, <2>2, FS_Subset
  <2>4. QED
    BY <2>3, FS_CardinalityType, FS_EmptySet
<1>4. \A e \in DOMAIN files : seed(e) \in ProjectTreeOperation
  <2> HIDE DEF rank
  <2>1. QED
    BY <1>2, <1>3 DEF ProjectTreeOperation, OpId
<1>5. IsFiniteSet({seed(e) : e \in DOMAIN files})
  <2> DEFINE seeds == [e \in DOMAIN files |-> seed(e)]
  <2> HIDE DEF seed
  <2>1. {seed(e) : e \in DOMAIN files} = {seeds[e] : e \in DOMAIN files}
    OBVIOUS
  <2> HIDE DEF seeds
  <2>2. IsFiniteSet({seeds[e] : e \in DOMAIN files})
    BY FiniteImage
  <2>3. QED
    BY <2>1, <2>2
<1>6. fromEntries(files) = {seed(e) : e \in DOMAIN files}
  BY DEF fromEntries
<1>7. QED
  BY <1>4, <1>5, <1>6

\* The tree of a tab after a JoinRoom.
LEMMA RoomType ==
  ASSUME NEW ops \in SUBSET ProjectTreeOperation, IsFiniteSet(ops),
         NEW files \in Entries, IsFiniteSet(DOMAIN files),
         NEW snapshot \in SUBSET ProjectTreeOperation, IsFiniteSet(snapshot),
         NEW history \in Seq(ProjectTreeOperation),
         NEW loaded, loaded = WithSnapshot(Reseeded(ops, files), snapshot)
  PROVE  /\ WithHistory(loaded, history) \subseteq ProjectTreeOperation
         /\ IsFiniteSet(WithHistory(loaded, history))
<1>1. Compact(ops) \subseteq ops
  BY DEF Compact
<1>2. IsFiniteSet(Compact(ops))
  BY <1>1, FS_Subset
<1>3. Reseeded(ops, files) \subseteq ProjectTreeOperation /\ IsFiniteSet(Reseeded(ops, files))
  BY <1>1, <1>2, SeedsType, FS_Union DEF Reseeded
<1>4. loaded \subseteq ProjectTreeOperation /\ IsFiniteSet(loaded)
  BY <1>3, FS_Union DEF WithSnapshot
<1> DEFINE more == {history[i] : i \in {k \in DOMAIN history :
                                        \A j \in 1..k : ~Conflict(loaded, {history[j]})}}
<1>5. more \subseteq ToSet(history)
  BY DEF ToSet
<1>6. more \subseteq ProjectTreeOperation /\ IsFiniteSet(more)
  BY <1>5, ToSetType, FS_Subset
<1>7. WithHistory(loaded, history) = loaded \cup more
  BY DEF WithHistory
<1> HIDE DEF more
<1>8. QED
  BY <1>4, <1>6, <1>7, FS_Union

-----------------------------------------------------------------------------
(* Types.  Trees and snapshots stay finite, so registers have values.      *)

\* A message can be handled.
Handleable(m) ==
  /\ m \in Message
  /\ m.kind = "room" => IsFiniteSet(m.snapshot) /\ IsFiniteSet(DOMAIN m.files)

BrowserType ==
  /\ tree \in [Site -> SUBSET ProjectTreeOperation]
  /\ \A c \in Site : IsFiniteSet(tree[c])
  /\ clock \in [Site -> Nat]
  /\ outbox \in [Site -> Seq(ProjectTreeOperation)]
  /\ flushing \in [Site -> BOOLEAN] /\ resync \in [Site -> BOOLEAN]
  /\ link \in [Site -> Link]

WireType ==
  /\ uplink \in [Site -> SUBSET ProjectTreeOperation]
  /\ inbox \in [Site -> SUBSET Message]
  /\ \A c \in Site : \A m \in inbox[c] : Handleable(m)
  /\ serving \subseteq Call

ServerType ==
  /\ log \in Seq(ProjectTreeOperation)
  /\ saved \subseteq ProjectTreeOperation /\ IsFiniteSet(saved)
  /\ changes \in Nat /\ breaks \in Nat

\* The calls of c whose result will be sent, and the results on their way.
Served(c) == {call \in serving : call.client = c /\ call.live}
Answers(box) == {m \in box : m.kind = "answer"}

\* At most one operation of c is under way, at one place, and it is the first
\* of the outbox (treeFlushPromise).
Flight(c) ==
  /\ flushing[c] => Connected(c) /\ outbox[c] # <<>>
  /\ ~flushing[c] => uplink[c] = {} /\ Served(c) = {} /\ Answers(inbox[c]) = {}
  /\ uplink[c] # {} => uplink[c] = {Head(outbox[c])} /\ Served(c) = {} /\ Answers(inbox[c]) = {}
  /\ Served(c) # {} => Answers(inbox[c]) = {}
  /\ \A x \in Served(c) : x.op = Head(outbox[c])
  /\ \A x, y \in Served(c) : x = y
  /\ \A x, y \in Answers(inbox[c]) : x = y

TypeInv ==
  BrowserType /\ WireType /\ ServerType /\ \A c \in Site : Flight(c)

LEMMA MessageType ==
  /\ \A ok \in BOOLEAN : Handleable([kind |-> "answer", ok |-> ok])
  /\ \A op \in ProjectTreeOperation : Handleable([kind |-> "op", op |-> op])
  /\ \A ops \in SUBSET ProjectTreeOperation, h \in Seq(ProjectTreeOperation) :
       IsFiniteSet(ops) =>
         Handleable([kind |-> "room", files |-> GetEntries(ops), snapshot |-> ops, history |-> h])
  /\ \A m \in Message :
       /\ m.kind = "op" => m.op \in ProjectTreeOperation
       /\ m.kind = "answer" => m.ok \in BOOLEAN
       /\ m.kind = "room" => /\ m.files \in Entries
                             /\ m.snapshot \in SUBSET ProjectTreeOperation
                             /\ m.history \in Seq(ProjectTreeOperation)
<1>1. \A ok \in BOOLEAN : Handleable([kind |-> "answer", ok |-> ok])
  BY DEF Handleable, Message
<1>2. \A op \in ProjectTreeOperation : Handleable([kind |-> "op", op |-> op])
  BY DEF Handleable, Message
<1>3. ASSUME NEW ops \in SUBSET ProjectTreeOperation, NEW h \in Seq(ProjectTreeOperation),
             IsFiniteSet(ops)
      PROVE  Handleable([kind |-> "room", files |-> GetEntries(ops), snapshot |-> ops,
                         history |-> h])
  <2>1. GetEntries(ops) \in Entries /\ IsFiniteSet(DOMAIN GetEntries(ops))
    BY <1>3, ListedType
  <2>2. QED
    BY <1>3, <2>1 DEF Handleable, Message
<1>4. ASSUME NEW m \in Message
      PROVE  /\ m.kind = "op" => m.op \in ProjectTreeOperation
             /\ m.kind = "answer" => m.ok \in BOOLEAN
             /\ m.kind = "room" => /\ m.files \in Entries
                                   /\ m.snapshot \in SUBSET ProjectTreeOperation
                                   /\ m.history \in Seq(ProjectTreeOperation)
  BY DEF Message
<1>5. QED
  BY <1>1, <1>2, <1>3, <1>4

LEMMA TypeInit == Init => TypeInv
<1> SUFFICES ASSUME Init PROVE TypeInv
  OBVIOUS
<1>1. Start \in Seq(ProjectTreeOperation) /\ ToSet(Start) \subseteq ProjectTreeOperation
      /\ IsFiniteSet(ToSet(Start))
  BY SyncAssumption, ToSetType
<1>2. IsFiniteSet({})
  BY FS_EmptySet
<1>3. /\ Clock(ToSet(Start)) \in Nat /\ Clock({}) \in Nat
  BY <1>1, <1>2, ClockType
<1>4. BrowserType
  BY <1>1, <1>2, <1>3 DEF Init, BrowserType, Link
<1>5. WireType
  BY DEF Init, WireType
<1>6. ServerType
  <2>1. Compact(ToSet(Start)) \subseteq ToSet(Start)
    BY DEF Compact
  <2>2. IsFiniteSet(Compact(ToSet(Start)))
    BY <1>1, <2>1, FS_Subset
  <2>3. QED
    BY <1>1, <2>1, <2>2 DEF Init, ServerType
<1>7. ASSUME NEW c \in Site PROVE Flight(c)
  BY DEF Init, Flight, Served, Answers
<1>8. QED
  BY <1>4, <1>5, <1>6, <1>7 DEF TypeInv

-----------------------------------------------------------------------------
(* Each step keeps the types.                                              *)

LEMMA FlushType ==
  ASSUME BrowserType, WireType, NEW c \in Site, NEW pending \in Seq(ProjectTreeOperation),
         Flush(c, pending)
  PROVE  /\ uplink' \in [Site -> SUBSET ProjectTreeOperation]
         /\ flushing' \in [Site -> BOOLEAN]
         /\ \A d \in Site \ {c} : uplink'[d] = uplink[d] /\ flushing'[d] = flushing[d]
         /\ IF Connected(c) /\ ~flushing[c] /\ pending # <<>>
            THEN uplink'[c] = {Head(pending)} /\ flushing'[c]
            ELSE uplink'[c] = uplink[c] /\ flushing'[c] = flushing[c]
<1>1. CASE Connected(c) /\ ~flushing[c] /\ pending # <<>>
  <2>1. Head(pending) \in ProjectTreeOperation
    BY <1>1
  <2>2. /\ uplink' = [uplink EXCEPT ![c] = {Head(pending)}]
        /\ flushing' = [flushing EXCEPT ![c] = TRUE]
    BY <1>1 DEF Flush
  <2>3. /\ uplink \in [Site -> SUBSET ProjectTreeOperation]
        /\ flushing \in [Site -> BOOLEAN]
    BY DEF BrowserType, WireType
  <2>4. QED
    BY <1>1, <2>1, <2>2, <2>3
<1>2. CASE ~(Connected(c) /\ ~flushing[c] /\ pending # <<>>)
  BY <1>2 DEF Flush, BrowserType, WireType
<1>3. QED
  BY <1>1, <1>2

\* What the file explorer offers is a new operation of the tab.
LEMMA OfferedType ==
  ASSUME BrowserType, NEW c \in Site, NEW op \in Offered(c)
  PROVE  /\ op \in ProjectTreeOperation
         /\ op.id = [counter |-> clock[c] + 1, site |-> c]
<1> DEFINE id == [counter |-> clock[c] + 1, site |-> c]
           shown == getEntries(tree[c])
<1>1. DOMAIN shown \subseteq Entry
  BY ShownType DEF BrowserType
<1>2. id \in OpId
  BY DEF BrowserType, OpId
<1>3. \/ op \in [kind : {"create"}, id : {id}, entry : Entry, name : Name, parent : Parent]
      \/ op \in [kind : {"move"}, id : {id}, entry : DOMAIN shown, parent : Parent]
      \/ op \in [kind : {"rename"}, id : {id}, entry : DOMAIN shown, name : Name]
      \/ op \in [kind : {"delete"}, id : {id}, entry : DOMAIN shown]
  BY DEF Offered, Creation, Movement
<1> HIDE DEF id, shown
<1>4. op \in ProjectTreeOperation /\ op.id = id
  BY <1>1, <1>2, <1>3 DEF ProjectTreeOperation
<1>5. QED
  BY <1>4 DEF id

LEMMA ChangeTreeType ==
  ASSUME TypeInv, NEW c \in Site, ChangeTree(c)
  PROVE  TypeInv'
<1> USE DEF TypeInv
<1>1. PICK op, pending :
        /\ op \in Offered(c)
        /\ pending = IF \E o \in ToSet(outbox[c]) : o.id = op.id
                     THEN outbox[c] ELSE Append(outbox[c], op)
        /\ tree' = [tree EXCEPT ![c] = @ \cup {op}]
        /\ clock' = [clock EXCEPT ![c] = op.id.counter]
        /\ outbox' = [outbox EXCEPT ![c] = pending]
        /\ Flush(c, pending)
  BY DEF ChangeTree
<1>2. UNCHANGED <<resync, link, inbox, serving, log, saved, breaks>> /\ changes' = changes + 1
  BY DEF ChangeTree, server
<1>3. op \in ProjectTreeOperation /\ op.id.counter \in Nat
  <2>1. op \in Offered(c)
    BY <1>1
  <2>2. op \in ProjectTreeOperation
    BY <2>1, OfferedType
  <2>3. QED
    BY <2>2, OperationType DEF OpId
<1>4. pending \in Seq(ProjectTreeOperation)
  BY <1>1, <1>3 DEF BrowserType
<1>5. outbox[c] # <<>> => pending # <<>> /\ Head(pending) = Head(outbox[c])
  <2>1. outbox[c] \in Seq(ProjectTreeOperation)
    BY DEF BrowserType
  <2>2. QED
    BY <1>1, <1>3, <2>1, AppendKeepsHead
<1>6. /\ uplink' \in [Site -> SUBSET ProjectTreeOperation]
      /\ flushing' \in [Site -> BOOLEAN]
      /\ \A d \in Site \ {c} : uplink'[d] = uplink[d] /\ flushing'[d] = flushing[d]
      /\ IF Connected(c) /\ ~flushing[c] /\ pending # <<>>
         THEN uplink'[c] = {Head(pending)} /\ flushing'[c]
         ELSE uplink'[c] = uplink[c] /\ flushing'[c] = flushing[c]
  BY <1>1, <1>4, FlushType
<1>7. BrowserType'
  <2>1. IsFiniteSet(tree[c] \cup {op})
    BY FS_AddElement DEF BrowserType
  <2>2. QED
    BY <1>1, <1>2, <1>3, <1>4, <1>6, <2>1 DEF BrowserType
<1>8. WireType'
  BY <1>2, <1>6 DEF WireType
<1>9. ServerType'
  BY <1>2 DEF ServerType
<1>10. ASSUME NEW d \in Site PROVE Flight(d)'
  <2>1. Served(d)' = Served(d) /\ inbox'[d] = inbox[d] /\ (Connected(d)' <=> Connected(d))
    BY <1>2 DEF Served, Connected
  <2>2. Flight(d)
    OBVIOUS
  <2>3. CASE d # c
    <3>1. outbox'[d] = outbox[d] /\ uplink'[d] = uplink[d] /\ flushing'[d] = flushing[d]
      BY <1>1, <1>6, <2>3 DEF BrowserType
    <3>2. QED
      BY <2>1, <2>2, <3>1 DEF Flight
  <2>4. CASE d = c
    <3>1. outbox'[c] = pending
      BY <1>1 DEF BrowserType
    <3>2. CASE Connected(c) /\ ~flushing[c] /\ pending # <<>>
      BY <1>6, <2>1, <2>2, <2>4, <3>1, <3>2 DEF Flight
    <3>3. CASE ~(Connected(c) /\ ~flushing[c] /\ pending # <<>>)
      BY <1>5, <1>6, <2>1, <2>2, <2>4, <3>1, <3>3 DEF Flight
    <3>4. QED
      BY <3>2, <3>3
  <2>5. QED
    BY <2>3, <2>4
<1>11. QED
  BY <1>7, <1>8, <1>9, <1>10

\* What a step leaves alone.
LEMMA FlightFrame ==
  ASSUME NEW d \in Site, Flight(d), flushing'[d] = flushing[d], outbox'[d] = outbox[d],
         uplink'[d] = uplink[d], Connected(d)' <=> Connected(d),
         Served(d)' = Served(d), Answers(inbox'[d]) = Answers(inbox[d])
  PROVE  Flight(d)'
BY DEF Flight

\* Another answer for c.
With(c, m) == [inbox EXCEPT ![c] = @ \cup {m}]

LEMMA WithType ==
  ASSUME WireType, NEW c \in Site, NEW m \in [kind : {"answer"}, ok : BOOLEAN]
  PROVE  /\ With(c, m) \in [Site -> SUBSET Message]
         /\ \A d \in Site : \A n \in With(c, m)[d] : Handleable(n)
         /\ \A d \in Site \ {c} : With(c, m)[d] = inbox[d]
         /\ With(c, m)[c] = inbox[c] \cup {m}
         /\ Answers(inbox[c]) = {} => Answers(With(c, m)[c]) = {m}
<1> DEFINE box == With(c, m)
<1>1. Handleable(m) /\ m \in Message /\ m.kind = "answer"
  BY DEF Handleable, Message
<1>2. inbox \in [Site -> SUBSET Message] /\ \A d \in Site : \A n \in inbox[d] : Handleable(n)
  BY DEF WireType
<1>3. box = [inbox EXCEPT ![c] = @ \cup {m}]
  BY DEF With
<1> HIDE DEF box
<1>4. /\ box \in [Site -> SUBSET Message]
      /\ \A d \in Site \ {c} : box[d] = inbox[d]
      /\ box[c] = inbox[c] \cup {m}
  BY <1>1, <1>2, <1>3
<1>5. \A d \in Site : \A n \in box[d] : Handleable(n)
  BY <1>1, <1>2, <1>4
<1>6. Answers(inbox[c]) = {} => Answers(box[c]) = {m}
  BY <1>1, <1>4 DEF Answers
<1>7. QED
  BY <1>4, <1>5, <1>6 DEF box

\* A relayed operation is no answer.
LEMMA RelayType ==
  ASSUME NEW to \in [Site -> SUBSET Message], \A d \in Site : \A m \in to[d] : Handleable(m),
         NEW c \in Site, NEW op \in ProjectTreeOperation
  PROVE  /\ Relay(to, c, op) \in [Site -> SUBSET Message]
         /\ \A d \in Site : \A m \in Relay(to, c, op)[d] : Handleable(m)
         /\ \A d \in Site : Answers(Relay(to, c, op)[d]) = Answers(to[d])
<1> DEFINE message == [kind |-> "op", op |-> op]
           box == Relay(to, c, op)
           got(d) == IF d # c /\ link[d] = "joined" THEN to[d] \cup {message} ELSE to[d]
<1>1. Handleable(message) /\ message \in Message /\ message.kind # "answer"
  BY MessageType DEF Handleable
<1>2. box = [d \in Site |-> got(d)]
  BY DEF Relay
<1> HIDE DEF message, box
<1>3. ASSUME NEW d \in Site
      PROVE  /\ got(d) \in SUBSET Message
             /\ \A m \in got(d) : Handleable(m)
             /\ Answers(got(d)) = Answers(to[d])
  BY <1>1 DEF Answers
<1> HIDE DEF got
<1>4. /\ box \in [Site -> SUBSET Message]
      /\ \A d \in Site : box[d] = got(d)
  BY <1>2, <1>3
<1>5. QED
  BY <1>3, <1>4 DEF box

\* A live call is the only thing of its tab under way, and gone with its answer.
LEMMA CallServed ==
  ASSUME TypeInv, NEW call \in serving, call.live, call.client \in Site,
         serving' = serving \ {call}
  PROVE  /\ flushing[call.client] /\ uplink[call.client] = {}
         /\ Answers(inbox[call.client]) = {}
         /\ call.op = Head(outbox[call.client])
         /\ Served(call.client)' = {}
<1>1. call \in Served(call.client)
  BY DEF Served
<1>2. Flight(call.client)
  BY DEF TypeInv
<1>3. Served(call.client) = {call}
  BY <1>1, <1>2 DEF Flight
<1>4. Served(call.client)' = {}
  BY <1>3 DEF Served
<1>5. QED
  BY <1>1, <1>2, <1>4 DEF Flight

LEMMA ReceiveCallType ==
  ASSUME TypeInv, NEW c \in Site, ReceiveCall(c)
  PROVE  TypeInv'
<1> USE DEF TypeInv
<1>1. PICK op \in uplink[c] :
        LET same == {o \in ToSet(log) : o.id = op.id}
        IN  IF same = {}
            THEN /\ serving' = serving \cup
                      {[client |-> c, op |-> op, valid |-> FALSE, live |-> TRUE]}
                 /\ UNCHANGED inbox
            ELSE /\ inbox' = Answer(inbox, c, TRUE, op \in same)
                 /\ UNCHANGED serving
  BY DEF ReceiveCall
<1>2. UNCHANGED <<tree, clock, outbox, flushing, resync, link, log, saved, changes, breaks>>
  BY DEF ReceiveCall, browser, server
<1>3. uplink' = [uplink EXCEPT ![c] = {}] /\ uplink'[c] = {}
      /\ \A d \in Site \ {c} : uplink'[d] = uplink[d]
  BY DEF ReceiveCall, WireType
<1>4. /\ op \in ProjectTreeOperation /\ op = Head(outbox[c])
      /\ Served(c) = {} /\ Answers(inbox[c]) = {} /\ flushing[c]
  BY DEF WireType, Flight
<1>5. BrowserType' /\ ServerType'
  BY <1>2 DEF BrowserType, ServerType
<1>6. Connected(c) /\ outbox[c] # <<>> /\ \A d \in Site : Connected(d)' <=> Connected(d)
  BY <1>2, <1>4 DEF Flight, Connected
<1>7. CASE UNCHANGED inbox /\ serving' = serving \cup
             {[client |-> c, op |-> op, valid |-> FALSE, live |-> TRUE]}
  <2> DEFINE call == [client |-> c, op |-> op, valid |-> FALSE, live |-> TRUE]
  <2>1. call \in Call /\ call.client = c /\ call.live /\ call.op = op
    BY <1>4 DEF Call
  <2> HIDE DEF call
  <2>2. serving' = serving \cup {call}
    BY <1>7 DEF call
  <2>3. WireType'
    BY <1>3, <1>7, <2>1, <2>2 DEF WireType
  <2>4. Served(c)' = {call}
    BY <1>4, <2>1, <2>2 DEF Served
  <2>5. \A d \in Site \ {c} : Served(d)' = Served(d)
    BY <2>1, <2>2 DEF Served
  <2>6. ASSUME NEW d \in Site PROVE Flight(d)'
    <3>1. CASE d = c
      BY <1>2, <1>3, <1>4, <1>6, <1>7, <2>1, <2>4, <3>1 DEF Flight
    <3>2. CASE d # c
      BY <1>2, <1>3, <1>6, <1>7, <2>5, <3>2, FlightFrame
    <3>3. QED
      BY <3>1, <3>2
  <2>7. QED
    BY <1>5, <2>3, <2>6
<1>8. ASSUME NEW m \in [kind : {"answer"}, ok : BOOLEAN], inbox' = With(c, m), UNCHANGED serving
      PROVE  TypeInv'
  <2>1. /\ inbox' \in [Site -> SUBSET Message]
        /\ \A d \in Site : \A n \in inbox'[d] : Handleable(n)
        /\ \A d \in Site \ {c} : inbox'[d] = inbox[d]
        /\ Answers(inbox'[c]) = {m}
    <3> DEFINE box == With(c, m)
    <3>1. /\ box \in [Site -> SUBSET Message]
          /\ \A d \in Site : \A n \in box[d] : Handleable(n)
          /\ \A d \in Site \ {c} : box[d] = inbox[d]
          /\ Answers(box[c]) = {m}
      BY <1>4, WithType
    <3>2. inbox' = box
      BY <1>8
    <3> HIDE DEF box
    <3>3. QED
      BY <3>1, <3>2
  <2>2. WireType'
    BY <1>3, <1>8, <2>1 DEF WireType
  <2>3. \A d \in Site : Served(d)' = Served(d)
    BY <1>8 DEF Served
  <2>4. ASSUME NEW d \in Site PROVE Flight(d)'
    <3>1. CASE d = c
      BY <1>2, <1>3, <1>4, <1>6, <2>1, <2>3, <3>1 DEF Flight
    <3>2. CASE d # c
      BY <1>2, <1>3, <1>6, <2>1, <2>3, <3>2, FlightFrame
    <3>3. QED
      BY <3>1, <3>2
  <2>5. QED
    BY <1>5, <2>2, <2>4
<1>9. CASE {o \in ToSet(log) : o.id = op.id} = {}
  BY <1>1, <1>7, <1>9
<1>10. CASE {o \in ToSet(log) : o.id = op.id} # {}
  <2> DEFINE known == op \in {o \in ToSet(log) : o.id = op.id}
             m == [kind |-> "answer", ok |-> known]
  <2>1. inbox' = Answer(inbox, c, TRUE, known) /\ UNCHANGED serving
    BY <1>1, <1>10
  <2> HIDE DEF known
  <2>2. m \in [kind : {"answer"}, ok : BOOLEAN]
    BY DEF known
  <2>3. inbox' = With(c, m)
    BY <2>1 DEF Answer, With
  <2> HIDE DEF m
  <2>4. QED
    BY <1>8, <2>1, <2>2, <2>3
<1>11. QED
  BY <1>9, <1>10

\* A call ends with an answer or, when its connection is gone, without.
LEMMA CallEnds ==
  ASSUME TypeInv, NEW call \in serving, serving' = serving \ {call},
         NEW m \in [kind : {"answer"}, ok : BOOLEAN],
         NEW box, box = IF call.live THEN With(call.client, m) ELSE inbox,
         \A d \in Site : Answers(inbox'[d]) = Answers(box[d]),
         UNCHANGED <<outbox, flushing, link, uplink>>
  PROVE  \A d \in Site : Flight(d)'
<1> DEFINE c == call.client
<1>1. c \in Site /\ WireType
  BY DEF TypeInv, WireType, Call
<1>2. SUFFICES ASSUME NEW d \in Site PROVE Flight(d)'
  OBVIOUS
<1>3. Flight(d) /\ (Connected(d)' <=> Connected(d))
  BY DEF TypeInv, Connected
<1>4. CASE d = c /\ call.live
  <2>1. Served(c) = {call} /\ Answers(inbox[c]) = {}
    BY <1>1, <1>3, <1>4 DEF Served, Flight
  <2>2. Served(c)' = {}
    BY <2>1 DEF Served
  <2>3. Answers(With(c, m)[c]) = {m}
    BY <1>1, <2>1, WithType
  <2>4. Answers(inbox'[c]) = {m}
    BY <1>1, <1>4, <2>3
  <2>5. QED
    BY <1>3, <1>4, <2>1, <2>2, <2>4 DEF Flight
<1>5. CASE ~(d = c /\ call.live)
  <2>1. Served(d)' = Served(d)
    BY <1>5 DEF Served
  <2>2. box[d] = inbox[d]
    BY <1>1, <1>5, WithType
  <2>3. QED
    BY <1>3, <2>1, <2>2, FlightFrame
<1>6. QED
  BY <1>4, <1>5

LEMMA ValidateCallType ==
  ASSUME TypeInv, NEW call \in serving, ValidateCall(call)
  PROVE  TypeInv'
<1> USE DEF TypeInv
<1> DEFINE c == call.client
<1>1. call \in Call /\ c \in Site /\ call.live \in BOOLEAN
  BY DEF WireType, Call
<1>2. UNCHANGED <<tree, clock, outbox, flushing, resync, link, uplink, log, saved, changes, breaks>>
  BY DEF ValidateCall, browser, server
<1>3. BrowserType' /\ ServerType'
  BY <1>2 DEF BrowserType, ServerType
<1>4. CASE /\ serving' = (serving \ {call}) \cup {[call EXCEPT !.valid = TRUE]}
           /\ UNCHANGED inbox
  <2> DEFINE valid == [call EXCEPT !.valid = TRUE]
  <2>1. valid \in Call /\ valid.client = c /\ valid.live = call.live /\ valid.op = call.op
    BY <1>1 DEF Call
  <2> HIDE DEF valid
  <2>2. serving' = (serving \ {call}) \cup {valid}
    BY <1>4 DEF valid
  <2>3. WireType'
    BY <1>2, <1>4, <2>1, <2>2 DEF WireType
  <2>4. ASSUME NEW d \in Site PROVE Flight(d)'
    <3>1. CASE d = c /\ call.live
      <4>1. Served(d) = {call}
        BY <3>1 DEF Flight, Served
      <4>2. Served(d)' = {valid}
        BY <2>1, <2>2, <3>1, <4>1 DEF Served
      <4>3. QED
        BY <1>2, <1>4, <2>1, <4>1, <4>2 DEF Flight, Connected
    <3>2. CASE ~(d = c /\ call.live)
      <4>1. Served(d)' = Served(d)
        BY <2>1, <2>2, <3>2 DEF Served
      <4>2. QED
        BY <1>2, <1>4, <4>1, FlightFrame DEF Connected
    <3>3. QED
      BY <3>1, <3>2
  <2>5. QED
    BY <1>3, <2>3, <2>4
<1>5. CASE /\ serving' = serving \ {call}
           /\ inbox' = Answer(inbox, c, call.live, FALSE)
  <2> DEFINE m == [kind |-> "answer", ok |-> FALSE]
  <2>1. m \in [kind : {"answer"}, ok : BOOLEAN]
    OBVIOUS
  <2>2. inbox' = IF call.live THEN With(c, m) ELSE inbox
    BY <1>5 DEF Answer, With
  <2> HIDE DEF m
  <2>3. /\ With(c, m) \in [Site -> SUBSET Message]
        /\ \A d \in Site : \A n \in With(c, m)[d] : Handleable(n)
    BY <1>1, <2>1, WithType
  <2>4. WireType'
    BY <1>2, <1>5, <2>2, <2>3 DEF WireType
  <2>5. \A d \in Site : Flight(d)'
    BY <1>2, <1>5, <2>1, <2>2, CallEnds
  <2>6. QED
    BY <1>3, <2>4, <2>5
<1>6. QED
  BY <1>4, <1>5 DEF ValidateCall

LEMMA AppendCallType ==
  ASSUME TypeInv, NEW call \in serving, AppendCall(call)
  PROVE  TypeInv'
<1> USE DEF TypeInv
<1> DEFINE c == call.client
           m == [kind |-> "answer", ok |-> Verdict(call.op) # "refused"]
           answered == IF call.live THEN With(c, m) ELSE inbox
<1>1. call \in Call /\ c \in Site /\ call.live \in BOOLEAN /\ call.op \in ProjectTreeOperation
  BY DEF WireType, Call
<1>2. UNCHANGED <<tree, clock, outbox, flushing, resync, link, uplink, changes, breaks>>
      /\ serving' = serving \ {call}
  BY DEF AppendCall, browser
<1>3. \/ /\ inbox' = Relay(answered, c, call.op)
         /\ log' = Append(log, call.op)
         /\ saved' = Compact(saved \cup {call.op})
      \/ inbox' = answered /\ UNCHANGED <<log, saved>>
  <2>1. Answer(inbox, c, call.live, Verdict(call.op) # "refused") = answered
    BY DEF Answer, With
  <2> HIDE DEF answered
  <2>2. QED
    BY <2>1 DEF AppendCall, server
<1>4. m \in [kind : {"answer"}, ok : BOOLEAN]
  OBVIOUS
<1> HIDE DEF m
<1>5. /\ answered \in [Site -> SUBSET Message]
      /\ \A d \in Site : \A n \in answered[d] : Handleable(n)
  BY <1>1, <1>4, WithType DEF WireType
<1> HIDE DEF answered
<1>6. /\ inbox' \in [Site -> SUBSET Message]
      /\ \A d \in Site : \A n \in inbox'[d] : Handleable(n)
      /\ \A d \in Site : Answers(inbox'[d]) = Answers(answered[d])
  BY <1>1, <1>3, <1>5, RelayType
<1>7. BrowserType' /\ WireType'
  BY <1>2, <1>6 DEF BrowserType, WireType
<1>8. ServerType'
  <2>1. CASE log' = Append(log, call.op) /\ saved' = Compact(saved \cup {call.op})
    <3>1. Compact(saved \cup {call.op}) \subseteq saved \cup {call.op}
      BY DEF Compact
    <3>2. IsFiniteSet(saved \cup {call.op})
      BY FS_AddElement DEF ServerType
    <3>3. IsFiniteSet(saved')
      BY <2>1, <3>1, <3>2, FS_Subset
    <3>4. log' \in Seq(ProjectTreeOperation)
      BY <1>1, <2>1 DEF ServerType
    <3>5. saved' \subseteq ProjectTreeOperation
      BY <1>1, <2>1, <3>1 DEF ServerType
    <3>6. QED
      BY <1>2, <3>3, <3>4, <3>5 DEF ServerType
  <2>2. CASE UNCHANGED <<log, saved>>
    BY <1>2, <2>2 DEF ServerType
  <2>3. QED
    BY <1>3, <2>1, <2>2
<1>9. \A d \in Site : Flight(d)'
  BY <1>2, <1>4, <1>6, CallEnds DEF answered
<1>10. QED
  BY <1>7, <1>8, <1>9

LEMMA JoinType ==
  ASSUME TypeInv, NEW c \in Site, ReadRoom(c) \/ EnterGroup(c) \/ Connect(c)
  PROVE  TypeInv'
<1> USE DEF TypeInv
<1>1. UNCHANGED <<tree, clock, outbox, flushing, uplink, serving, log, saved, changes, breaks>>
  BY DEF ReadRoom, EnterGroup, Connect, browser, server
<1>2. BrowserType' /\ ServerType'
  BY <1>1 DEF ReadRoom, EnterGroup, Connect, browser, BrowserType, ServerType, Link
<1>3. /\ inbox' \in [Site -> SUBSET Message]
      /\ \A d \in Site : \A n \in inbox'[d] : Handleable(n)
      /\ \A d \in Site : Answers(inbox'[d]) = Answers(inbox[d])
  <2>1. CASE ReadRoom(c)
    <3> DEFINE m == [kind |-> "room", files |-> GetEntries(saved), snapshot |-> saved,
                     history |-> log]
    <3>1. Handleable(m) /\ m \in Message /\ m.kind # "answer"
      BY MessageType DEF Handleable, ServerType
    <3>2. inbox' = [inbox EXCEPT ![c] = @ \cup {m}]
      BY <2>1 DEF ReadRoom
    <3> HIDE DEF m
    <3>3. inbox' \in [Site -> SUBSET Message]
      BY <3>1, <3>2 DEF WireType
    <3>4. \A d \in Site : inbox'[d] = IF d = c THEN inbox[c] \cup {m} ELSE inbox[d]
      BY <3>2 DEF WireType
    <3>5. QED
      BY <3>1, <3>3, <3>4 DEF WireType, Answers
  <2>2. CASE EnterGroup(c) \/ Connect(c)
    BY <2>2 DEF EnterGroup, Connect, WireType
  <2>3. QED
    BY <2>1, <2>2
<1>4. WireType'
  BY <1>1, <1>3 DEF WireType
<1>5. ASSUME NEW d \in Site PROVE Flight(d)'
  <2>1. Flight(d) /\ Served(d)' = Served(d)
    BY <1>1 DEF Served
  <2>2. CASE ReadRoom(c) \/ EnterGroup(c)
    <3>1. Connected(d)' <=> Connected(d)
      BY <2>2 DEF ReadRoom, EnterGroup, Connected, BrowserType
    <3>2. QED
      BY <1>1, <1>3, <2>1, <3>1, FlightFrame
  <2>3. CASE Connect(c) /\ d = c
    <3>1. ~flushing[d]
      BY <2>1, <2>3 DEF Connect, Connected, Flight
    <3>2. QED
      BY <1>1, <1>3, <2>1, <3>1 DEF Flight
  <2>4. CASE Connect(c) /\ d # c
    <3>1. Connected(d)' <=> Connected(d)
      BY <2>4 DEF Connect, Connected, BrowserType
    <3>2. QED
      BY <1>1, <1>3, <2>1, <3>1, FlightFrame
  <2>5. QED
    BY <2>2, <2>3, <2>4
<1>6. QED
  BY <1>2, <1>4, <1>5

\* What is left in the inbox was there before.
LEMMA HandleType ==
  ASSUME WireType, NEW c \in Site, NEW m, Handle(c, m)
  PROVE  /\ m \in inbox[c] /\ Handleable(m) /\ m \in Message
         /\ inbox' \in [Site -> SUBSET Message]
         /\ \A d \in Site : \A n \in inbox'[d] : Handleable(n)
         /\ \A d \in Site \ {c} : inbox'[d] = inbox[d]
         /\ Answers(inbox'[c]) = Answers(inbox[c]) \ {m}
<1>1. m \in inbox[c] /\ inbox' = [inbox EXCEPT ![c] = @ \ {m}]
  BY DEF Handle
<1>2. inbox \in [Site -> SUBSET Message] /\ \A d \in Site : \A n \in inbox[d] : Handleable(n)
  BY DEF WireType
<1>3. /\ inbox' \in [Site -> SUBSET Message]
      /\ inbox'[c] = inbox[c] \ {m}
      /\ \A d \in Site \ {c} : inbox'[d] = inbox[d]
  BY <1>1, <1>2
<1>4. \A d \in Site : \A n \in inbox'[d] : Handleable(n)
  BY <1>2, <1>3
<1>5. Answers(inbox'[c]) = Answers(inbox[c]) \ {m}
  BY <1>3 DEF Answers
<1>6. QED
  BY <1>1, <1>2, <1>3, <1>4, <1>5 DEF Handleable

LEMMA HandleOpType ==
  ASSUME TypeInv, NEW c \in Site, HandleOp(c)
  PROVE  TypeInv'
<1> USE DEF TypeInv
<1>1. PICK m \in inbox[c] :
        /\ m.kind = "op"
        /\ Handle(c, m)
        /\ IF Conflict(tree[c], {m.op})
           THEN UNCHANGED <<tree, clock>>
           ELSE /\ tree' = [tree EXCEPT ![c] = @ \cup {m.op}]
                /\ clock' = [clock EXCEPT ![c] = Max({@, m.op.id.counter})]
  BY DEF HandleOp
<1>2. UNCHANGED <<outbox, flushing, link, resync, uplink, serving, log, saved, changes, breaks>>
  BY DEF HandleOp, server
<1>3. m.op \in ProjectTreeOperation
  BY <1>1, MessageType DEF WireType
<1>4. BrowserType'
  <2>1. CASE UNCHANGED <<tree, clock>>
    BY <1>2, <2>1 DEF BrowserType
  <2>2. CASE /\ tree' = [tree EXCEPT ![c] = @ \cup {m.op}]
             /\ clock' = [clock EXCEPT ![c] = Max({@, m.op.id.counter})]
    <3>1. IsFiniteSet(tree[c] \cup {m.op})
      BY FS_AddElement DEF BrowserType
    <3>2. Max({clock[c], m.op.id.counter}) \in Nat
      <4>1. clock[c] \in Nat /\ m.op.id.counter \in Nat
        BY <1>3, OperationType DEF OpId, BrowserType
      <4>2. QED
        BY <4>1, MaxOfTwo
    <3>3. clock' \in [Site -> Nat]
      BY <2>2, <3>2 DEF BrowserType
    <3>4. tree' \in [Site -> SUBSET ProjectTreeOperation] /\ \A d \in Site : IsFiniteSet(tree'[d])
      BY <1>3, <2>2, <3>1 DEF BrowserType
    <3>5. QED
      BY <1>2, <3>3, <3>4 DEF BrowserType
  <2>3. QED
    BY <1>1, <2>1, <2>2
<1>5. /\ inbox' \in [Site -> SUBSET Message]
      /\ \A d \in Site : \A n \in inbox'[d] : Handleable(n)
      /\ \A d \in Site : Answers(inbox'[d]) = Answers(inbox[d])
  <2>1. m \notin Answers(inbox[c])
    BY <1>1 DEF Answers
  <2>2. QED
    <3>1. /\ inbox' \in [Site -> SUBSET Message]
          /\ \A d \in Site : \A n \in inbox'[d] : Handleable(n)
          /\ \A d \in Site \ {c} : inbox'[d] = inbox[d]
          /\ Answers(inbox'[c]) = Answers(inbox[c]) \ {m}
      BY <1>1, HandleType
    <3>2. QED
      BY <2>1, <3>1
<1>6. WireType' /\ ServerType'
  BY <1>2, <1>5 DEF WireType, ServerType
<1>7. \A d \in Site : Flight(d)'
  BY <1>2, <1>5, FlightFrame DEF Served, Connected
<1>8. QED
  BY <1>4, <1>6, <1>7

LEMMA HandleRoomType ==
  ASSUME TypeInv, NEW c \in Site, HandleRoom(c)
  PROVE  TypeInv'
<1> USE DEF TypeInv
<1>1. PICK m, loaded, ops :
        /\ m \in inbox[c]
        /\ m.kind = "room"
        /\ Handle(c, m)
        /\ loaded = WithSnapshot(Reseeded(tree[c], m.files), m.snapshot)
        /\ ops = WithHistory(loaded, m.history)
        /\ tree' = [tree EXCEPT ![c] = ops]
        /\ clock' = [clock EXCEPT ![c] = Clock(ops)]
        /\ UNCHANGED <<uplink, flushing>> \/ Flush(c, outbox[c])
  BY DEF HandleRoom
<1>2. /\ UNCHANGED <<outbox, link, serving, log, saved, changes, breaks>>
      /\ resync' \in [Site -> BOOLEAN]
  BY DEF HandleRoom, server, BrowserType
<1>3. /\ inbox' \in [Site -> SUBSET Message]
      /\ \A d \in Site : \A n \in inbox'[d] : Handleable(n)
      /\ \A d \in Site : Answers(inbox'[d]) = Answers(inbox[d])
  <2>1. m \notin Answers(inbox[c])
    BY <1>1 DEF Answers
  <2>2. QED
    <3>1. /\ inbox' \in [Site -> SUBSET Message]
          /\ \A d \in Site : \A n \in inbox'[d] : Handleable(n)
          /\ \A d \in Site \ {c} : inbox'[d] = inbox[d]
          /\ Answers(inbox'[c]) = Answers(inbox[c]) \ {m}
      BY <1>1, HandleType
    <3>2. QED
      BY <2>1, <3>1
<1>4. ops \in SUBSET ProjectTreeOperation /\ IsFiniteSet(ops)
  <2>1. /\ m.files \in Entries /\ IsFiniteSet(DOMAIN m.files)
        /\ m.snapshot \in SUBSET ProjectTreeOperation /\ IsFiniteSet(m.snapshot)
        /\ m.history \in Seq(ProjectTreeOperation)
    BY <1>1, MessageType DEF WireType, Handleable
  <2>2. tree[c] \in SUBSET ProjectTreeOperation /\ IsFiniteSet(tree[c])
    BY DEF BrowserType
  <2>3. QED
    BY <1>1, <2>1, <2>2, RoomType
<1>5. Clock(ops) \in Nat
  BY <1>4, ClockType
<1>6. /\ uplink' \in [Site -> SUBSET ProjectTreeOperation]
      /\ flushing' \in [Site -> BOOLEAN]
      /\ \A d \in Site :
           \/ uplink'[d] = uplink[d] /\ flushing'[d] = flushing[d]
           \/ /\ Connected(d) /\ ~flushing[d] /\ outbox[d] # <<>>
              /\ uplink'[d] = {Head(outbox[d])} /\ flushing'[d]
  <2>1. CASE UNCHANGED <<uplink, flushing>>
    BY <2>1 DEF BrowserType, WireType
  <2>2. CASE Flush(c, outbox[c])
    <3>1. outbox[c] \in Seq(ProjectTreeOperation)
      BY DEF BrowserType
    <3>2. QED
      BY <2>2, <3>1, FlushType
  <2>3. QED
    BY <1>1, <2>1, <2>2
<1>7. BrowserType'
  BY <1>1, <1>2, <1>4, <1>5, <1>6 DEF BrowserType
<1>8. WireType' /\ ServerType'
  BY <1>2, <1>3, <1>6 DEF WireType, ServerType
<1>9. ASSUME NEW d \in Site PROVE Flight(d)'
  <2>1. Flight(d) /\ Served(d)' = Served(d) /\ (Connected(d)' <=> Connected(d))
    BY <1>2 DEF Served, Connected
  <2>2. CASE uplink'[d] = uplink[d] /\ flushing'[d] = flushing[d]
    BY <1>2, <1>3, <2>1, <2>2, FlightFrame
  <2>3. CASE /\ Connected(d) /\ ~flushing[d] /\ outbox[d] # <<>>
             /\ uplink'[d] = {Head(outbox[d])} /\ flushing'[d]
    BY <1>2, <1>3, <2>1, <2>3 DEF Flight
  <2>4. QED
    BY <1>6, <2>2, <2>3
<1>10. QED
  BY <1>7, <1>8, <1>9

LEMMA HandleAnswerType ==
  ASSUME TypeInv, NEW c \in Site, HandleAnswer(c)
  PROVE  TypeInv'
<1> USE DEF TypeInv
<1> DEFINE op == Head(outbox[c])
           rest == Tail(outbox[c])
<1>1. PICK m \in Answers(inbox[c]) :
        /\ Handle(c, m)
        /\ \/ /\ uplink' = [uplink EXCEPT ![c] = IF rest = <<>> THEN {} ELSE {Head(rest)}]
              /\ flushing' = [flushing EXCEPT ![c] = rest # <<>>]
              /\ UNCHANGED <<tree, link>>
           \/ /\ tree' = [tree EXCEPT ![c] = RolledBack(@, op)]
              /\ flushing' = [flushing EXCEPT ![c] = FALSE]
              /\ link' = [link EXCEPT ![c] = IF resync[c] THEN "stopped" ELSE @]
              /\ UNCHANGED uplink
  BY DEF HandleAnswer, Handle, Answers
<1>2. /\ outbox' = [outbox EXCEPT ![c] = rest]
      /\ UNCHANGED <<clock, serving, log, saved, changes, breaks>>
      /\ resync' \in [Site -> BOOLEAN]
  BY DEF HandleAnswer, server, BrowserType
<1>3. /\ flushing[c] /\ outbox[c] # <<>> /\ Connected(c)
      /\ uplink[c] = {} /\ Served(c) = {} /\ Answers(inbox[c]) = {m}
  <2>1. Flight(c) /\ m \in Answers(inbox[c]) /\ flushing[c] \in BOOLEAN
    BY DEF BrowserType
  <2>2. flushing[c] /\ uplink[c] = {} /\ Served(c) = {}
    BY <2>1 DEF Flight
  <2>3. Answers(inbox[c]) = {m}
    BY <2>1 DEF Flight
  <2>4. QED
    BY <2>1, <2>2, <2>3 DEF Flight
<1>4. /\ inbox' \in [Site -> SUBSET Message]
      /\ \A d \in Site : \A n \in inbox'[d] : Handleable(n)
      /\ \A d \in Site \ {c} : inbox'[d] = inbox[d]
      /\ Answers(inbox'[c]) = {}
  BY <1>1, <1>3, HandleType
<1>5. rest \in Seq(ProjectTreeOperation)
  BY <1>3, ToSetTail DEF BrowserType
<1>6. rest # <<>> => Head(rest) \in ProjectTreeOperation
  BY <1>5
<1> HIDE DEF op, rest
<1>7. outbox' \in [Site -> Seq(ProjectTreeOperation)] /\ outbox'[c] = rest
      /\ \A d \in Site \ {c} : outbox'[d] = outbox[d]
  BY <1>2, <1>5 DEF BrowserType
<1>8. /\ uplink' \in [Site -> SUBSET ProjectTreeOperation]
      /\ flushing' \in [Site -> BOOLEAN]
      /\ \A d \in Site \ {c} : /\ uplink'[d] = uplink[d] /\ flushing'[d] = flushing[d]
                               /\ Connected(d)' <=> Connected(d)
      /\ \/ rest # <<>> /\ uplink'[c] = {Head(rest)} /\ flushing'[c] /\ Connected(c)'
         \/ uplink'[c] = {} /\ ~flushing'[c]
  <2>1. CASE /\ uplink' = [uplink EXCEPT ![c] = IF rest = <<>> THEN {} ELSE {Head(rest)}]
             /\ flushing' = [flushing EXCEPT ![c] = rest # <<>>]
             /\ UNCHANGED <<tree, link>>
    BY <1>3, <1>6, <2>1 DEF BrowserType, WireType, Connected
  <2>2. CASE /\ flushing' = [flushing EXCEPT ![c] = FALSE]
             /\ link' = [link EXCEPT ![c] = IF resync[c] THEN "stopped" ELSE @]
             /\ UNCHANGED uplink
    BY <1>3, <2>2 DEF BrowserType, WireType, Connected
  <2>3. QED
    BY <1>1, <2>1, <2>2
<1>9. /\ tree' \in [Site -> SUBSET ProjectTreeOperation]
      /\ \A d \in Site : IsFiniteSet(tree'[d])
      /\ link' \in [Site -> Link]
  <2>1. RolledBack(tree[c], op) \subseteq tree[c]
    BY DEF RolledBack
  <2>2. IsFiniteSet(RolledBack(tree[c], op))
    BY <2>1, FS_Subset DEF BrowserType
  <2>3. QED
    BY <1>1, <2>1, <2>2 DEF BrowserType, Link
<1>10. BrowserType'
  BY <1>2, <1>7, <1>8, <1>9 DEF BrowserType
<1>11. WireType' /\ ServerType'
  BY <1>2, <1>4, <1>8 DEF WireType, ServerType
<1>12. ASSUME NEW d \in Site PROVE Flight(d)'
  <2>1. Served(d)' = Served(d)
    BY <1>2 DEF Served
  <2>2. CASE d = c
    BY <1>3, <1>4, <1>7, <1>8, <2>1, <2>2 DEF Flight
  <2>3. CASE d # c
    BY <1>4, <1>7, <1>8, <2>1, <2>3, FlightFrame
  <2>4. QED
    BY <2>2, <2>3
<1>13. QED
  BY <1>10, <1>11, <1>12

LEMMA BreakType ==
  ASSUME TypeInv, NEW c \in Site, Break(c)
  PROVE  TypeInv'
<1> USE DEF TypeInv
<1> DEFINE cut(call) == [call EXCEPT !.live = @ /\ call.client # c]
<1>1. /\ link' = [link EXCEPT ![c] = IF @ # "joined" \/ resync[c] THEN "stopped" ELSE "down"]
      /\ flushing' = [flushing EXCEPT ![c] = FALSE]
      /\ resync' = [resync EXCEPT ![c] = FALSE]
      /\ uplink' = [uplink EXCEPT ![c] = {}]
      /\ inbox' = [inbox EXCEPT ![c] = {}]
      /\ serving' = {cut(call) : call \in serving}
      /\ breaks' = breaks + 1
      /\ UNCHANGED <<tree, clock, outbox, log, saved, changes>>
  BY DEF Break, server
<1>2. ASSUME NEW call \in serving
      PROVE  /\ cut(call) \in Call
             /\ call.client = c => ~cut(call).live /\ cut(call).client = c
             /\ call.client # c => cut(call) = call
  BY DEF WireType, Call
<1> HIDE DEF cut
<1>3. BrowserType' /\ WireType' /\ ServerType'
  BY <1>1, <1>2 DEF BrowserType, WireType, ServerType, Link
<1>4. ASSUME NEW d \in Site PROVE Flight(d)'
  <2>1. CASE d = c
    <3>1. Served(c)' = {}
      BY <1>1, <1>2 DEF Served
    <3>2. uplink'[c] = {} /\ ~flushing'[c] /\ Answers(inbox'[c]) = {}
      BY <1>1 DEF BrowserType, WireType, Answers
    <3>3. QED
      BY <2>1, <3>1, <3>2 DEF Flight
  <2>2. CASE d # c
    <3>1. Served(d)' = Served(d)
      BY <1>1, <1>2, <2>2 DEF Served
    <3>2. /\ uplink'[d] = uplink[d] /\ flushing'[d] = flushing[d] /\ inbox'[d] = inbox[d]
          /\ Connected(d)' <=> Connected(d)
      BY <1>1, <2>2 DEF BrowserType, WireType, Connected
    <3>3. QED
      BY <1>1, <3>1, <3>2, FlightFrame
  <2>3. QED
    BY <2>1, <2>2
<1>5. QED
  BY <1>3, <1>4

LEMMA TypeNext ==
  ASSUME TypeInv, [Next]_vars
  PROVE  TypeInv'
<1>1. CASE Next
  BY <1>1, ChangeTreeType, ReceiveCallType, ValidateCallType, AppendCallType, JoinType,
     HandleOpType, HandleRoomType, HandleAnswerType, BreakType DEF Next
<1>2. CASE UNCHANGED vars
  <2>1. BrowserType' /\ WireType' /\ ServerType'
    BY <1>2 DEF vars, browser, server, TypeInv, BrowserType, WireType, ServerType
  <2>2. \A c \in Site : Flight(c)'
    BY <1>2, FlightFrame DEF vars, browser, server, TypeInv, Served, Connected
  <2>3. QED
    BY <2>1, <2>2 DEF TypeInv
<1>3. QED
  BY <1>1, <1>2

\* Whatever is sent, broken off and sent again, every tab has at most one
\* operation under way, the first of its outbox, and only while connected.
THEOREM TypeCorrect == Spec => []TypeOK
<1>1. TypeInv => TypeOK
  <2>1. ASSUME TypeInv, NEW c \in Site PROVE uplink[c] \subseteq ToSet(outbox[c])
    <3>1. CASE uplink[c] # {}
      <4>1. /\ uplink[c] = {Head(outbox[c])} /\ outbox[c] # <<>>
            /\ outbox[c] \in Seq(ProjectTreeOperation)
        BY <2>1, <3>1 DEF TypeInv, Flight, BrowserType
      <4>2. QED
        BY <4>1, ToSetTail
    <3>2. QED
      BY <3>1
  <2>2. QED
    BY <2>1 DEF TypeInv, BrowserType, WireType, ServerType, Flight, TypeOK
<1>2. QED
  BY <1>1, TypeInit, TypeNext, PTL DEF Spec

-----------------------------------------------------------------------------
(* The log.                                                                *)

LEMMA LogTypes == Spec => []TypeInv
BY TypeInit, TypeNext, PTL DEF Spec

\* What AppendCall does to the log, and nothing else does anything.
LEMMA LogSteps ==
  ASSUME [Next]_vars
  PROVE  \/ UNCHANGED <<log, saved>>
         \/ \E call \in serving :
              /\ Verdict(call.op) = "accepted"
              /\ log' = Append(log, call.op)
              /\ saved' = Compact(saved \cup {call.op})
<1>1. CASE \E call \in serving : AppendCall(call)
  <2>1. PICK call \in serving : AppendCall(call)
    BY <1>1
  <2>2. QED
    BY <2>1 DEF AppendCall, server
<1>2. CASE UNCHANGED vars
  BY <1>2 DEF vars, server
<1>3. CASE Next /\ ~\E call \in serving : AppendCall(call)
  BY <1>3 DEF Next, ChangeTree, ReceiveCall, ReadRoom, EnterGroup, HandleOp, HandleRoom,
     HandleAnswer, Break, Connect, ValidateCall, server
<1>4. QED
  BY <1>1, <1>2, <1>3

\* An accepted operation is newer than all its site has in the log.
LEMMA AcceptedIsNewer ==
  ASSUME log \in Seq(ProjectTreeOperation), NEW op \in ProjectTreeOperation,
         Verdict(op) = "accepted", NEW o \in ToSet(log), o.id.site = op.id.site
  PROVE  o.id.counter < op.id.counter
<1>1. o.id.counter \in Counters(op.id.site)
  BY DEF Counters
<1>2. ~(op.id.counter <= o.id.counter)
  BY <1>1 DEF Verdict
<1>3. o.id.counter \in Nat /\ op.id.counter \in Nat
  BY ToSetType, OperationType DEF OpId
<1>4. QED
  BY <1>2, <1>3

LEMMA LoggedOnceStep ==
  ASSUME TypeInv, LoggedOnce, [Next]_vars
  PROVE  LoggedOnce'
<1>1. CASE UNCHANGED log
  BY <1>1 DEF LoggedOnce
<1>2. ASSUME NEW call \in serving, Verdict(call.op) = "accepted", log' = Append(log, call.op)
      PROVE  LoggedOnce'
  <2> DEFINE op == call.op
  <2>1. log \in Seq(ProjectTreeOperation) /\ op \in ProjectTreeOperation
    BY DEF TypeInv, ServerType, WireType, Call
  <2> HIDE DEF op
  <2>2. /\ DOMAIN log = 1..Len(log) /\ DOMAIN log' = 1..(Len(log) + 1) /\ Len(log) \in Nat
        /\ \A i \in 1..Len(log) : log'[i] = log[i]
        /\ log'[Len(log) + 1] = op
    BY <1>2, <2>1 DEF op
  <2>3. ASSUME NEW i \in DOMAIN log', NEW j \in DOMAIN log', i < j,
               log'[i].id.site = log'[j].id.site
        PROVE  log'[i].id.counter < log'[j].id.counter
    <3>1. CASE j \in 1..Len(log)
      <4>1. i \in 1..Len(log)
        BY <2>2, <2>3, <3>1
      <4>2. QED
        BY <2>2, <2>3, <3>1, <4>1 DEF LoggedOnce
    <3>2. CASE j = Len(log) + 1
      <4>1. i \in 1..Len(log)
        BY <2>2, <2>3, <3>2
      <4>2. log[i] \in ToSet(log) /\ log'[i] = log[i] /\ log'[j] = op
        BY <2>2, <3>2, <4>1 DEF ToSet
      <4>3. QED
        BY <1>2, <2>1, <2>3, <4>2, AcceptedIsNewer DEF op
    <3>3. QED
      BY <2>2, <3>1, <3>2
  <2>4. QED
    BY <2>3 DEF LoggedOnce
<1>3. QED
  BY <1>1, <1>2, LogSteps

LEMMA LoggedOnceInit == Init => LoggedOnce
BY SyncAssumption DEF Init, LoggedOnce

\* The copies of an operation, however they interleave, are logged once.
THEOREM AlwaysLoggedOnce == Spec => []LoggedOnce
BY LoggedOnceInit, LoggedOnceStep, LogTypes, PTL DEF Spec

LEMMA LoggedIdsUnique ==
  ASSUME TypeInv, LoggedOnce
  PROVE  UniqueIds(ToSet(log))
<1> SUFFICES ASSUME NEW o \in ToSet(log), NEW p \in ToSet(log), o.id = p.id
             PROVE  o = p
  BY DEF UniqueIds
<1>1. PICK i, j \in DOMAIN log : o = log[i] /\ p = log[j]
  BY DEF ToSet
<1>2. i \in Nat /\ j \in Nat
  BY DEF TypeInv, ServerType
<1>3. o.id.counter \in Nat
  BY ToSetType, OperationType DEF TypeInv, ServerType, OpId
<1>4. ~(i < j) /\ ~(j < i)
  BY <1>1, <1>3 DEF LoggedOnce
<1>5. QED
  BY <1>1, <1>2, <1>4

Compacted == saved = Compact(ToSet(log))

LEMMA CompactedStep ==
  ASSUME TypeInv, Compacted, [Next]_vars
  PROVE  Compacted'
<1>1. CASE UNCHANGED <<log, saved>>
  BY <1>1 DEF Compacted
<1>2. ASSUME NEW call \in serving, log' = Append(log, call.op),
             saved' = Compact(saved \cup {call.op})
      PROVE  Compacted'
  <2>1. log \in Seq(ProjectTreeOperation) /\ call.op \in ProjectTreeOperation
    BY DEF TypeInv, ServerType, WireType, Call
  <2>2. ToSet(log) \in SUBSET ProjectTreeOperation /\ IsFiniteSet(ToSet(log))
    BY <2>1, ToSetType
  <2>3. ToSet(log') = ToSet(log) \cup {call.op}
    BY <1>2, <2>1, ToSetAppend
  <2>4. QED
    BY <1>2, <2>1, <2>2, <2>3, CompactOneMore DEF Compacted
<1>3. QED
  BY <1>1, <1>2, LogSteps

LEMMA CompactedInit == Init => Compacted
BY DEF Init, Compacted

\* The snapshot loses nothing of the log, whatever the operations and however
\* long the log is.
THEOREM SnapshotAlwaysStandsForLog == Spec => []SnapshotStandsForLog
<1>1. ASSUME TypeInv, LoggedOnce, Compacted PROVE SnapshotStandsForLog
  <2>1. ToSet(log) \in SUBSET ProjectTreeOperation /\ IsFiniteSet(ToSet(log))
    BY <1>1, ToSetType DEF TypeInv, ServerType
  <2>2. UniqueIds(ToSet(log))
    BY <1>1, LoggedIdsUnique
  <2>3. QED
    BY <1>1, <2>1, <2>2, CompactShowsTheSame DEF Compacted, SnapshotStandsForLog
<1>2. Spec => []Compacted
  BY CompactedInit, CompactedStep, LogTypes, PTL DEF Spec
<1>3. QED
  BY <1>1, <1>2, LogTypes, AlwaysLoggedOnce, PTL

-----------------------------------------------------------------------------
(* What leaves the outbox, if no tab makes an identifier twice.            *)

\* The operations of c that the server has or is working on.
Arrived(c) ==
  {o \in ToSet(log) \cup {call.op : call \in serving} : o.id.site = c}

\* The outbox of c is a queue of its own operations in the order they were
\* made, of which the server can have met the first at most.
Queue(c) ==
  /\ \A i, j \in DOMAIN outbox[c] : i < j => outbox[c][i].id.counter < outbox[c][j].id.counter
  /\ \A o \in ToSet(outbox[c]) : o.id.site = c
  /\ \A o \in Arrived(c), p \in ToSet(outbox[c]) : o.id.counter < p.id.counter \/ o = p

\* What is answered with success is logged.
Honest(c) ==
  \A m \in Answers(inbox[c]) : m.ok => Head(outbox[c]) \in ToSet(log)

QueueInv ==
  /\ \A call \in serving : call.op.id.site = call.client
  /\ \A c \in Site : Queue(c) /\ Honest(c)

LEMMA QueueInit == Init => QueueInv
<1> SUFFICES ASSUME Init PROVE QueueInv
  OBVIOUS
<1>1. ASSUME NEW c \in Site PROVE Queue(c) /\ Honest(c)
  <2>1. outbox[c] = <<>> /\ DOMAIN outbox[c] = {} /\ ToSet(outbox[c]) = {} /\ inbox[c] = {}
    BY DEF Init, ToSet
  <2>2. QED
    BY <2>1 DEF Queue, Honest, Answers
<1>2. QED
  BY <1>1 DEF QueueInv, Init

\* The first operation of the outbox is older than the others.
LEMMA HeadIsOldest ==
  ASSUME TypeInv, NEW c \in Site, Queue(c), outbox[c] # <<>>, NEW p \in ToSet(outbox[c])
  PROVE  Head(outbox[c]).id.counter < p.id.counter \/ Head(outbox[c]) = p
<1>1. outbox[c] \in Seq(ProjectTreeOperation)
  BY DEF TypeInv, BrowserType
<1>2. /\ Head(outbox[c]) = outbox[c][1] /\ 1 \in DOMAIN outbox[c]
      /\ DOMAIN outbox[c] = 1..Len(outbox[c]) /\ Len(outbox[c]) \in Nat
  BY <1>1
<1>3. PICK j \in DOMAIN outbox[c] : p = outbox[c][j]
  BY DEF ToSet
<1>4. j = 1 \/ 1 < j
  BY <1>2, <1>3
<1>5. QED
  BY <1>2, <1>3, <1>4 DEF Queue

\* A step that changes no outbox, and brings no new operation to the server.
LEMMA QueueFrame ==
  ASSUME NEW c \in Site, Queue(c), outbox'[c] = outbox[c], Arrived(c)' \subseteq Arrived(c)
  PROVE  Queue(c)'
BY DEF Queue

LEMMA HonestFrame ==
  ASSUME NEW c \in Site, Honest(c), outbox'[c] = outbox[c], ToSet(log) \subseteq ToSet(log)',
         Answers(inbox'[c]) \subseteq Answers(inbox[c])
  PROVE  Honest(c)'
BY DEF Honest

LEMMA ChangeTreeQueue ==
  ASSUME FreshIds, TypeInv, QueueInv, NEW c \in Site, ChangeTree(c)
  PROVE  QueueInv'
<1>1. PICK op \in Offered(c) :
        outbox' = [outbox EXCEPT ![c] = IF \E o \in ToSet(outbox[c]) : o.id = op.id
                                        THEN outbox[c] ELSE Append(outbox[c], op)]
  BY DEF ChangeTree
<1>2. /\ UNCHANGED <<inbox, serving, log>>
      /\ \A o \in Sent(c) : o.id.counter <= clock[c]
  BY DEF ChangeTree, server
<1>3. /\ op \in ProjectTreeOperation /\ op.id.site = c /\ op.id.counter = clock[c] + 1
      /\ clock[c] \in Nat /\ outbox \in [Site -> Seq(ProjectTreeOperation)]
  <2>1. BrowserType
    BY DEF TypeInv
  <2>2. op \in ProjectTreeOperation /\ op.id = [counter |-> clock[c] + 1, site |-> c]
    BY <2>1, OfferedType
  <2>3. QED
    BY <2>1, <2>2 DEF BrowserType
<1>4. ASSUME NEW o \in ToSet(outbox[c]) \cup Arrived(c) PROVE o.id.counter < op.id.counter
  <2>1. o \in Sent(c)
    BY DEF QueueInv, Queue, Arrived, Sent
  <2>2. o \in ProjectTreeOperation
    BY <1>3, ToSetType DEF TypeInv, ServerType, WireType, Call, Arrived
  <2>3. o.id.counter \in Nat /\ o.id.counter <= clock[c]
    BY <1>2, <2>1, <2>2, OperationType DEF OpId
  <2>4. QED
    BY <1>3, <2>3
<1>5. ~\E o \in ToSet(outbox[c]) : o.id = op.id
  <2>1. SUFFICES ASSUME NEW o \in ToSet(outbox[c]), o.id = op.id PROVE FALSE
    OBVIOUS
  <2>2. o.id.counter < op.id.counter
    BY <1>4
  <2>3. QED
    BY <1>3, <2>1, <2>2
<1>6. /\ outbox'[c] = Append(outbox[c], op)
      /\ \A d \in Site \ {c} : outbox'[d] = outbox[d]
  BY <1>1, <1>3, <1>5
<1>7. /\ DOMAIN outbox[c] = 1..Len(outbox[c]) /\ Len(outbox[c]) \in Nat
      /\ DOMAIN outbox'[c] = 1..(Len(outbox[c]) + 1)
      /\ \A i \in 1..Len(outbox[c]) : outbox'[c][i] = outbox[c][i]
      /\ outbox'[c][Len(outbox[c]) + 1] = op
  BY <1>3, <1>6
<1>8. ToSet(outbox'[c]) = ToSet(outbox[c]) \cup {op}
  BY <1>3, <1>6, ToSetAppend
<1>9. Queue(c)'
  <2>1. ASSUME NEW i \in DOMAIN outbox'[c], NEW j \in DOMAIN outbox'[c], i < j
        PROVE  outbox'[c][i].id.counter < outbox'[c][j].id.counter
    <3>1. i \in 1..Len(outbox[c]) /\ outbox'[c][i] = outbox[c][i]
      BY <1>7, <2>1
    <3>2. CASE j \in 1..Len(outbox[c])
      BY <1>7, <2>1, <3>1, <3>2 DEF QueueInv, Queue
    <3>3. CASE j = Len(outbox[c]) + 1
      BY <1>4, <1>7, <3>1, <3>3 DEF ToSet
    <3>4. QED
      BY <1>7, <3>2, <3>3
  <2>2. Arrived(c)' = Arrived(c)
    BY <1>2 DEF Arrived
  <2>3. \A o \in ToSet(outbox'[c]) : o.id.site = c
    BY <1>3, <1>8 DEF QueueInv, Queue
  <2>4. \A o \in Arrived(c), p \in ToSet(outbox'[c]) : o.id.counter < p.id.counter \/ o = p
    BY <1>4, <1>8 DEF QueueInv, Queue
  <2>5. QED
    BY <2>1, <2>2, <2>3, <2>4 DEF Queue
<1>10. Honest(c)'
  <2>1. CASE Answers(inbox[c]) = {}
    BY <1>2, <2>1 DEF Honest
  <2>2. CASE Answers(inbox[c]) # {}
    <3>1. outbox[c] # <<>>
      BY <2>2 DEF TypeInv, Flight
    <3>2. Head(outbox'[c]) = Head(outbox[c])
      BY <1>3, <1>6, <3>1, AppendKeepsHead
    <3>3. QED
      BY <1>2, <3>2 DEF QueueInv, Honest
  <2>3. QED
    BY <2>1, <2>2
<1>11. \A d \in Site \ {c} : Queue(d)' /\ Honest(d)'
  BY <1>2, <1>6, QueueFrame, HonestFrame DEF QueueInv, Arrived
<1>12. QED
  BY <1>2, <1>9, <1>10, <1>11 DEF QueueInv

LEMMA ReceiveCallQueue ==
  ASSUME TypeInv, QueueInv, NEW c \in Site, ReceiveCall(c)
  PROVE  QueueInv'
<1>1. PICK op \in uplink[c] :
        LET same == {o \in ToSet(log) : o.id = op.id}
        IN  \/ /\ serving' = serving \cup
                      {[client |-> c, op |-> op, valid |-> FALSE, live |-> TRUE]}
               /\ UNCHANGED inbox
            \/ /\ inbox' = Answer(inbox, c, TRUE, op \in same)
               /\ UNCHANGED serving
  BY DEF ReceiveCall
<1>2. UNCHANGED <<outbox, log>>
  BY DEF ReceiveCall, browser, server
<1>3. /\ op \in ProjectTreeOperation /\ op = Head(outbox[c]) /\ outbox[c] # <<>>
      /\ Answers(inbox[c]) = {} /\ Queue(c)
      /\ outbox[c] \in Seq(ProjectTreeOperation)
  <2>1. Flight(c) /\ Queue(c) /\ uplink[c] # {}
    BY DEF TypeInv, QueueInv
  <2>2. /\ uplink[c] = {Head(outbox[c])} /\ Answers(inbox[c]) = {} /\ outbox[c] # <<>>
    BY <2>1 DEF Flight
  <2>3. QED
    BY <2>1, <2>2 DEF TypeInv, BrowserType, WireType
<1>4. op.id.site = c
  BY <1>3, ToSetTail DEF Queue
<1>5. CASE UNCHANGED inbox /\ serving' = serving \cup
             {[client |-> c, op |-> op, valid |-> FALSE, live |-> TRUE]}
  <2> DEFINE call == [client |-> c, op |-> op, valid |-> FALSE, live |-> TRUE]
  <2>1. call.client = c /\ call.op = op
    OBVIOUS
  <2> HIDE DEF call
  <2>2. serving' = serving \cup {call}
    BY <1>5 DEF call
  <2>3. Arrived(c)' \subseteq Arrived(c) \cup {op}
    BY <1>2, <2>1, <2>2 DEF Arrived
  <2>4. \A d \in Site \ {c} : Arrived(d)' \subseteq Arrived(d)
    BY <1>2, <1>4, <2>1, <2>2 DEF Arrived
  <2>5. Queue(c)'
    <3>1. \A p \in ToSet(outbox[c]) : op.id.counter < p.id.counter \/ op = p
      BY <1>3, HeadIsOldest
    <3>2. QED
      BY <1>2, <1>3, <2>3, <3>1 DEF Queue
  <2>6. \A d \in Site \ {c} : Queue(d)'
    BY <1>2, <2>4, QueueFrame DEF QueueInv
  <2>7. \A d \in Site : Honest(d)'
    BY <1>2, <1>5, HonestFrame DEF QueueInv
  <2>8. QED
    BY <1>4, <2>1, <2>2, <2>5, <2>6, <2>7 DEF QueueInv
<1>6. CASE inbox' = Answer(inbox, c, TRUE, op \in {o \in ToSet(log) : o.id = op.id})
             /\ UNCHANGED serving
  <2> DEFINE known == op \in {o \in ToSet(log) : o.id = op.id}
             m == [kind |-> "answer", ok |-> known]
  <2>1. m \in [kind : {"answer"}, ok : BOOLEAN] /\ (m.ok => op \in ToSet(log))
    <3>1. known \in BOOLEAN /\ (known => op \in ToSet(log))
      OBVIOUS
    <3> HIDE DEF known
    <3>2. QED
      BY <3>1
  <2>2. inbox' = With(c, m)
    BY <1>6 DEF Answer, With
  <2> HIDE DEF m, known
  <2>3. /\ Answers(With(c, m)[c]) = {m}
        /\ \A d \in Site \ {c} : With(c, m)[d] = inbox[d]
    BY <1>3, <2>1, WithType DEF TypeInv
  <2>4. Honest(c)'
    BY <1>2, <1>3, <2>1, <2>2, <2>3 DEF Honest
  <2>5. \A d \in Site \ {c} : Honest(d)'
    BY <1>2, <2>2, <2>3, HonestFrame DEF QueueInv
  <2>6. \A d \in Site : Queue(d)'
    BY <1>2, <1>6, QueueFrame DEF QueueInv, Arrived
  <2>7. QED
    BY <1>6, <2>4, <2>5, <2>6 DEF QueueInv
<1>7. QED
  BY <1>1, <1>5, <1>6

LEMMA ValidateCallQueue ==
  ASSUME TypeInv, QueueInv, NEW call \in serving, ValidateCall(call)
  PROVE  QueueInv'
<1> DEFINE c == call.client
           valid == [call EXCEPT !.valid = TRUE]
           m == [kind |-> "answer", ok |-> FALSE]
<1>1. UNCHANGED <<outbox, log>>
  BY DEF ValidateCall, browser, server
<1>2. valid.client = c /\ valid.op = call.op /\ c \in Site
  BY DEF TypeInv, WireType, Call
<1>3. \/ serving' = (serving \ {call}) \cup {valid} /\ UNCHANGED inbox
      \/ serving' = serving \ {call} /\ inbox' = IF call.live THEN With(c, m) ELSE inbox
  BY DEF ValidateCall, Answer, With
<1>4. m \in [kind : {"answer"}, ok : BOOLEAN] /\ ~m.ok
  OBVIOUS
<1> HIDE DEF valid, m
<1>5. \A d \in Site : Arrived(d)' \subseteq Arrived(d)
  BY <1>1, <1>2, <1>3 DEF Arrived
<1>6. \A d \in Site : Queue(d)'
  BY <1>1, <1>5, QueueFrame DEF QueueInv
<1>7. ASSUME NEW d \in Site PROVE Honest(d)'
  <2>1. CASE inbox'[d] = inbox[d]
    BY <1>1, <2>1, HonestFrame DEF QueueInv
  <2>2. CASE d = c /\ inbox' = With(c, m)
    <3>1. With(c, m)[c] = inbox[c] \cup {m}
      BY <1>2, <1>4, WithType DEF TypeInv
    <3>2. QED
      BY <1>1, <1>4, <2>2, <3>1 DEF QueueInv, Honest, Answers
  <2>3. CASE d # c /\ inbox' = With(c, m)
    <3>1. With(c, m)[d] = inbox[d]
      BY <1>2, <1>4, <2>3, WithType DEF TypeInv
    <3>2. QED
      BY <1>1, <2>3, <3>1, HonestFrame DEF QueueInv
  <2>4. QED
    BY <1>3, <2>1, <2>2, <2>3
<1>8. \A x \in serving' : x.op.id.site = x.client
  BY <1>2, <1>3 DEF QueueInv
<1>9. QED
  BY <1>6, <1>7, <1>8 DEF QueueInv

\* What the script does not refuse is in the log then, and in particular what
\* it ignores because the log has a counter that is not smaller.
LEMMA NotRefusedIsLogged ==
  ASSUME TypeInv, QueueInv, NEW call \in serving, call.live, Verdict(call.op) # "refused",
         \/ log' = log
         \/ log' = Append(log, call.op),
         Verdict(call.op) = "accepted" => log' = Append(log, call.op)
  PROVE  call.op \in ToSet(log')
<1> DEFINE op == call.op
           c == call.client
<1>1. /\ c \in Site /\ op \in ProjectTreeOperation /\ log \in Seq(ProjectTreeOperation)
      /\ op.id.site = c
  BY DEF TypeInv, WireType, ServerType, Call, QueueInv
<1>2. /\ op = Head(outbox[c]) /\ outbox[c] # <<>> /\ outbox[c] \in Seq(ProjectTreeOperation)
  <2>1. call \in Served(c)
    BY DEF Served
  <2>2. QED
    BY <1>1, <2>1 DEF TypeInv, Flight, BrowserType
<1>3. op \in ToSet(outbox[c])
  BY <1>2, ToSetTail
<1>4. /\ ToSet(log) \subseteq ToSet(log')
      /\ Verdict(op) = "accepted" => op \in ToSet(log')
  <2>1. ToSet(Append(log, op)) = ToSet(log) \cup {op}
    BY <1>1, ToSetAppend
  <2>2. QED
    BY <2>1
<1>5. CASE {o \in ToSet(log) : o.id = op.id} # {}
  BY <1>4, <1>5 DEF Verdict
<1>6. CASE {o \in ToSet(log) : o.id = op.id} = {} /\ \E n \in Counters(c) : op.id.counter <= n
  <2>1. PICK o \in ToSet(log) : o.id.site = c /\ op.id.counter <= o.id.counter
    BY <1>6 DEF Counters
  <2>2. o \in Arrived(c)
    BY <2>1 DEF Arrived
  <2>3. o.id.counter < op.id.counter \/ o = op
    BY <1>1, <1>3, <2>2 DEF QueueInv, Queue
  <2>4. o.id.counter \in Nat /\ op.id.counter \in Nat
    BY <1>1, ToSetType, OperationType DEF OpId
  <2>5. QED
    BY <1>4, <2>1, <2>3, <2>4
<1>7. CASE Verdict(op) = "accepted"
  BY <1>4, <1>7
<1>8. QED
  BY <1>1, <1>5, <1>6, <1>7 DEF Verdict

LEMMA AppendCallQueue ==
  ASSUME TypeInv, QueueInv, NEW call \in serving, AppendCall(call)
  PROVE  QueueInv'
<1> DEFINE c == call.client
           m == [kind |-> "answer", ok |-> Verdict(call.op) # "refused"]
           answered == IF call.live THEN With(c, m) ELSE inbox
<1>1. /\ c \in Site /\ call.op \in ProjectTreeOperation /\ log \in Seq(ProjectTreeOperation)
      /\ WireType
  BY DEF TypeInv, WireType, ServerType, Call
<1>2. serving' = serving \ {call} /\ UNCHANGED outbox
  BY DEF AppendCall, browser
<1>3. \/ /\ Verdict(call.op) = "accepted"
         /\ inbox' = Relay(answered, c, call.op)
         /\ log' = Append(log, call.op)
      \/ /\ Verdict(call.op) # "accepted"
         /\ inbox' = answered
         /\ log' = log
  <2>1. Answer(inbox, c, call.live, Verdict(call.op) # "refused") = answered
    BY DEF Answer, With
  <2> HIDE DEF answered
  <2>2. QED
    BY <2>1 DEF AppendCall, server
<1>4. /\ m \in [kind : {"answer"}, ok : BOOLEAN]
      /\ m.ok <=> Verdict(call.op) # "refused"
  OBVIOUS
<1> HIDE DEF m
<1>5. /\ answered \in [Site -> SUBSET Message]
      /\ \A d \in Site : \A n \in answered[d] : Handleable(n)
      /\ \A d \in Site : answered[d] = IF d = c /\ call.live THEN inbox[c] \cup {m} ELSE inbox[d]
  <2>1. /\ With(c, m) \in [Site -> SUBSET Message]
        /\ \A d \in Site : \A n \in With(c, m)[d] : Handleable(n)
        /\ \A d \in Site \ {c} : With(c, m)[d] = inbox[d]
        /\ With(c, m)[c] = inbox[c] \cup {m}
    BY <1>1, <1>4, WithType
  <2> DEFINE box == With(c, m)
  <2> HIDE DEF box
  <2>2. CASE call.live
    BY <2>1, <2>2 DEF box
  <2>3. CASE ~call.live
    BY <1>1, <2>3 DEF WireType
  <2>4. QED
    BY <2>2, <2>3
<1> HIDE DEF answered
<1>6. \A d \in Site : Answers(inbox'[d]) = Answers(answered[d])
  BY <1>1, <1>3, <1>5, RelayType
<1>7. ToSet(log) \subseteq ToSet(log') /\ ToSet(log') \subseteq ToSet(log) \cup {call.op}
  <2>1. ToSet(Append(log, call.op)) = ToSet(log) \cup {call.op}
    BY <1>1, ToSetAppend
  <2>2. QED
    BY <1>3, <2>1
<1>8. \A d \in Site : Arrived(d)' \subseteq Arrived(d)
  BY <1>2, <1>7 DEF Arrived
<1>9. \A d \in Site : Queue(d)'
  BY <1>2, <1>8, QueueFrame DEF QueueInv
<1>10. ASSUME NEW d \in Site PROVE Honest(d)'
  <2>1. CASE d = c /\ call.live
    <3>1. call.op = Head(outbox[c])
      BY <1>1, <2>1 DEF TypeInv, Flight, Served
    <3>2. m.ok => Head(outbox'[c]) \in ToSet(log')
      BY <1>2, <1>3, <1>4, <2>1, <3>1, NotRefusedIsLogged
    <3>3. ASSUME NEW n \in Answers(inbox[c]), n.ok PROVE Head(outbox'[c]) \in ToSet(log')
      BY <1>1, <1>2, <1>7, <3>3 DEF QueueInv, Honest
    <3>4. Answers(inbox'[c]) \subseteq Answers(inbox[c]) \cup {m}
      BY <1>1, <1>5, <1>6 DEF Answers
    <3>5. QED
      BY <2>1, <3>2, <3>3, <3>4 DEF Honest
  <2>2. CASE ~(d = c /\ call.live)
    <3>1. Answers(inbox'[d]) = Answers(inbox[d])
      BY <1>5, <1>6, <2>2
    <3>2. QED
      BY <1>2, <1>7, <3>1, HonestFrame DEF QueueInv
  <2>3. QED
    BY <2>1, <2>2
<1>11. QED
  BY <1>2, <1>9, <1>10 DEF QueueInv

LEMMA HandleAnswerQueue ==
  ASSUME TypeInv, QueueInv, NEW c \in Site, HandleAnswer(c)
  PROVE  QueueInv'
<1>1. PICK m \in Answers(inbox[c]) : Handle(c, m)
  BY DEF HandleAnswer, Handle, Answers
<1>2. /\ outbox' = [outbox EXCEPT ![c] = Tail(outbox[c])]
      /\ UNCHANGED <<serving, log>>
  BY DEF HandleAnswer, server
<1>3. Flight(c) /\ WireType /\ outbox \in [Site -> Seq(ProjectTreeOperation)]
  BY DEF TypeInv, BrowserType
<1>4. outbox[c] # <<>> /\ Answers(inbox[c]) = {m}
  BY <1>1, <1>3 DEF Flight
<1>5. Answers(inbox'[c]) = {} /\ \A d \in Site \ {c} : inbox'[d] = inbox[d]
  <2>1. Answers(inbox'[c]) = Answers(inbox[c]) \ {m} /\ \A d \in Site \ {c} : inbox'[d] = inbox[d]
    BY <1>1, <1>3, HandleType
  <2>2. QED
    BY <1>4, <2>1
<1>6. /\ outbox'[c] = Tail(outbox[c])
      /\ \A d \in Site \ {c} : outbox'[d] = outbox[d]
      /\ outbox[c] \in Seq(ProjectTreeOperation)
  BY <1>2, <1>3
<1>7. /\ DOMAIN outbox[c] = 1..Len(outbox[c]) /\ Len(outbox[c]) \in Nat
      /\ DOMAIN outbox'[c] = 1..(Len(outbox[c]) - 1)
      /\ \A i \in 1..(Len(outbox[c]) - 1) : outbox'[c][i] = outbox[c][i + 1]
  BY <1>4, <1>6
<1>8. ToSet(outbox'[c]) \subseteq ToSet(outbox[c])
  BY <1>4, <1>6, ToSetTail
<1>9. \A d \in Site : Arrived(d)' = Arrived(d)
  BY <1>2 DEF Arrived
<1>10. Queue(c)'
  <2>1. ASSUME NEW i \in DOMAIN outbox'[c], NEW j \in DOMAIN outbox'[c], i < j
        PROVE  outbox'[c][i].id.counter < outbox'[c][j].id.counter
    <3>1. i + 1 \in DOMAIN outbox[c] /\ j + 1 \in DOMAIN outbox[c] /\ i + 1 < j + 1
      BY <1>7, <2>1
    <3>2. QED
      BY <1>7, <3>1 DEF QueueInv, Queue
  <2>2. QED
    BY <1>8, <1>9, <2>1 DEF QueueInv, Queue
<1>11. Honest(c)'
  BY <1>5 DEF Honest
<1>12. \A d \in Site \ {c} : Queue(d)' /\ Honest(d)'
  BY <1>2, <1>5, <1>6, <1>9, QueueFrame, HonestFrame DEF QueueInv
<1>13. QED
  BY <1>2, <1>10, <1>11, <1>12 DEF QueueInv

LEMMA BreakQueue ==
  ASSUME TypeInv, QueueInv, NEW c \in Site, Break(c)
  PROVE  QueueInv'
<1> DEFINE cut(call) == [call EXCEPT !.live = @ /\ call.client # c]
<1>1. /\ UNCHANGED <<outbox, log>>
      /\ inbox' = [inbox EXCEPT ![c] = {}]
      /\ serving' = {cut(call) : call \in serving}
  BY DEF Break, server
<1>2. \A call \in serving : cut(call).op = call.op /\ cut(call).client = call.client
  BY DEF TypeInv, WireType, Call
<1> HIDE DEF cut
<1>3. \A d \in Site : Arrived(d)' \subseteq Arrived(d)
  BY <1>1, <1>2 DEF Arrived
<1>4. \A d \in Site : Answers(inbox'[d]) \subseteq Answers(inbox[d])
  BY <1>1 DEF TypeInv, WireType, Answers
<1>5. \A d \in Site : Queue(d)' /\ Honest(d)'
  BY <1>1, <1>3, <1>4, QueueFrame, HonestFrame DEF QueueInv
<1>6. \A x \in serving' : x.op.id.site = x.client
  BY <1>1, <1>2 DEF QueueInv
<1>7. QED
  BY <1>5, <1>6 DEF QueueInv

\* The steps that neither take an operation up nor answer one.
LEMMA OtherQueue ==
  ASSUME TypeInv, QueueInv, NEW c \in Site,
         ReadRoom(c) \/ EnterGroup(c) \/ HandleOp(c) \/ HandleRoom(c) \/ Connect(c)
  PROVE  QueueInv'
<1>1. UNCHANGED <<outbox, serving, log>>
  BY DEF ReadRoom, EnterGroup, HandleOp, HandleRoom, Connect, browser, server
<1>2. \A d \in Site : Answers(inbox'[d]) \subseteq Answers(inbox[d])
  <2>1. \A d \in Site : \A m \in inbox'[d] \ inbox[d] : m.kind # "answer"
    <3>1. CASE ReadRoom(c)
      <4>1. PICK m : m.kind = "room" /\ inbox' = [inbox EXCEPT ![c] = @ \cup {m}]
        BY <3>1 DEF ReadRoom
      <4>2. QED
        BY <4>1 DEF TypeInv, WireType
    <3>2. CASE \E m : Handle(c, m)
      BY <3>2 DEF Handle, TypeInv, WireType
    <3>3. CASE UNCHANGED inbox
      BY <3>3
    <3>4. QED
      BY <3>1, <3>2, <3>3 DEF EnterGroup, HandleOp, HandleRoom, Connect
  <2>2. QED
    BY <2>1 DEF Answers
<1>3. \A d \in Site : Queue(d)' /\ Honest(d)'
  BY <1>1, <1>2, QueueFrame, HonestFrame DEF QueueInv, Arrived
<1>4. QED
  BY <1>1, <1>3 DEF QueueInv

LEMMA QueueNext ==
  ASSUME FreshIds, TypeInv, QueueInv, [Next]_vars
  PROVE  QueueInv'
<1>1. CASE Next
  BY <1>1, ChangeTreeQueue, ReceiveCallQueue, ValidateCallQueue, AppendCallQueue,
     HandleAnswerQueue, BreakQueue, OtherQueue DEF Next
<1>2. CASE UNCHANGED vars
  <2>1. UNCHANGED <<outbox, serving, log, inbox>>
    BY <1>2 DEF vars, browser, server
  <2>2. \A d \in Site : Queue(d)' /\ Honest(d)'
    BY <2>1, QueueFrame, HonestFrame DEF QueueInv, Arrived
  <2>3. QED
    BY <2>1, <2>2 DEF QueueInv
<1>3. QED
  BY <1>1, <1>2

\* However many connections break and whatever is sent again, a change that
\* is no longer pending is logged, or its author does not show it.
THEOREM ChangesAreSavedOrRolledBack ==
  ASSUME FreshIds
  PROVE  Spec => SavedOrRolledBack
<1>1. ASSUME TypeInv, QueueInv, Next, NEW c \in Site,
             NEW op \in ToSet(outbox[c]) \ ToSet(outbox'[c])
      PROVE  op \in ToSet(log) \/ op \notin tree'[c]
  <2>1. outbox \in [Site -> Seq(ProjectTreeOperation)]
    BY <1>1 DEF TypeInv, BrowserType
  <2>2. CASE \E d \in Site : HandleAnswer(d)
    <3>1. PICK d \in Site : HandleAnswer(d)
      BY <2>2
    <3>2. outbox' = [outbox EXCEPT ![d] = Tail(outbox[d])]
      BY <3>1 DEF HandleAnswer
    <3>3. d = c
      BY <1>1, <2>1, <3>2
    <3>4. PICK m \in Answers(inbox[c]) :
            \/ m.ok
            \/ tree' = [tree EXCEPT ![c] = RolledBack(@, Head(outbox[c]))]
      BY <3>1, <3>3 DEF HandleAnswer, Handle, Answers
    <3>5. outbox[c] # <<>>
      BY <1>1, <3>4 DEF TypeInv, Flight
    <3>6. op = Head(outbox[c])
      BY <1>1, <2>1, <3>2, <3>3, <3>5, ToSetTail
    <3>7. CASE m.ok
      BY <1>1, <3>4, <3>6, <3>7 DEF QueueInv, Honest
    <3>8. CASE tree' = [tree EXCEPT ![c] = RolledBack(@, Head(outbox[c]))]
      <4>1. tree'[c] = RolledBack(tree[c], op)
        BY <1>1, <3>6, <3>8 DEF TypeInv, BrowserType
      <4>2. QED
        BY <4>1 DEF RolledBack
    <3>9. QED
      BY <3>4, <3>7, <3>8
  <2>3. CASE \E d \in Site : ChangeTree(d)
    <3> PICK d \in Site : ChangeTree(d)
      BY <2>3
    <3>1. PICK new \in Offered(d) :
            outbox' = [outbox EXCEPT ![d] = IF \E o \in ToSet(outbox[d]) : o.id = new.id
                                            THEN outbox[d] ELSE Append(outbox[d], new)]
      BY DEF ChangeTree
    <3>2. new \in ProjectTreeOperation
      BY <1>1, <3>1, OfferedType DEF TypeInv
    <3>3. ToSet(Append(outbox[d], new)) = ToSet(outbox[d]) \cup {new}
      BY <2>1, <3>2, ToSetAppend
    <3>4. ToSet(outbox[c]) \subseteq ToSet(outbox'[c])
      BY <2>1, <3>1, <3>3
    <3>5. QED
      BY <1>1, <3>4
  <2>4. CASE ~(\E d \in Site : HandleAnswer(d)) /\ ~(\E d \in Site : ChangeTree(d))
    <3>1. UNCHANGED outbox
      BY <1>1, <2>4 DEF Next, ReceiveCall, ReadRoom, EnterGroup, HandleOp, HandleRoom,
         Break, Connect, ValidateCall, AppendCall, browser
    <3>2. QED
      BY <1>1, <3>1
  <2>5. QED
    BY <2>2, <2>3, <2>4
<1>2. TypeInv /\ QueueInv /\ [Next]_vars =>
        [\A c \in Site : \A op \in ToSet(outbox[c]) \ ToSet(outbox'[c]) :
           op \in ToSet(log) \/ op \notin tree'[c]]_vars
  BY <1>1
<1>3. Spec => []QueueInv
  BY QueueInit, QueueNext, LogTypes, PTL DEF Spec
<1>4. QED
  BY <1>2, <1>3, LogTypes, PTL DEF Spec, SavedOrRolledBack

-----------------------------------------------------------------------------
(* What the trees show, always: no two operations of a tree have one           *)
(* identifier.                                                                 *)

\* Its clock is not behind what a tab made itself, and what is sent to it has
\* no identifier twice either.
TreesInv ==
  /\ \A c \in Site : UniqueIds(tree[c])
  /\ \A c \in Site : \A o \in tree[c] : o.id.site = c => o.id.counter <= clock[c]
  /\ \A c \in Site : \A m \in inbox[c] :
       m.kind = "room" => UniqueIds(m.snapshot) /\ UniqueIds(ToSet(m.history))

LEMMA TreesInit == Init => TreesInv
<1> SUFFICES ASSUME Init PROVE TreesInv
  OBVIOUS
<1>1. Start \in Seq(ProjectTreeOperation) /\ ToSet(Start) \subseteq ProjectTreeOperation
      /\ IsFiniteSet(ToSet(Start))
  BY SyncAssumption, ToSetType
<1>2. /\ log = Start
      /\ \A c \in Site : /\ inbox[c] = {} /\ clock[c] = Clock(tree[c])
                         /\ tree[c] = IF c \in Late THEN {} ELSE ToSet(Start)
  BY DEF Init
<1>3. UniqueIds(ToSet(Start))
  BY <1>2, LoggedOnceInit, LoggedIdsUnique, TypeInit
<1>4. ASSUME NEW c \in Site
      PROVE  UniqueIds(tree[c]) /\ \A o \in tree[c] : o.id.counter <= clock[c]
  <2>1. tree[c] \subseteq ToSet(Start)
    BY <1>2
  <2>2. tree[c] \in SUBSET ProjectTreeOperation /\ IsFiniteSet(tree[c])
    BY <1>1, <2>1, FS_Subset
  <2>3. \A o \in tree[c] : o.id.counter <= Clock(tree[c])
    BY <2>2, ClockType
  <2>4. QED
    BY <1>2, <1>3, <2>1, <2>3 DEF UniqueIds
<1>5. QED
  BY <1>2, <1>4 DEF TreesInv

LEMMA UniqueUnion ==
  ASSUME NEW ops, NEW more, UniqueIds(ops), UniqueIds(more), ~Conflict(ops, more)
  PROVE  UniqueIds(ops \cup more)
BY DEF UniqueIds, Conflict

\* The entries of a room have ranks.
LEMMA SeedsUnique ==
  ASSUME NEW files \in Entries, IsFiniteSet(DOMAIN files)
  PROVE  UniqueIds(fromEntries(files))
<1> DEFINE rank(e) == {d \in DOMAIN files : d <= e}
           seed(e) ==
             [kind |-> "create", id |-> [counter |-> Cardinality(rank(e)), site |-> SeedSite],
              entry |-> e, name |-> files[e].name, parent |-> files[e].parent]
<1>1. DOMAIN files \subseteq Nat
  BY ProjectTreeAssumption DEF Entries
<1>2. ASSUME NEW d \in DOMAIN files, NEW e \in DOMAIN files, d < e
      PROVE  Cardinality(rank(d)) # Cardinality(rank(e))
  <2>1. d \in Nat /\ e \in Nat /\ \A x \in Nat : x <= d => x <= e
    BY <1>1, <1>2
  <2>2. rank(d) \subseteq rank(e)
    BY <1>1, <2>1
  <2>3. e \in rank(e) /\ e \notin rank(d)
    BY <1>2, <2>1
  <2>4. IsFiniteSet(rank(e))
    BY FS_Subset
  <2> HIDE DEF rank
  <2>5. rank(d) # rank(e) /\ rank(d) \in SUBSET rank(e)
    BY <2>2, <2>3
  <2>6. QED
    BY <2>4, <2>5, FS_Subset
<1>3. \A d, e \in DOMAIN files : Cardinality(rank(d)) = Cardinality(rank(e)) => d = e
  <2> TAKE d, e \in DOMAIN files
  <2>1. d \in Nat /\ e \in Nat
    BY <1>1
  <2>2. d < e \/ e < d \/ d = e
    BY <2>1
  <2>3. QED
    BY <1>2, <2>2
<1> HIDE DEF rank
<1>4. \A e \in DOMAIN files : seed(e).id.counter = Cardinality(rank(e))
  OBVIOUS
<1>5. fromEntries(files) = {seed(e) : e \in DOMAIN files}
  BY DEF fromEntries, rank
<1> HIDE DEF seed
<1>6. QED
  BY <1>3, <1>4, <1>5 DEF UniqueIds

\* The tree of a tab after a JoinRoom.
LEMMA RoomUnique ==
  ASSUME NEW ops, UniqueIds(ops), NEW files \in Entries, IsFiniteSet(DOMAIN files),
         NEW snapshot, UniqueIds(snapshot), NEW history, UniqueIds(ToSet(history)),
         DOMAIN history \subseteq Nat, \A k \in DOMAIN history : k \in 1..k,
         NEW loaded, loaded = WithSnapshot(Reseeded(ops, files), snapshot)
  PROVE  UniqueIds(WithHistory(loaded, history))
<1>1. UniqueIds(Compact(ops))
  BY DEF UniqueIds, Compact
<1>2. UniqueIds(Reseeded(ops, files))
  BY <1>1, SeedsUnique, UniqueUnion DEF Reseeded
<1>3. UniqueIds(loaded)
  BY <1>2, UniqueUnion DEF WithSnapshot
<1> DEFINE more == {history[i] : i \in {k \in DOMAIN history :
                                        \A j \in 1..k : ~Conflict(loaded, {history[j]})}}
<1>4. more \subseteq ToSet(history) /\ \A h \in more : ~Conflict(loaded, {h})
  BY DEF ToSet
<1>5. WithHistory(loaded, history) = loaded \cup more
  BY DEF WithHistory
<1> HIDE DEF more
<1>6. UniqueIds(more) /\ ~Conflict(loaded, more)
  BY <1>4 DEF UniqueIds, Conflict
<1>7. QED
  BY <1>3, <1>5, <1>6, UniqueUnion

\* An operation leaves the trees alone, or is the tab's newest.
LEMMA ChangeTreeUnique ==
  ASSUME TypeInv, TreesInv, NEW c \in Site, ChangeTree(c)
  PROVE  TreesInv'
<1>1. PICK op \in Offered(c) :
        /\ tree' = [tree EXCEPT ![c] = @ \cup {op}]
        /\ clock' = [clock EXCEPT ![c] = op.id.counter]
  BY DEF ChangeTree
<1>2. UNCHANGED inbox
  BY DEF ChangeTree
<1>3. op \in ProjectTreeOperation /\ op.id = [counter |-> clock[c] + 1, site |-> c]
  BY OfferedType DEF TypeInv
<1>4. tree \in [Site -> SUBSET ProjectTreeOperation] /\ clock \in [Site -> Nat] /\ clock[c] \in Nat
  BY DEF TypeInv, BrowserType
<1>5. /\ tree'[c] = tree[c] \cup {op} /\ clock'[c] = clock[c] + 1
      /\ \A d \in Site \ {c} : tree'[d] = tree[d] /\ clock'[d] = clock[d]
  BY <1>1, <1>3, <1>4
<1>6. ASSUME NEW o \in tree[c], o.id.site = c
      PROVE  o.id.counter <= clock'[c] /\ o.id # op.id
  <2>1. o.id.counter \in Nat /\ o.id.counter <= clock[c]
    BY <1>4, <1>6, OperationType DEF OpId, TreesInv
  <2>2. o.id.counter <= clock[c] + 1 /\ o.id.counter # clock[c] + 1
    BY <1>4, <2>1
  <2>3. QED
    BY <1>3, <1>5, <2>2
<1>7. UniqueIds(tree'[c])
  <2>1. UniqueIds({op}) /\ ~Conflict(tree[c], {op})
    BY <1>3, <1>6 DEF UniqueIds, Conflict
  <2>2. QED
    BY <1>5, <2>1, UniqueUnion DEF TreesInv
<1>8. \A o \in tree'[c] : o.id.site = c => o.id.counter <= clock'[c]
  BY <1>3, <1>4, <1>5, <1>6
<1>9. QED
  BY <1>2, <1>5, <1>7, <1>8 DEF TreesInv

LEMMA HandleOpUnique ==
  ASSUME TypeInv, TreesInv, NEW c \in Site, HandleOp(c)
  PROVE  TreesInv'
<1>1. PICK m \in inbox[c] :
        /\ m.kind = "op"
        /\ Handle(c, m)
        /\ IF Conflict(tree[c], {m.op})
           THEN UNCHANGED <<tree, clock>>
           ELSE /\ tree' = [tree EXCEPT ![c] = @ \cup {m.op}]
                /\ clock' = [clock EXCEPT ![c] = Max({@, m.op.id.counter})]
  BY DEF HandleOp
<1>2. m.op \in ProjectTreeOperation
  BY <1>1, MessageType DEF TypeInv, WireType
<1>3. /\ tree \in [Site -> SUBSET ProjectTreeOperation] /\ clock \in [Site -> Nat]
      /\ inbox \in [Site -> SUBSET Message]
  BY DEF TypeInv, BrowserType, WireType
<1>4. \A d \in Site : inbox'[d] \subseteq inbox[d]
  BY <1>1, <1>3 DEF Handle
<1>5. CASE UNCHANGED <<tree, clock>>
  BY <1>4, <1>5 DEF TreesInv
<1>6. CASE /\ ~Conflict(tree[c], {m.op})
           /\ tree' = [tree EXCEPT ![c] = @ \cup {m.op}]
           /\ clock' = [clock EXCEPT ![c] = Max({@, m.op.id.counter})]
  <2>1. /\ tree'[c] = tree[c] \cup {m.op} /\ clock'[c] = Max({clock[c], m.op.id.counter})
        /\ \A d \in Site \ {c} : tree'[d] = tree[d] /\ clock'[d] = clock[d]
    BY <1>3, <1>6
  <2>2. UniqueIds(tree'[c])
    <3>1. UniqueIds({m.op})
      BY DEF UniqueIds
    <3>2. QED
      BY <1>6, <2>1, <3>1, UniqueUnion DEF TreesInv
  <2>3. /\ clock[c] \in Nat /\ clock'[c] \in Nat /\ clock[c] <= clock'[c]
        /\ m.op.id.counter <= clock'[c]
    <3>1. clock[c] \in Nat /\ m.op.id.counter \in Nat
      BY <1>2, <1>3, OperationType DEF OpId
    <3>2. QED
      BY <2>1, <3>1, MaxOfTwo
  <2>4. ASSUME NEW o \in tree[c], o.id.site = c PROVE o.id.counter <= clock'[c]
    <3>1. o.id.counter \in Nat /\ o.id.counter <= clock[c]
      BY <1>3, <2>4, OperationType DEF OpId, TreesInv
    <3>2. QED
      BY <2>3, <3>1
  <2>5. QED
    BY <1>4, <2>1, <2>2, <2>3, <2>4 DEF TreesInv
<1>7. QED
  BY <1>1, <1>5, <1>6

LEMMA HandleRoomUnique ==
  ASSUME TypeInv, TreesInv, NEW c \in Site, HandleRoom(c)
  PROVE  TreesInv'
<1>1. PICK m, loaded, ops :
        /\ m \in inbox[c]
        /\ m.kind = "room"
        /\ Handle(c, m)
        /\ loaded = WithSnapshot(Reseeded(tree[c], m.files), m.snapshot)
        /\ ops = WithHistory(loaded, m.history)
        /\ tree' = [tree EXCEPT ![c] = ops]
        /\ clock' = [clock EXCEPT ![c] = Clock(ops)]
  BY DEF HandleRoom
<1>2. /\ tree \in [Site -> SUBSET ProjectTreeOperation] /\ clock \in [Site -> Nat]
      /\ inbox \in [Site -> SUBSET Message]
  BY DEF TypeInv, BrowserType, WireType
<1>3. /\ m.files \in Entries /\ IsFiniteSet(DOMAIN m.files)
      /\ m.snapshot \in SUBSET ProjectTreeOperation /\ IsFiniteSet(m.snapshot)
      /\ m.history \in Seq(ProjectTreeOperation)
  BY <1>1, MessageType DEF TypeInv, WireType, Handleable
<1>4. tree[c] \in SUBSET ProjectTreeOperation /\ IsFiniteSet(tree[c])
  BY DEF TypeInv, BrowserType
<1>5. ops \in SUBSET ProjectTreeOperation /\ IsFiniteSet(ops)
  BY <1>1, <1>3, <1>4, RoomType
<1>6. \A o \in ops : o.id.counter <= Clock(ops)
  BY <1>5, ClockType
<1>7. UniqueIds(ops)
  <2>1. DOMAIN m.history \subseteq Nat /\ \A k \in DOMAIN m.history : k \in 1..k
    BY <1>3
  <2>2. UniqueIds(tree[c]) /\ UniqueIds(m.snapshot) /\ UniqueIds(ToSet(m.history))
    BY <1>1 DEF TreesInv
  <2>3. QED
    BY <1>1, <1>3, <2>1, <2>2, RoomUnique
<1>8. /\ tree'[c] = ops /\ clock'[c] = Clock(ops) /\ \A d \in Site : inbox'[d] \subseteq inbox[d]
      /\ \A d \in Site \ {c} : tree'[d] = tree[d] /\ clock'[d] = clock[d]
  BY <1>1, <1>2 DEF Handle
<1>9. QED
  BY <1>6, <1>7, <1>8 DEF TreesInv

\* The other steps of a tab take operations away, and those of the server put
\* rooms with the logged operations into the inboxes, if anything.
LEMMA OtherUnique ==
  ASSUME TreesInv, \A c \in Site : tree'[c] \subseteq tree[c], UNCHANGED clock,
         \A c \in Site : \A m \in inbox'[c] \ inbox[c] :
           m.kind = "room" => UniqueIds(m.snapshot) /\ UniqueIds(ToSet(m.history))
  PROVE  TreesInv'
BY DEF TreesInv, UniqueIds

LEMMA TreesNext ==
  ASSUME TypeInv, LoggedOnce, Compacted, TreesInv, [Next]_vars
  PROVE  TreesInv'
<1>1. inbox \in [Site -> SUBSET Message] /\ tree \in [Site -> SUBSET ProjectTreeOperation]
  BY DEF TypeInv, WireType, BrowserType
<1>2. ASSUME NEW c \in Site, ReadRoom(c) PROVE TreesInv'
  <2>1. /\ UNCHANGED <<tree, clock>>
        /\ inbox' = [inbox EXCEPT ![c] = @ \cup
             {[kind |-> "room", files |-> GetEntries(saved), snapshot |-> saved, history |-> log]}]
    BY <1>2 DEF ReadRoom, browser
  <2>2. UniqueIds(ToSet(log)) /\ UniqueIds(saved)
    BY LoggedIdsUnique DEF Compacted, Compact, UniqueIds
  <2>3. \A d \in Site : \A m \in inbox'[d] \ inbox[d] : m.snapshot = saved /\ m.history = log
    BY <1>1, <2>1
  <2>4. QED
    BY <2>1, <2>2, <2>3, OtherUnique
<1>3. ASSUME NEW c \in Site, HandleAnswer(c) PROVE TreesInv'
  <2>1. UNCHANGED clock /\ \E m : Handle(c, m)
    BY <1>3 DEF HandleAnswer
  <2>2. \A d \in Site : tree'[d] \subseteq tree[d]
    BY <1>1, <1>3 DEF HandleAnswer, RolledBack
  <2>3. \A d \in Site : inbox'[d] \subseteq inbox[d]
    BY <1>1, <2>1 DEF Handle
  <2>4. QED
    BY <2>1, <2>2, <2>3, OtherUnique
<1>4. ASSUME NEW c \in Site, EnterGroup(c) \/ Connect(c) \/ Break(c) PROVE TreesInv'
  <2>1. UNCHANGED <<tree, clock>>
    BY <1>4 DEF EnterGroup, Connect, Break, browser
  <2>2. \A d \in Site : inbox'[d] \subseteq inbox[d]
    BY <1>1, <1>4 DEF EnterGroup, Connect, Break
  <2>3. QED
    BY <2>1, <2>2, OtherUnique
<1>5. ASSUME NEW c \in Site, ReceiveCall(c) PROVE TreesInv'
  <2>1. UNCHANGED <<tree, clock>> /\ (UNCHANGED inbox
            \/ \E ok : inbox' = Answer(inbox, c, TRUE, ok))
    BY <1>5 DEF ReceiveCall, browser
  <2>2. \A d \in Site : \A m \in inbox'[d] \ inbox[d] : m.kind = "answer"
    BY <1>1, <2>1 DEF Answer
  <2>3. QED
    BY <2>1, <2>2, OtherUnique
<1>6. ASSUME NEW call \in serving, ValidateCall(call) \/ AppendCall(call) PROVE TreesInv'
  <2>1. call.client \in Site
    BY DEF TypeInv, WireType, Call
  <2>2. /\ UNCHANGED <<tree, clock>>
        /\ \/ UNCHANGED inbox
           \/ \E ok : inbox' = Answer(inbox, call.client, call.live, ok)
           \/ \E ok : inbox' = Relay(Answer(inbox, call.client, call.live, ok), call.client,
                  call.op)
    BY <1>6 DEF ValidateCall, AppendCall, browser
  <2>3. ASSUME NEW ok, NEW d \in Site, NEW m \in Answer(inbox, call.client, call.live,
               ok)[d] \ inbox[d]
        PROVE  m.kind = "answer"
    BY <1>1, <2>1, <2>3 DEF Answer
  <2>4. ASSUME NEW to, NEW d \in Site, NEW m \in Relay(to, call.client, call.op)[d] \ to[d]
        PROVE  m.kind = "op"
    BY <2>4 DEF Relay
  <2>5. \A d \in Site : \A m \in inbox'[d] \ inbox[d] : m.kind \in {"answer", "op"}
    BY <2>2, <2>3, <2>4
  <2>6. QED
    BY <2>2, <2>5, OtherUnique
<1>7. CASE UNCHANGED vars
  BY <1>7, OtherUnique DEF vars, browser
<1>8. QED
  BY <1>2, <1>3, <1>4, <1>5, <1>6, <1>7, ChangeTreeUnique, HandleOpUnique, HandleRoomUnique DEF Next

LEMMA AlwaysTrees == Spec => []TreesInv
<1>1. Spec => []Compacted
  BY CompactedInit, CompactedStep, LogTypes, PTL DEF Spec
<1>2. QED
  BY <1>1, TreesInit, TreesNext, LogTypes, AlwaysLoggedOnce, PTL DEF Spec

\* Whatever concurrent moves, deletions, rollbacks and lost connections a tab has
\* seen, what it shows is a forest.
THEOREM TabsAlwaysShowForests == Spec => []ShowsForest
<1>1. ASSUME TypeInv, TreesInv, NEW c \in Site,
             NEW shown, shown = getEntries(tree[c]),
             NEW up, up = [e \in DOMAIN shown |-> shown[e].parent],
             NEW e \in DOMAIN shown
      PROVE  /\ up[e] = NoParent \/ up[e] \in DOMAIN shown \cap Folder
             /\ e \notin Above(up, e)
  <2>1. tree[c] \in SUBSET ProjectTreeOperation /\ IsFiniteSet(tree[c]) /\ UniqueIds(tree[c])
    BY <1>1 DEF TypeInv, BrowserType, TreesInv
  <2>2. QED
    BY <1>1, <2>1, EntriesAreForest
<1>2. TypeInv /\ TreesInv => ShowsForest
  BY <1>1 DEF ShowsForest
<1>3. QED
  BY <1>2, AlwaysTrees, LogTypes, PTL

-----------------------------------------------------------------------------
(* What the others made arrives, if no tab makes an identifier twice and      *)
(* nothing is appended while a JoinRoom is under way.                         *)

\* The operations of c that it or the server knows.
Own(c) ==
  {o \in tree[c] \cup ToSet(outbox[c]) \cup ToSet(log) \cup {call.op : call \in serving} :
     o.id.site = c}

Rooms(box) == {m \in box : m.kind = "room"}

\* c has op or will: it is sent to c, or it is in the rooms c will load or,
\* if there is none, in its tree.
Coming(c, op) ==
  \/ [kind |-> "op", op |-> op] \in inbox[c]
  \/ /\ Rooms(inbox[c]) # {}
     /\ \A m \in Rooms(inbox[c]) : op \in ToSet(m.history)
  \/ Rooms(inbox[c]) = {} /\ op \in tree[c]

\* A tree has operations of its tab, those of the log, and seeds.
TreesKnown ==
  \A c \in Site : \A o \in tree[c] : o.id.site \in {c, SeedSite} \/ o \in ToSet(log)

\* What the server sends is logged.
SentLogged ==
  \A c \in Site : \A m \in inbox[c] :
    /\ m.kind = "op" => m.op \in ToSet(log)
    /\ m.kind = "room" => m.snapshot \cup ToSet(m.history) \subseteq ToSet(log)

\* The log of the room is all on its way to a tab that joins or has joined.
Delivered ==
  \A c \in Site : link[c] \in {"entering", "joined"} =>
    \A op \in ToSet(log) : op.id.site # c => Coming(c, op)

DeliveryInv ==
  /\ TreesKnown /\ SentLogged /\ Delivered
  /\ \A c \in Site : UniqueIds(Own(c))
  /\ \A o \in ToSet(log) : o.id.site \in Site
  /\ \A c \in Site : link[c] \in {"new", "joining", "down"} => Rooms(inbox[c]) = {}

LEMMA DeliveryInit == Init => DeliveryInv
<1> SUFFICES ASSUME Init PROVE DeliveryInv
  OBVIOUS
<1>1. Start \in Seq(ProjectTreeOperation) /\ ToSet(Start) \subseteq ProjectTreeOperation
      /\ IsFiniteSet(ToSet(Start))
  BY SyncAssumption, ToSetType
<1>2. /\ log = Start /\ serving = {}
      /\ \A c \in Site : /\ outbox[c] = <<>> /\ inbox[c] = {}
                         /\ tree[c] = IF c \in Late THEN {} ELSE ToSet(Start)
                         /\ link[c] = IF c \in Late THEN "new" ELSE "joined"
  BY DEF Init
<1>3. ToSet(<<>>) = {}
  BY DEF ToSet
<1>4. \A c \in Site : tree[c] \subseteq ToSet(Start)
  BY <1>2
<1>5. \A c \in Site : Own(c) \subseteq ToSet(Start)
  BY <1>2, <1>3, <1>4 DEF Own
<1>6. UniqueIds(ToSet(Start))
  BY <1>2, LoggedOnceInit, LoggedIdsUnique, TypeInit
<1>7. \A c \in Site : UniqueIds(Own(c))
  BY <1>5, <1>6 DEF UniqueIds
<1>8. \A o \in ToSet(log) : o.id.site \in Site
  BY <1>2, SyncAssumption DEF ToSet
<1>10. TreesKnown
  BY <1>2, <1>4 DEF TreesKnown
<1>11. SentLogged
  BY <1>2 DEF SentLogged
<1>12. Delivered
  BY <1>2 DEF Delivered, Coming, Rooms
<1>13. QED
  BY <1>2, <1>7, <1>8, <1>10, <1>11, <1>12 DEF DeliveryInv, Rooms

\* Two operations of which one is logged and the other is in the tree of c, or
\* logged, or a seed, are the same if they have the same identifier.
LEMMA LoggedAgrees ==
  ASSUME TypeInv, LoggedOnce, DeliveryInv, NEW c \in Site, NEW h \in ToSet(log),
         NEW o, o \in tree[c] \/ o \in ToSet(log) \/ o.id.site = SeedSite,
         o.id = h.id
  PROVE  o = h
<1>1. UniqueIds(ToSet(log))
  BY LoggedIdsUnique
<1>2. h.id.site \in Site /\ SeedSite \notin Site
  BY ProjectTreeAssumption DEF DeliveryInv
<1>3. CASE o \in ToSet(log)
  BY <1>1, <1>3 DEF UniqueIds
<1>4. CASE o \in tree[c] /\ o.id.site = c
  <2>1. o \in Own(c) /\ h \in Own(c)
    BY <1>4 DEF Own
  <2>2. QED
    BY <2>1 DEF DeliveryInv, UniqueIds
<1>5. QED
  BY <1>2, <1>3, <1>4 DEF DeliveryInv, TreesKnown

\* Own operations do not come from elsewhere.
LEMMA OwnFrame ==
  ASSUME DeliveryInv, NEW c \in Site, Own(c)' \subseteq Own(c)
  PROVE  UniqueIds(Own(c))'
BY DEF DeliveryInv, UniqueIds

LEMMA ChangeTreeDelivery ==
  ASSUME FreshIds, TypeInv, TreesInv, DeliveryInv, NEW c \in Site, ChangeTree(c)
  PROVE  DeliveryInv'
<1>1. PICK op \in Offered(c) :
        /\ tree' = [tree EXCEPT ![c] = @ \cup {op}]
        /\ outbox' = [outbox EXCEPT ![c] = IF \E o \in ToSet(outbox[c]) : o.id = op.id
                                           THEN outbox[c] ELSE Append(outbox[c], op)]
  BY DEF ChangeTree
<1>2. /\ UNCHANGED <<link, inbox, serving, log, saved>>
      /\ \A o \in Sent(c) : o.id.counter <= clock[c]
  BY DEF ChangeTree, server
<1>3. op \in ProjectTreeOperation /\ op.id = [counter |-> clock[c] + 1, site |-> c]
  BY OfferedType DEF TypeInv
<1>4. /\ tree \in [Site -> SUBSET ProjectTreeOperation] /\ clock \in [Site -> Nat]
      /\ outbox \in [Site -> Seq(ProjectTreeOperation)] /\ clock[c] \in Nat
  BY DEF TypeInv, BrowserType
<1>5. /\ tree'[c] = tree[c] \cup {op}
      /\ \A d \in Site \ {c} : tree'[d] = tree[d] /\ outbox'[d] = outbox[d]
  BY <1>1, <1>4
<1>6. ToSet(outbox'[c]) \subseteq ToSet(outbox[c]) \cup {op}
  <2>1. ToSet(Append(outbox[c], op)) = ToSet(outbox[c]) \cup {op}
    BY <1>3, <1>4, ToSetAppend
  <2>2. QED
    BY <1>1, <1>4, <2>1
<1>7. ASSUME NEW d \in Site PROVE UniqueIds(Own(d))'
  <2>1. CASE d # c
    BY <1>2, <1>5, <2>1, OwnFrame DEF Own
  <2>2. CASE d = c
    <3>1. Own(c)' \subseteq Own(c) \cup {op}
      BY <1>2, <1>5, <1>6 DEF Own
    <3>2. \A o \in Own(c) : o.id # op.id
      <4>1. \A o \in Own(c) : o \in Sent(c) \/ (o \in tree[c] /\ o.id.site = c)
        BY DEF Own, Sent
      <4>2. \A o \in Own(c) : o.id.counter <= clock[c]
        BY <1>2, <4>1 DEF TreesInv
      <4>3. op.id.counter = clock[c] + 1 /\ ~(clock[c] + 1 <= clock[c])
        BY <1>3, <1>4
      <4>4. QED
        BY <4>2, <4>3
    <3>3. UniqueIds(Own(c))
      BY DEF DeliveryInv
    <3>4. QED
      BY <2>2, <3>1, <3>2, <3>3 DEF UniqueIds
  <2>3. QED
    BY <2>1, <2>2
<1>8. TreesKnown'
  BY <1>2, <1>3, <1>5 DEF DeliveryInv, TreesKnown
<1>9. \A d \in Site : tree[d] \subseteq tree'[d]
  BY <1>5
<1>10. SentLogged' /\ Delivered'
  BY <1>2, <1>9 DEF DeliveryInv, SentLogged, Delivered, Coming, Rooms
<1>11. QED
  BY <1>2, <1>7, <1>8, <1>10 DEF DeliveryInv, Rooms

\* The server answers, and logs nothing.
LEMMA ServeDelivery ==
  ASSUME TypeInv, DeliveryInv,
         UNCHANGED <<tree, outbox, link, log>>,
         {call.op : call \in serving'} \subseteq {call.op : call \in serving} \cup
           UNION {ToSet(outbox[c]) : c \in {d \in Site :
               \A o \in ToSet(outbox[d]) : o.id.site = d}},
         \A c \in Site : /\ inbox[c] \subseteq inbox'[c]
                         /\ \A m \in inbox'[c] \ inbox[c] : m.kind = "answer"
  PROVE  DeliveryInv'
<1>1. \A c \in Site : Own(c)' \subseteq Own(c)
  BY DEF Own
<1>2. \A c \in Site : UniqueIds(Own(c))'
  BY <1>1, OwnFrame
<1>3. \A c \in Site : Rooms(inbox'[c]) = Rooms(inbox[c])
  BY DEF Rooms
<1>4. \A c \in Site : \A op : Coming(c, op) => Coming(c, op)'
  BY <1>3 DEF Coming
<1>5. TreesKnown' /\ SentLogged' /\ Delivered'
  BY <1>4 DEF DeliveryInv, TreesKnown, SentLogged, Delivered
<1>6. QED
  BY <1>2, <1>3, <1>5 DEF DeliveryInv

LEMMA ReceiveCallDelivery ==
  ASSUME TypeInv, QueueInv, DeliveryInv, NEW c \in Site, ReceiveCall(c)
  PROVE  DeliveryInv'
<1>1. PICK op \in uplink[c] :
        \/ /\ serving' = serving \cup
                 {[client |-> c, op |-> op, valid |-> FALSE, live |-> TRUE]}
           /\ UNCHANGED inbox
        \/ /\ \E ok : inbox' = Answer(inbox, c, TRUE, ok)
           /\ UNCHANGED serving
  BY DEF ReceiveCall
<1>2. UNCHANGED <<tree, outbox, link, log>>
  BY DEF ReceiveCall, browser, server
<1>3. op \in ToSet(outbox[c]) /\ \A o \in ToSet(outbox[c]) : o.id.site = c
  <2>1. uplink[c] = {Head(outbox[c])} /\ outbox[c] # <<>> /\ outbox[c] \in Seq(ProjectTreeOperation)
    BY DEF TypeInv, Flight, BrowserType
  <2>2. QED
    BY <1>1, <2>1, ToSetTail DEF QueueInv, Queue
<1>4. \A call \in serving' : call \in serving \/ call.op = op
  <2> DEFINE new == [client |-> c, op |-> op, valid |-> FALSE, live |-> TRUE]
  <2>1. new.op = op /\ serving' \subseteq serving \cup {new}
    BY <1>1
  <2> HIDE DEF new
  <2>2. QED
    BY <2>1
<1>5. \A d \in Site : /\ inbox[d] \subseteq inbox'[d]
                      /\ \A m \in inbox'[d] \ inbox[d] : m.kind = "answer"
  BY <1>1 DEF Answer, TypeInv, WireType
<1>6. {call.op : call \in serving'} \subseteq {call.op : call \in serving} \cup
           UNION {ToSet(outbox[e]) : e \in {d \in Site : \A o \in ToSet(outbox[d]) : o.id.site = d}}
  BY <1>3, <1>4
<1>7. QED
  BY <1>2, <1>5, <1>6, ServeDelivery

LEMMA ValidateCallDelivery ==
  ASSUME TypeInv, DeliveryInv, NEW call \in serving, ValidateCall(call)
  PROVE  DeliveryInv'
<1> DEFINE c == call.client
<1>1. /\ UNCHANGED <<tree, outbox, link, log>>
      /\ \/ serving' = (serving \ {call}) \cup {[call EXCEPT !.valid = TRUE]} /\ UNCHANGED inbox
         \/ serving' = serving \ {call} /\ inbox' = Answer(inbox, c, call.live, FALSE)
  BY DEF ValidateCall, browser, server
<1>2. call \in Call
  BY DEF TypeInv, WireType
<1>3. [call EXCEPT !.valid = TRUE].op = call.op
  BY <1>2 DEF Call
<1>4. {x.op : x \in serving'} \subseteq {x.op : x \in serving}
  BY <1>1, <1>3
<1>5. \A d \in Site : /\ inbox[d] \subseteq inbox'[d]
                      /\ \A m \in inbox'[d] \ inbox[d] : m.kind = "answer"
  BY <1>1 DEF Answer, TypeInv, WireType
<1>6. QED
  BY <1>1, <1>4, <1>5, ServeDelivery

LEMMA AppendCallDelivery ==
  ASSUME CalmJoins, TypeInv, QueueInv, DeliveryInv, NEW call \in serving, AppendCall(call)
  PROVE  DeliveryInv'
<1> DEFINE c == call.client
           op == call.op
           message == [kind |-> "op", op |-> op]
           answered == Answer(inbox, c, call.live, Verdict(op) # "refused")
<1>1. /\ UNCHANGED <<tree, outbox, link>>
      /\ serving' = serving \ {call}
      /\ \A d \in Site : link[d] # "entering"
      /\ \/ inbox' = answered /\ UNCHANGED log
         \/ inbox' = Relay(answered, c, op) /\ log' = Append(log, op)
  BY DEF AppendCall, browser, server
<1>2. /\ c \in Site /\ op \in ProjectTreeOperation /\ op.id.site = c
      /\ log \in Seq(ProjectTreeOperation) /\ inbox \in [Site -> SUBSET Message]
  BY DEF TypeInv, WireType, ServerType, Call, QueueInv
<1>3. \A d \in Site : /\ inbox[d] \subseteq answered[d]
                      /\ \A m \in answered[d] \ inbox[d] : m.kind = "answer"
  BY <1>2 DEF Answer
<1>4. CASE inbox' = answered /\ UNCHANGED log
  <2>1. {x.op : x \in serving'} \subseteq {x.op : x \in serving}
    BY <1>1
  <2> HIDE DEF answered
  <2>2. QED
    BY <1>1, <1>3, <1>4, <2>1, ServeDelivery
<1>5. CASE inbox' = Relay(answered, c, op) /\ log' = Append(log, op)
  <2> HIDE DEF answered
  <2>1. ToSet(log') = ToSet(log) \cup {op}
    BY <1>2, <1>5, ToSetAppend
  <2>2. \A d \in Site : inbox'[d] = IF d # c /\ link[d] = "joined"
                                    THEN answered[d] \cup {message} ELSE answered[d]
    BY <1>5 DEF Relay
  <2>3. message.kind = "op" /\ message.op = op
    OBVIOUS
  <2> HIDE DEF message
  <2>4. \A d \in Site : Rooms(inbox'[d]) = Rooms(inbox[d]) /\ inbox[d] \subseteq inbox'[d]
    BY <1>3, <2>2, <2>3 DEF Rooms
  <2>5. \A d \in Site : Own(d)' \subseteq Own(d)
    BY <1>1, <2>1 DEF Own
  <2>6. \A d \in Site : \A o : Coming(d, o) => Coming(d, o)'
    BY <1>1, <2>4 DEF Coming
  <2>7. \A d \in Site \ {c} : link[d] = "joined" => Coming(d, op)'
    BY <2>2 DEF Coming, message
  <2>8. Delivered'
    BY <1>1, <1>2, <2>1, <2>6, <2>7 DEF DeliveryInv, Delivered
  <2>9. TreesKnown'
    BY <1>1, <2>1 DEF DeliveryInv, TreesKnown
  <2>10. SentLogged'
    <3>1. ASSUME NEW d \in Site, NEW m \in inbox'[d]
          PROVE  m \in inbox[d] \/ m.kind = "answer" \/ m = message
      BY <1>3, <2>2, <3>1
    <3>2. QED
      BY <2>1, <2>3, <3>1 DEF DeliveryInv, SentLogged
  <2>11. QED
    BY <1>1, <1>2, <2>1, <2>4, <2>5, <2>8, <2>9, <2>10, OwnFrame DEF DeliveryInv
<1>6. QED
  BY <1>1, <1>4, <1>5

LEMMA JoinDelivery ==
  ASSUME TypeInv, DeliveryInv, Compacted, NEW c \in Site, ReadRoom(c) \/ EnterGroup(c) \/ Connect(c)
  PROVE  DeliveryInv'
<1>1. UNCHANGED <<tree, outbox, serving, log>>
  BY DEF ReadRoom, EnterGroup, Connect, browser, server
<1>2. link \in [Site -> Link] /\ inbox \in [Site -> SUBSET Message]
  BY DEF TypeInv, BrowserType, WireType
<1>3. \A d \in Site : Own(d)' = Own(d)
  BY <1>1 DEF Own
<1>4. TreesKnown'
  BY <1>1 DEF DeliveryInv, TreesKnown
<1>5. CASE ReadRoom(c)
  <2> DEFINE room == [kind |-> "room", files |-> GetEntries(saved), snapshot |-> saved,
          history |-> log]
  <2>1. /\ link[c] = "joining" /\ link' = [link EXCEPT ![c] = "entering"]
        /\ inbox' = [inbox EXCEPT ![c] = @ \cup {room}]
    BY <1>5 DEF ReadRoom
  <2>2. room.kind = "room" /\ room.snapshot = saved /\ room.history = log
    OBVIOUS
  <2> HIDE DEF room
  <2>3. /\ inbox'[c] = inbox[c] \cup {room} /\ link'[c] = "entering"
        /\ \A d \in Site \ {c} : inbox'[d] = inbox[d] /\ link'[d] = link[d]
    BY <1>2, <2>1
  <2>4. Rooms(inbox'[c]) = {room}
    BY <2>1, <2>2, <2>3 DEF DeliveryInv, Rooms
  <2>5. saved \subseteq ToSet(log)
    BY DEF Compacted, Compact
  <2>6. SentLogged'
    BY <1>1, <2>2, <2>3, <2>5 DEF DeliveryInv, SentLogged
  <2>7. \A o \in ToSet(log) : Coming(c, o)'
    BY <1>1, <2>2, <2>4 DEF Coming
  <2>8. \A d \in Site \ {c} : \A o : Coming(d, o) => Coming(d, o)'
    BY <1>1, <2>3 DEF Coming
  <2>9. Delivered'
    BY <1>1, <2>3, <2>7, <2>8 DEF DeliveryInv, Delivered
  <2>10. QED
    BY <1>1, <1>3, <1>4, <2>3, <2>6, <2>9, OwnFrame DEF DeliveryInv
<1>6. CASE EnterGroup(c) \/ Connect(c)
  <2>1. /\ UNCHANGED inbox
        /\ \A d \in Site : \/ link'[d] = link[d]
                          \/ (link[d] = "entering" /\ link'[d] = "joined")
                          \/ (link[d] \in {"new", "down"} /\ link'[d] = "joining")
    <3>1. CASE EnterGroup(c)
      BY <1>2, <3>1 DEF EnterGroup
    <3>2. CASE Connect(c)
      BY <1>2, <3>2 DEF Connect
    <3>3. QED
      BY <1>6, <3>1, <3>2
  <2>2. SentLogged'
    BY <1>1, <2>1 DEF DeliveryInv, SentLogged
  <2>3. Delivered'
    BY <1>1, <2>1 DEF DeliveryInv, Delivered, Coming
  <2>4. QED
    BY <1>1, <1>3, <1>4, <2>1, <2>2, <2>3, OwnFrame DEF DeliveryInv
<1>7. QED
  BY <1>5, <1>6

LEMMA HandleOpDelivery ==
  ASSUME TypeInv, LoggedOnce, DeliveryInv, NEW c \in Site, HandleOp(c)
  PROVE  DeliveryInv'
<1>1. PICK m \in inbox[c] :
        /\ m.kind = "op"
        /\ Handle(c, m)
        /\ IF Conflict(tree[c], {m.op})
           THEN UNCHANGED tree
           ELSE tree' = [tree EXCEPT ![c] = @ \cup {m.op}]
  BY DEF HandleOp
<1>2. UNCHANGED <<outbox, link, serving, log>>
  BY DEF HandleOp, server
<1>3. m.op \in ToSet(log)
  BY <1>1 DEF DeliveryInv, SentLogged
<1>4. ~Conflict(tree[c], {m.op})
  BY <1>3, LoggedAgrees DEF Conflict
<1>5. tree \in [Site -> SUBSET ProjectTreeOperation] /\ inbox \in [Site -> SUBSET Message]
  BY DEF TypeInv, BrowserType, WireType
<1>6. /\ tree'[c] = tree[c] \cup {m.op} /\ inbox'[c] = inbox[c] \ {m}
      /\ \A d \in Site \ {c} : tree'[d] = tree[d] /\ inbox'[d] = inbox[d]
  BY <1>1, <1>4, <1>5 DEF Handle
<1>7. Rooms(inbox[c]) = {} /\ \A d \in Site : Rooms(inbox'[d]) = Rooms(inbox[d])
  BY <1>1, <1>6 DEF Handle, Rooms
<1>8. \A d \in Site : Own(d)' \subseteq Own(d)
  BY <1>2, <1>3, <1>6 DEF Own
<1>9. TreesKnown'
  BY <1>2, <1>3, <1>6 DEF DeliveryInv, TreesKnown
<1>10. SentLogged'
  BY <1>2, <1>6 DEF DeliveryInv, SentLogged
<1>11. Delivered'
  <2>1. ASSUME NEW d \in Site, NEW o, Coming(d, o) PROVE Coming(d, o)'
    <3>1. CASE d # c
      BY <1>6, <2>1, <3>1 DEF Coming
    <3>2. CASE d = c /\ [kind |-> "op", op |-> o] = m
      <4>1. o = m.op
        BY <3>2
      <4>2. QED
        BY <1>6, <1>7, <3>2, <4>1 DEF Coming
    <3>3. CASE d = c /\ [kind |-> "op", op |-> o] # m
      BY <1>6, <1>7, <2>1, <3>3 DEF Coming
    <3>4. QED
      BY <3>1, <3>2, <3>3
  <2>2. QED
    BY <1>2, <2>1 DEF DeliveryInv, Delivered
<1>12. QED
  BY <1>2, <1>7, <1>8, <1>9, <1>10, <1>11, OwnFrame DEF DeliveryInv

\* A seed has the site of seeds.
LEMMA SeedsSite ==
  ASSUME NEW files
  PROVE  \A o \in fromEntries(files) : o.id.site = SeedSite
<1>1. ASSUME NEW o \in fromEntries(files) PROVE o.id.site = SeedSite
  <2>1. PICK e \in DOMAIN files :
          o = [kind |-> "create",
               id |-> [counter |-> Cardinality({d \in DOMAIN files : d <= e}), site |-> SeedSite],
               entry |-> e, name |-> files[e].name, parent |-> files[e].parent]
    BY DEF fromEntries
  <2>2. QED
    BY <2>1
<1>2. QED
  BY <1>1

LEMMA HandleRoomDelivery ==
  ASSUME TypeInv, LoggedOnce, DeliveryInv, NEW c \in Site, HandleRoom(c)
  PROVE  DeliveryInv'
<1>1. PICK m, loaded, ops :
        /\ m \in inbox[c]
        /\ m.kind = "room"
        /\ Handle(c, m)
        /\ loaded = WithSnapshot(Reseeded(tree[c], m.files), m.snapshot)
        /\ ops = WithHistory(loaded, m.history)
        /\ tree' = [tree EXCEPT ![c] = ops]
  BY DEF HandleRoom
<1>2. UNCHANGED <<outbox, link, serving, log>>
  BY DEF HandleRoom, server
<1>3. tree \in [Site -> SUBSET ProjectTreeOperation] /\ inbox \in [Site -> SUBSET Message]
  BY DEF TypeInv, BrowserType, WireType
<1>4. /\ m.history \in Seq(ProjectTreeOperation)
      /\ m.snapshot \subseteq ToSet(log) /\ ToSet(m.history) \subseteq ToSet(log)
  BY <1>1, MessageType DEF TypeInv, WireType, DeliveryInv, SentLogged
<1>5. \A o \in loaded : o \in tree[c] \/ o \in ToSet(log) \/ o.id.site = SeedSite
  BY <1>1, <1>4, SeedsSite DEF WithSnapshot, Reseeded, Compact
<1>6. \A i \in DOMAIN m.history : ~Conflict(loaded, {m.history[i]})
  <2>1. ASSUME NEW h \in ToSet(log) PROVE ~Conflict(loaded, {h})
    BY <1>5, LoggedAgrees DEF Conflict
  <2>2. QED
    BY <1>4, <2>1 DEF ToSet
<1>7. ops = loaded \cup ToSet(m.history)
  <2>1. /\ DOMAIN m.history = 1..Len(m.history) /\ Len(m.history) \in Nat
        /\ \A k \in DOMAIN m.history : 1..k \subseteq DOMAIN m.history
    BY <1>4
  <2>2. {k \in DOMAIN m.history : \A j \in 1..k : ~Conflict(loaded, {m.history[j]})}
          = DOMAIN m.history
    BY <1>6, <2>1
  <2>3. QED
    BY <1>1, <2>2 DEF WithHistory, ToSet
<1>8. /\ tree'[c] = ops /\ inbox'[c] = inbox[c] \ {m}
       /\ \A d \in Site \ {c} : tree'[d] = tree[d] /\ inbox'[d] = inbox[d]
  BY <1>1, <1>3 DEF Handle
<1>9. \A o \in ops : o \in tree[c] \/ o \in ToSet(log) \/ o.id.site = SeedSite
  BY <1>4, <1>5, <1>7
<1>10. \A d \in Site : Own(d)' \subseteq Own(d)
  <2>1. SeedSite \notin Site
    BY ProjectTreeAssumption
  <2>2. QED
    BY <1>2, <1>8, <1>9, <2>1 DEF Own
<1>11. TreesKnown'
  BY <1>2, <1>8, <1>9 DEF DeliveryInv, TreesKnown
<1>12. SentLogged'
  BY <1>2, <1>8 DEF DeliveryInv, SentLogged
<1>13. Delivered'
  <2>1. ASSUME NEW d \in Site, NEW o, Coming(d, o) PROVE Coming(d, o)'
    <3>1. CASE d # c
      BY <1>8, <2>1, <3>1 DEF Coming
    <3>2. CASE d = c /\ [kind |-> "op", op |-> o] \in inbox[c]
      BY <1>1, <1>8, <3>2 DEF Coming
    <3>3. CASE d = c /\ [kind |-> "op", op |-> o] \notin inbox[c]
      <4>1. m \in Rooms(inbox[c]) /\ Rooms(inbox'[c]) = Rooms(inbox[c]) \ {m}
        BY <1>1, <1>8 DEF Rooms
      <4>2. \A n \in Rooms(inbox[c]) : o \in ToSet(n.history)
        BY <2>1, <3>3, <4>1 DEF Coming
      <4>3. o \in tree'[c]
        BY <1>7, <1>8, <4>1, <4>2
      <4>4. QED
        BY <3>3, <4>1, <4>2, <4>3 DEF Coming
    <3>4. QED
      BY <3>1, <3>2, <3>3
  <2>2. QED
    BY <1>2, <2>1 DEF DeliveryInv, Delivered
<1>14. \A d \in Site : Rooms(inbox'[d]) \subseteq Rooms(inbox[d])
  BY <1>8 DEF Rooms
<1>15. QED
  BY <1>2, <1>10, <1>11, <1>12, <1>13, <1>14, OwnFrame DEF DeliveryInv

LEMMA HandleAnswerDelivery ==
  ASSUME TypeInv, QueueInv, DeliveryInv, NEW c \in Site, HandleAnswer(c)
  PROVE  DeliveryInv'
<1> DEFINE op == Head(outbox[c])
<1>1. PICK m : /\ m.kind = "answer" /\ Handle(c, m)
               /\ \/ UNCHANGED <<tree, link>>
                  \/ /\ tree' = [tree EXCEPT ![c] = RolledBack(@, op)]
                     /\ link' = [link EXCEPT ![c] = IF resync[c] THEN "stopped" ELSE @]
  BY DEF HandleAnswer
<1>2. /\ UNCHANGED <<serving, log>>
      /\ outbox' = [outbox EXCEPT ![c] = Tail(outbox[c])]
  BY DEF HandleAnswer, server
<1>3. /\ tree \in [Site -> SUBSET ProjectTreeOperation]
      /\ inbox \in [Site -> SUBSET Message] /\ link \in [Site -> Link]
      /\ outbox \in [Site -> Seq(ProjectTreeOperation)]
  BY DEF TypeInv, BrowserType, WireType
<1>4. /\ inbox'[c] = inbox[c] \ {m} /\ m \in inbox[c]
      /\ \A d \in Site \ {c} : inbox'[d] = inbox[d]
  BY <1>1, <1>3 DEF Handle
<1>5. op.id.site = c /\ ToSet(Tail(outbox[c])) \subseteq ToSet(outbox[c])
  <2>1. outbox[c] # <<>>
    BY <1>1, <1>4 DEF TypeInv, Flight, Answers
  <2>2. QED
    BY <1>3, <2>1, ToSetTail DEF QueueInv, Queue
<1> HIDE DEF op
<1>6. \A d \in Site : /\ tree'[d] \subseteq tree[d]
                      /\ \A o \in tree[d] \ tree'[d] : o.id.site = d
                      /\ link'[d] = link[d] \/ link'[d] = "stopped"
                      /\ ToSet(outbox'[d]) \subseteq ToSet(outbox[d])
  BY <1>1, <1>2, <1>3, <1>5 DEF RolledBack
<1>7. \A d \in Site : Own(d)' \subseteq Own(d)
  BY <1>2, <1>6 DEF Own
<1>8. \A d \in Site : Rooms(inbox'[d]) = Rooms(inbox[d])
  BY <1>1, <1>4 DEF Rooms
<1>9. \A d \in Site : \A o : o.id.site # d /\ Coming(d, o) => Coming(d, o)'
  <2>1. \A o : [kind |-> "op", op |-> o] # m
    BY <1>1
  <2>2. QED
    BY <1>4, <1>6, <1>8, <2>1 DEF Coming
<1>10. TreesKnown' /\ SentLogged'
  BY <1>2, <1>4, <1>6 DEF DeliveryInv, TreesKnown, SentLogged
<1>11. Delivered'
  BY <1>2, <1>6, <1>9 DEF DeliveryInv, Delivered
<1>12. QED
  BY <1>2, <1>6, <1>7, <1>8, <1>10, <1>11, OwnFrame DEF DeliveryInv

LEMMA BreakDelivery ==
  ASSUME TypeInv, DeliveryInv, NEW c \in Site, Break(c)
  PROVE  DeliveryInv'
<1>1. /\ UNCHANGED <<tree, outbox, log>>
      /\ link' = [link EXCEPT ![c] = IF @ # "joined" \/ resync[c] THEN "stopped" ELSE "down"]
      /\ inbox' = [inbox EXCEPT ![c] = {}]
      /\ serving' = {[call EXCEPT !.live = @ /\ call.client # c] : call \in serving}
  BY DEF Break, server
<1>2. link \in [Site -> Link] /\ inbox \in [Site -> SUBSET Message] /\ serving \subseteq Call
  BY DEF TypeInv, BrowserType, WireType
<1> DEFINE cut(call) == [call EXCEPT !.live = @ /\ call.client # c]
<1>3. serving' = {cut(call) : call \in serving} /\ \A call \in serving : cut(call).op = call.op
  BY <1>1, <1>2 DEF Call
<1>4. {call.op : call \in serving'} = {call.op : call \in serving}
  <2> HIDE DEF cut
  <2>1. QED
    BY <1>3
<1>5. \A d \in Site : Own(d)' = Own(d)
  BY <1>1, <1>4 DEF Own
<1>6. /\ inbox'[c] = {} /\ link'[c] \in {"stopped", "down"}
      /\ \A d \in Site \ {c} : inbox'[d] = inbox[d] /\ link'[d] = link[d]
  BY <1>1, <1>2
<1>7. TreesKnown' /\ SentLogged'
  BY <1>1, <1>6 DEF DeliveryInv, TreesKnown, SentLogged
<1>8. Delivered'
  BY <1>1, <1>6 DEF DeliveryInv, Delivered, Coming
<1>9. QED
  BY <1>1, <1>5, <1>6, <1>7, <1>8, OwnFrame DEF DeliveryInv, Rooms

LEMMA DeliveryNext ==
  ASSUME FreshIds, CalmJoins, TypeInv, LoggedOnce, Compacted, QueueInv, TreesInv, DeliveryInv,
         [Next]_vars
  PROVE  DeliveryInv'
<1>1. CASE Next
  BY <1>1, ChangeTreeDelivery, ReceiveCallDelivery, ValidateCallDelivery, AppendCallDelivery,
     JoinDelivery, HandleOpDelivery, HandleRoomDelivery, HandleAnswerDelivery,
     BreakDelivery DEF Next
<1>2. CASE UNCHANGED vars
  <2>1. UNCHANGED <<tree, outbox, link, log, serving, inbox>>
    BY <1>2 DEF vars, browser, server
  <2>2. QED
    BY <2>1, ServeDelivery
<1>3. QED
  BY <1>1, <1>2

\* Whatever breaks and is sent again, a joined tab that has handled what was
\* sent to it has every change that others made and the server accepted.
THEOREM ForeignChangesAlwaysArrive ==
  ASSUME FreshIds, CalmJoins
  PROVE  Spec => []ForeignChangesArrive
<1>1. DeliveryInv => ForeignChangesArrive
  BY DEF DeliveryInv, Delivered, Coming, Rooms, ForeignChangesArrive
<1>2. Spec => []QueueInv
  BY QueueInit, QueueNext, LogTypes, PTL DEF Spec
<1>3. Spec => []Compacted
  BY CompactedInit, CompactedStep, LogTypes, PTL DEF Spec
<1>4. Spec => []DeliveryInv
  BY <1>2, <1>3, DeliveryInit, DeliveryNext, LogTypes, AlwaysLoggedOnce, AlwaysTrees, PTL DEF Spec
<1>5. QED
  BY <1>1, <1>4, PTL
=============================================================================
