-------------------------- MODULE ProjectTreeProofs --------------------------
(***************************************************************************)
(* Facts about the operators of ProjectTree, for every set of sites and    *)
(* entries and every finite set of operations.  The main one is            *)
(* CompactShowsTheSame: compaction changes neither what a tab shows nor    *)
(* what the server lists, and CompactOneMore: compacting again at every    *)
(* append gives what compacting the whole history would.                   *)
(***************************************************************************)
EXTENDS ProjectTree, FiniteSetTheorems, WellFoundedInduction, TLAPS

-----------------------------------------------------------------------------
(* Finite sets.                                                            *)

\* A finite set has an element with nothing above it.
LEMMA FiniteMaximal ==
  ASSUME NEW W, IsFiniteSet(W), W # {}, NEW R,
         \A a \in W : <<a, a>> \notin R,
         \A a, b, c \in W : <<a, b>> \in R /\ <<b, c>> \in R => <<a, c>> \in R
  PROVE  \E m \in W : \A w \in W : <<w, m>> \notin R
<1> DEFINE Up == {U \in SUBSET W : U # {} /\ \A u \in U, w \in W : <<w, u>> \in R => w \in U}
<1>1. W \in Up
  OBVIOUS
<1>2. IsWellFoundedOn(StrictSubsetOrdering(W), SUBSET W)
  BY FS_StrictSubsetOrderingWellFounded, FS_FiniteSubsetsOfFinite
<1>3. PICK U \in Up : \A V \in Up : <<V, U>> \notin StrictSubsetOrdering(W)
  <2> HIDE DEF Up
  <2>1. Up \subseteq SUBSET W /\ Up # {}
    BY <1>1 DEF Up
  <2>2. QED
    BY <1>2, <2>1, WFMin
<1>4. PICK m \in U : TRUE
  OBVIOUS
<1>5. ASSUME NEW w \in W, <<w, m>> \in R PROVE FALSE
  <2> DEFINE V == {v \in W : <<v, m>> \in R}
  <2>1. V \in Up
    BY <1>5
  <2>2. V \subseteq U /\ m \notin V
    OBVIOUS
  <2>3. <<V, U>> \in StrictSubsetOrdering(W)
    BY <2>1, <2>2 DEF StrictSubsetOrdering
  <2>4. QED
    BY <1>3, <2>1, <2>3
<1>6. QED
  BY <1>5

\* The values of a function with a finite domain are finitely many.
LEMMA FiniteImage ==
  ASSUME NEW S, IsFiniteSet(S), NEW f
  PROVE  IsFiniteSet({f[x] : x \in S})
<1> DEFINE T == {f[x] : x \in S}
           g == [x \in S |-> f[x]]
<1>1. g \in Surjection(S, T)
  BY DEF Surjection
<1>2. QED
  BY <1>1, FS_Surjection

\* A finite set of numbers has a greatest one.
LEMMA FiniteMax ==
  ASSUME NEW S \in SUBSET Nat, IsFiniteSet(S), S # {}
  PROVE  Max(S) \in S /\ \A y \in S : y <= Max(S)
<1> DEFINE R == {r \in S \X S : r[1] > r[2]}
<1>1. \A a \in S : <<a, a>> \notin R
  OBVIOUS
<1>2. \A a, b, c \in S : <<a, b>> \in R /\ <<b, c>> \in R => <<a, c>> \in R
  OBVIOUS
<1>3. \E m \in S : \A w \in S : <<w, m>> \notin R
  <2> HIDE DEF R
  <2>1. QED
    BY <1>1, <1>2, FiniteMaximal
<1>4. \E m \in S : \A w \in S : m >= w
  <2>1. PICK m \in S : \A w \in S : <<w, m>> \notin R
    BY <1>3
  <2>2. ASSUME NEW w \in S PROVE m >= w
    <3>1. <<w, m>> \in S \X S /\ <<w, m>> \notin R
      BY <2>1
    <3>2. ~(w > m)
      BY <3>1
    <3>3. QED
      BY <3>2
  <2>3. QED
    BY <2>2
<1>5. QED
  BY <1>4 DEF Max

-----------------------------------------------------------------------------
(* The order of operations and the registers.                              *)

LEMMA GreaterIsOrder ==
  ASSUME NEW a \in OpId, NEW b \in OpId, NEW c \in OpId
  PROVE  /\ ~Greater(a, a)
         /\ Greater(a, b) => ~Greater(b, a)
         /\ Greater(a, b) /\ Greater(b, c) => Greater(a, c)
         /\ Greater(a, b) \/ Greater(b, a) \/ a = b
<1>1. /\ a.counter \in Nat /\ b.counter \in Nat /\ c.counter \in Nat
      /\ a.site \in Nat /\ b.site \in Nat /\ c.site \in Nat
  BY ProjectTreeAssumption DEF OpId
<1>2. a.counter = b.counter /\ a.site = b.site => a = b
  BY DEF OpId
<1>3. QED
  BY <1>1, <1>2 DEF Greater

LEMMA OperationType ==
  ASSUME NEW o \in ProjectTreeOperation
  PROVE  /\ o.id \in OpId /\ o.entry \in Entry
         /\ o.kind \in {"create", "rename", "move", "delete"}
         /\ o.kind \in {"create", "rename"} => o.name \in Name
         /\ o.kind \in {"create", "move"} => o.parent \in Parent
BY DEF ProjectTreeOperation

\* A register that was written has a value.
LEMMA LatestExists ==
  ASSUME NEW W \in SUBSET ProjectTreeOperation, IsFiniteSet(W), W # {}
  PROVE  Latest(W) \in W /\ \A p \in W : ~Greater(p.id, Latest(W).id)
<1> DEFINE R == {r \in W \X W : Greater(r[1].id, r[2].id)}
<1>1. \A a \in W : <<a, a>> \notin R
  BY OperationType, GreaterIsOrder
<1>2. \A a, b, c \in W : <<a, b>> \in R /\ <<b, c>> \in R => <<a, c>> \in R
  BY OperationType, GreaterIsOrder
<1>3. \E m \in W : \A w \in W : <<w, m>> \notin R
  <2> HIDE DEF R
  <2>1. QED
    BY <1>1, <1>2, FiniteMaximal
<1>4. \E m \in W : \A w \in W : ~Greater(w.id, m.id)
  BY <1>3
<1>5. QED
  BY <1>4 DEF Latest

-----------------------------------------------------------------------------
(* Compaction.                                                             *)

LEMMA SupersedesIsOrder ==
  ASSUME NEW o \in ProjectTreeOperation, NEW p \in ProjectTreeOperation,
         NEW q \in ProjectTreeOperation
  PROVE  /\ ~Supersedes(o, o)
         /\ Supersedes(p, o) => ~Supersedes(o, p)
         /\ Supersedes(q, p) /\ Supersedes(p, o) => Supersedes(q, o)
BY OperationType, GreaterIsOrder DEF Supersedes

\* S stands for ops: it is some of them, and has a later write for the rest.
Covers(S, ops) ==
  /\ S \subseteq ops
  /\ \A o \in ops \ S : \E p \in S : Supersedes(p, o)

\* Of finitely many operations compaction covers all.
LEMMA CompactCovers ==
  ASSUME NEW ops \in SUBSET ProjectTreeOperation, IsFiniteSet(ops)
  PROVE  Covers(Compact(ops), ops)
<1>1. Compact(ops) \subseteq ops
  BY DEF Compact
<1>2. ASSUME NEW o \in ops \ Compact(ops) PROVE \E p \in Compact(ops) : Supersedes(p, o)
  <2> DEFINE W == {p \in ops : Supersedes(p, o)}
             R == {r \in W \X W : Supersedes(r[1], r[2])}
  <2>1. W # {} /\ W \in SUBSET ProjectTreeOperation
    BY <1>2 DEF Compact
  <2>2. IsFiniteSet(W)
    BY FS_Subset
  <2>3. \A a \in W : <<a, a>> \notin R
    BY <2>1, SupersedesIsOrder
  <2>4. \A a, b, c \in W : <<a, b>> \in R /\ <<b, c>> \in R => <<a, c>> \in R
    BY <2>1, SupersedesIsOrder
  <2>5. PICK m \in W : \A w \in W : <<w, m>> \notin R
    <3> HIDE DEF W, R
    <3>1. QED
      BY <2>1, <2>2, <2>3, <2>4, FiniteMaximal
  <2>6. ASSUME NEW w \in ops, Supersedes(w, m) PROVE FALSE
    <3>1. w \in W
      BY <2>6, SupersedesIsOrder
    <3>2. <<w, m>> \in R
      BY <2>6, <3>1
    <3>3. QED
      BY <2>5, <3>1, <3>2
  <2>7. QED
    BY <2>6 DEF Compact
<1>3. QED
  BY <1>1, <1>2 DEF Covers

\* Compacting at every append is compacting the whole history.
THEOREM CompactOneMore ==
  ASSUME NEW ops \in SUBSET ProjectTreeOperation, IsFiniteSet(ops),
         NEW op \in ProjectTreeOperation
  PROVE  Compact(Compact(ops) \cup {op}) = Compact(ops \cup {op})
<1> DEFINE S == Compact(ops)
<1>1. Covers(S, ops)
  BY CompactCovers
<1>2. ASSUME NEW o \in Compact(S \cup {op}) PROVE o \in Compact(ops \cup {op})
  <2>1. o \in ops \cup {op} /\ ~Supersedes(op, o) /\ \A p \in S : ~Supersedes(p, o)
    BY <1>1, <1>2 DEF Compact, Covers
  <2>2. ASSUME NEW p \in ops, Supersedes(p, o) PROVE FALSE
    <3>1. p \notin S
      BY <2>1, <2>2
    <3>2. PICK q \in S : Supersedes(q, p)
      BY <1>1, <3>1 DEF Covers
    <3>3. q \in ops
      BY <1>1 DEF Covers
    <3>4. Supersedes(q, o)
      BY <2>1, <2>2, <3>2, <3>3, SupersedesIsOrder
    <3>5. QED
      BY <2>1, <3>4
  <2>3. QED
    BY <2>1, <2>2 DEF Compact
<1>3. ASSUME NEW o \in Compact(ops \cup {op}) PROVE o \in Compact(S \cup {op})
  BY <1>3 DEF Compact
<1>4. QED
  BY <1>2, <1>3

UniqueIds(ops) == \A o, p \in ops : o.id = p.id => o = p

\* The registers of an entry: creation, name, parent.
Register == {{"create"}, {"create", "rename"}, {"create", "move"}}

\* Compaction keeps the value of every register.
LEMMA CompactKeepsRegisters ==
  ASSUME NEW ops \in SUBSET ProjectTreeOperation, IsFiniteSet(ops), UniqueIds(ops),
         NEW e, NEW kinds \in Register
  PROVE  Latest(Writes(Compact(ops), e, kinds)) = Latest(Writes(ops, e, kinds))
<1> DEFINE W == Writes(ops, e, kinds)
           S == Writes(Compact(ops), e, kinds)
<1>1. /\ W \in SUBSET ProjectTreeOperation /\ IsFiniteSet(W)
      /\ S \subseteq W
  <2>1. W \subseteq ops /\ S \subseteq W
    BY DEF Writes, Compact
  <2>2. QED
    BY <2>1, FS_Subset
<1>2. CASE W = {}
  BY <1>1, <1>2
<1>3. CASE W # {}
  <2> DEFINE m == Latest(W)
  <2>1. m \in W /\ \A p \in W : ~Greater(p.id, m.id)
    BY <1>1, <1>3, LatestExists
  <2>2. m \in ops /\ m.entry = e /\ m.kind \in kinds
    BY <2>1 DEF Writes
  <2>3. ASSUME NEW p \in ops, Supersedes(p, m) PROVE FALSE
    <3>1. p.kind \in kinds
      BY <2>2, <2>3 DEF Supersedes, Register
    <3>2. p \in W
      BY <2>2, <2>3, <3>1 DEF Supersedes, Writes
    <3>3. QED
      BY <2>1, <2>3, <3>2 DEF Supersedes
  <2>4. m \in S
    BY <2>2, <2>3 DEF Compact, Writes
  <2>5. IsFiniteSet(S) /\ S \in SUBSET ProjectTreeOperation
    BY <1>1, FS_Subset
  <2>6. Latest(S) \in S /\ ~Greater(m.id, Latest(S).id)
    BY <2>4, <2>5, LatestExists
  <2>7. Latest(S) \in W /\ ~Greater(Latest(S).id, m.id)
    BY <1>1, <2>1, <2>6
  <2>8. Latest(S).id = m.id
    BY <1>1, <2>1, <2>6, <2>7, OperationType, GreaterIsOrder
  <2>9. Latest(S) \in ops
    BY <2>7 DEF Writes
  <2>10. QED
    BY <2>2, <2>8, <2>9 DEF UniqueIds
<1>4. QED
  BY <1>2, <1>3

\* Compaction neither forgets an entry nor a deletion.
LEMMA CompactKeepsEntries ==
  ASSUME NEW ops \in SUBSET ProjectTreeOperation, IsFiniteSet(ops)
  PROVE  /\ Created(Compact(ops)) = Created(ops)
         /\ Deleted(Compact(ops)) = Deleted(ops)
<1>1. Covers(Compact(ops), ops)
  BY CompactCovers
<1>2. ASSUME NEW kind \in {"create", "delete"}, NEW e \in Entry
      PROVE  Writes(ops, e, {kind}) # {} <=> Writes(Compact(ops), e, {kind}) # {}
  <2>1. ASSUME NEW o \in ops, o.entry = e, o.kind = kind
        PROVE  \E p \in Compact(ops) : p.entry = e /\ p.kind = kind
    <3>1. CASE o \in Compact(ops)
      BY <2>1, <3>1
    <3>2. CASE o \notin Compact(ops)
      <4>1. PICK p \in Compact(ops) : Supersedes(p, o)
        BY <1>1, <3>2 DEF Covers
      <4>2. p.entry = e /\ p.kind = kind
        BY <1>2, <2>1, <4>1 DEF Supersedes
      <4>3. QED
        BY <4>2
    <3>3. QED
      BY <3>1, <3>2
  <2>2. Compact(ops) \subseteq ops
    BY <1>1 DEF Covers
  <2>3. QED
    BY <2>1, <2>2 DEF Writes
<1>3. QED
  BY <1>2 DEF Created, Deleted

\* What a tab shows and what the server lists are the same before and after.
THEOREM CompactShowsTheSame ==
  ASSUME NEW ops \in SUBSET ProjectTreeOperation, IsFiniteSet(ops), UniqueIds(ops)
  PROVE  /\ getEntries(Compact(ops)) = getEntries(ops)
         /\ GetEntries(Compact(ops)) = GetEntries(ops)
<1> DEFINE S == Compact(ops)
<1>1. /\ Created(S) = Created(ops) /\ Deleted(S) = Deleted(ops)
      /\ Listed(S) = Listed(ops)
  BY CompactKeepsEntries DEF Listed
<1>2. \A e : /\ CreateOp(S, e) = CreateOp(ops, e)
             /\ NameOp(S, e) = NameOp(ops, e)
             /\ ParentOp(S, e) = ParentOp(ops, e)
  BY CompactKeepsRegisters DEF CreateOp, NameOp, ParentOp, Register
<1> HIDE DEF S
<1>3. Parents(S) = Parents(ops)
  BY <1>1, <1>2 DEF Parents
<1>4. Visible(S) = Visible(ops)
  BY <1>1, <1>3 DEF Visible
<1>5. Attached(S) = Attached(ops)
  BY <1>3, <1>4 DEF Attached
<1>6. \A up, e : Detach(S, up, e) <=> Detach(ops, up, e)
  BY <1>2 DEF Detach
<1>7. getEntries(S) = getEntries(ops)
  BY <1>2, <1>5, <1>6 DEF getEntries
<1>8. Remaining(S) = Remaining(ops)
  <2>1. ASSUME NEW e PROVE
          {d \in DOMAIN Parents(S) : ~Greater(CreateOp(S, e).id, CreateOp(S, d).id)}
            = {d \in DOMAIN Parents(ops) : ~Greater(CreateOp(ops, e).id, CreateOp(ops, d).id)}
    BY <1>2, <1>3
  <2>2. QED
    BY <1>1, <1>3, <2>1 DEF Remaining
<1>9. GetEntries(S) = GetEntries(ops)
  BY <1>2, <1>8 DEF GetEntries
<1>10. QED
  BY <1>7, <1>9 DEF S

-----------------------------------------------------------------------------
(* What a tab shows is a forest.                                              *)

\* Every entry has a parent among the others, or is at the root.
Rooted(up) == NoParent \notin DOMAIN up /\ \A d \in DOMAIN up : up[d] \in DOMAIN up \cup {NoParent}

\* Above is closed, and the least set that is.
LEMMA AboveLeast ==
  ASSUME NEW up, Rooted(up), NEW e \in DOMAIN up
  PROVE  /\ Above(up, e) \subseteq DOMAIN up
         /\ ClosedAbove(up, e, Above(up, e))
         /\ \A S : ClosedAbove(up, e, S) => Above(up, e) \subseteq S
<1> DEFINE above == {up[d] : d \in DOMAIN up} \ {NoParent}
           A == Above(up, e)
<1>1. A = {a \in above : \A S \in SUBSET above : ClosedAbove(up, e, S) => a \in S}
  BY DEF Above
<1>2. above \subseteq DOMAIN up /\ A \subseteq above
  BY <1>1 DEF Rooted
<1>3. \A d \in DOMAIN up : up[d] \in above \cup {NoParent}
  OBVIOUS
<1>4. ASSUME NEW S, ClosedAbove(up, e, S) PROVE A \subseteq S
  <2>1. ClosedAbove(up, e, S \cap above)
    BY <1>3, <1>4 DEF ClosedAbove
  <2>2. S \cap above \in SUBSET above
    OBVIOUS
  <2> HIDE DEF above
  <2>3. QED
    BY <1>1, <2>1, <2>2
<1> HIDE DEF above
<1>5. ASSUME NEW d \in DOMAIN up, d = e \/ d \in A, up[d] # NoParent PROVE up[d] \in A
  <2>1. ASSUME NEW S \in SUBSET above, ClosedAbove(up, e, S) PROVE up[d] \in S
    <3>1. d = e \/ d \in S
      BY <1>1, <1>5, <2>1
    <3>2. QED
      BY <1>5, <2>1, <3>1 DEF ClosedAbove
  <2>2. QED
    BY <1>1, <1>3, <1>5, <2>1
<1>6. ClosedAbove(up, e, A)
  BY <1>2, <1>5 DEF ClosedAbove
<1>7. QED
  BY <1>2, <1>4, <1>6

\* The walk from e goes on as the walk from its parent does, and from an entry
\* it meets as from that entry.
LEMMA AboveStep ==
  ASSUME NEW up, Rooted(up), NEW e \in DOMAIN up
  PROVE  /\ up[e] = NoParent => Above(up, e) = {}
         /\ up[e] # NoParent => up[e] \in Above(up, e)
                /\ Above(up, e) \subseteq {up[e]} \cup Above(up, up[e])
         /\ \A d \in Above(up, e) : Above(up, d) \subseteq Above(up, e)
<1>1. ASSUME NEW d \in Above(up, e) PROVE Above(up, d) \subseteq Above(up, e)
  <2>1. d \in DOMAIN up
    BY AboveLeast
  <2>2. ClosedAbove(up, d, Above(up, e))
    BY <2>1, AboveLeast DEF ClosedAbove
  <2>3. QED
    BY <2>1, <2>2, AboveLeast
<1>2. CASE up[e] = NoParent
  <2>1. ClosedAbove(up, e, {})
    BY <1>2 DEF ClosedAbove
  <2>2. QED
    BY <1>1, <1>2, <2>1, AboveLeast
<1>3. CASE up[e] # NoParent
  <2>1. up[e] \in DOMAIN up
    BY <1>3 DEF Rooted
  <2>2. up[e] \in Above(up, e)
    BY <1>3, AboveLeast DEF ClosedAbove
  <2>3. ClosedAbove(up, up[e], Above(up, up[e]))
    BY <2>1, AboveLeast
  <2>4. ClosedAbove(up, e, {up[e]} \cup Above(up, up[e]))
    BY <2>3 DEF ClosedAbove
  <2>5. Above(up, e) \subseteq {up[e]} \cup Above(up, up[e])
    BY <2>4, AboveLeast
  <2>6. QED
    BY <1>1, <1>3, <2>2, <2>5
<1>4. QED
  BY <1>2, <1>3

\* Whatever the walk from an entry on a cycle meets is on the cycle too.
LEMMA AboveCycle ==
  ASSUME NEW up, Rooted(up), NEW e \in DOMAIN up, e \in Above(up, e), NEW d \in Above(up, e)
  PROVE  d \in DOMAIN up /\ d \in Above(up, d) /\ up[d] # NoParent
<1> DEFINE S == {x \in Above(up, e) : e \in Above(up, x)}
<1>1. Above(up, e) \subseteq DOMAIN up
  BY AboveLeast
<1>2. ASSUME NEW x \in DOMAIN up, x = e \/ x \in S PROVE up[x] \in S
  <2>1. e \in Above(up, x)
    BY <1>2
  <2>2. up[x] # NoParent /\ up[x] \in Above(up, x)
            /\ Above(up, x) \subseteq {up[x]} \cup Above(up, up[x])
    BY <2>1, AboveStep
  <2>3. Above(up, x) \subseteq Above(up, e)
    BY <1>2, AboveStep
  <2>4. e \in Above(up, up[x])
    <3>1. e = up[x] \/ e \in Above(up, up[x])
      BY <2>1, <2>2
    <3>2. QED
      BY <3>1
  <2>5. QED
    BY <2>2, <2>3, <2>4
<1>3. ClosedAbove(up, e, S)
  BY <1>2 DEF ClosedAbove
<1>4. d \in S
  <2> HIDE DEF S
  <2>1. QED
    BY <1>3, AboveLeast
<1>5. d \in DOMAIN up /\ e \in Above(up, d)
  BY <1>1, <1>4
<1>6. d \in Above(up, d)
  BY <1>5, AboveStep
<1>7. QED
  BY <1>5, <1>6, AboveStep

\* Links that are cut take nothing into a walk.
LEMMA AboveCut ==
  ASSUME NEW up, Rooted(up), NEW cut, Rooted(cut), DOMAIN cut = DOMAIN up,
         \A d \in DOMAIN up : cut[d] \in {up[d], NoParent}, NEW e \in DOMAIN up
  PROVE  Above(cut, e) \subseteq Above(up, e)
<1>1. ClosedAbove(up, e, Above(up, e))
  BY AboveLeast
<1>2. ClosedAbove(cut, e, Above(up, e))
  BY <1>1 DEF ClosedAbove
<1>3. QED
  BY <1>2, AboveLeast

\* The visible entries are finitely many, and each has its own last word on
\* where it is.
LEMMA ParentOps ==
  ASSUME NEW ops \in SUBSET ProjectTreeOperation, IsFiniteSet(ops), UniqueIds(ops)
  PROVE  /\ IsFiniteSet(Created(ops)) /\ Created(ops) \subseteq Entry
         /\ \A e \in Created(ops) : ParentOp(ops, e).id \in OpId
         /\ \A e, f \in Created(ops) : ParentOp(ops, e).id = ParentOp(ops, f).id => e = f
<1>1. ASSUME NEW e \in Created(ops)
      PROVE  ParentOp(ops, e) \in ops /\ ParentOp(ops, e).entry = e
  <2> DEFINE W == Writes(ops, e, {"create", "move"})
  <2>1. W # {}
    BY <1>1 DEF Created, Writes
  <2>2. W \subseteq ops /\ \A o \in W : o.entry = e
    BY DEF Writes
  <2> HIDE DEF W
  <2>3. Latest(W) \in W
    BY <2>1, <2>2, FS_Subset, LatestExists
  <2>4. QED
    BY <2>2, <2>3 DEF ParentOp, W
<1>2. IsFiniteSet(Created(ops))
  <2> DEFINE entry == [o \in ops |-> o.entry]
  <2>1. Created(ops) \subseteq {entry[o] : o \in ops}
    BY DEF Created, Writes
  <2> HIDE DEF entry
  <2>2. IsFiniteSet({entry[o] : o \in ops})
    BY FiniteImage
  <2>3. QED
    BY <2>1, <2>2, FS_Subset
<1>3. Created(ops) \subseteq Entry
  BY DEF Created
<1>4. ASSUME NEW e \in Created(ops), NEW f \in Created(ops),
             ParentOp(ops, e).id = ParentOp(ops, f).id
      PROVE  e = f
  BY <1>1, <1>4 DEF UniqueIds
<1>5. \A e \in Created(ops) : ParentOp(ops, e).id \in OpId
  BY <1>1, OperationType
<1>6. QED
  BY <1>2, <1>3, <1>4, <1>5

\* Of the entries of a cycle one has the oldest parent and is detached.
LEMMA CycleIsBroken ==
  ASSUME NEW ops \in SUBSET ProjectTreeOperation, IsFiniteSet(ops), UniqueIds(ops),
         NEW up, Rooted(up), DOMAIN up \subseteq Created(ops),
         NEW cycle, cycle \subseteq DOMAIN up, cycle # {},
         \A d \in cycle : d \in Above(up, d) /\ Above(up, d) \subseteq cycle
  PROVE  \E d \in cycle : Detach(ops, up, d)
<1> DEFINE key(d) == ParentOp(ops, d).id
           R == {r \in cycle \X cycle : Greater(key(r[2]), key(r[1]))}
<1>1. /\ IsFiniteSet(cycle)
      /\ \A d \in cycle : key(d) \in OpId
      /\ \A d, f \in cycle : key(d) = key(f) => d = f
  BY ParentOps, FS_Subset
<1> HIDE DEF key
<1>2. \A a \in cycle : <<a, a>> \notin R
  BY <1>1, GreaterIsOrder
<1>3. \A a, b, c \in cycle : <<a, b>> \in R /\ <<b, c>> \in R => <<a, c>> \in R
  BY <1>1, GreaterIsOrder
<1>4. PICK d \in cycle : \A f \in cycle : <<f, d>> \notin R
  <2> HIDE DEF R
  <2>1. QED
    BY <1>1, <1>2, <1>3, FiniteMaximal
<1>5. \A f \in cycle \ {d} : Greater(key(f), key(d))
  <2> TAKE f \in cycle \ {d}
  <2>1. ~Greater(key(d), key(f)) /\ key(f) # key(d)
    BY <1>1, <1>4
  <2>2. QED
    BY <1>1, <2>1, GreaterIsOrder
<1>6. QED
  BY <1>5 DEF Detach, key

\* Whatever operations a tree has, if no two have one identifier, it shows a
\* forest of folders.
THEOREM EntriesAreForest ==
  ASSUME NEW ops \in SUBSET ProjectTreeOperation, IsFiniteSet(ops), UniqueIds(ops),
         NEW shown, shown = getEntries(ops),
         NEW cut, cut = [e \in DOMAIN shown |-> shown[e].parent],
         NEW e \in DOMAIN shown
  PROVE  /\ cut[e] = NoParent \/ cut[e] \in DOMAIN shown \cap Folder
         /\ e \notin Above(cut, e)
<1> DEFINE up == Attached(ops)
           visible == Visible(ops)
<1>1. /\ DOMAIN shown = visible /\ DOMAIN cut = visible
      /\ visible \subseteq Created(ops) /\ visible \subseteq Entry
  BY DEF getEntries, Attached, Visible, Parents, Listed, Created
<1>2. \A d \in visible : cut[d] = IF Detach(ops, up, d) THEN NoParent ELSE up[d]
  BY <1>1 DEF getEntries, Attached
<1>3. DOMAIN up = visible /\ \A d \in visible : up[d] \in (visible \cap Folder) \cup {NoParent}
  BY DEF Attached
<1>4. NoParent \notin Entry
  BY ProjectTreeAssumption DEF NoParent
<1> HIDE DEF up, visible
<1>5. Rooted(up) /\ Rooted(cut) /\ \A d \in visible : cut[d] \in {up[d], NoParent}
  BY <1>1, <1>2, <1>3, <1>4 DEF Rooted
<1>6. ASSUME e \in Above(cut, e) PROVE FALSE
  <2> DEFINE cycle == Above(cut, e)
  <2>1. cycle \subseteq visible /\ cycle # {}
    BY <1>1, <1>5, <1>6, AboveLeast
  <2>2. \A d \in cycle : d \in Above(cut, d) /\ cut[d] # NoParent
    BY <1>1, <1>5, <1>6, AboveCycle
  <2>3. \A d \in cycle : cut[d] = up[d] /\ ~Detach(ops, up, d)
    BY <1>2, <2>1, <2>2
  <2>4. ASSUME NEW d \in cycle PROVE d \in Above(up, d) /\ Above(up, d) \subseteq cycle
    <3>1. d \in Above(up, d)
      <4>1. Above(cut, d) \subseteq Above(up, d)
        BY <1>1, <1>3, <1>5, <2>1, AboveCut
      <4>2. QED
        BY <2>2, <4>1
    <3>2. ClosedAbove(cut, e, cycle)
      BY <1>1, <1>5, AboveLeast
    <3>3. ClosedAbove(up, d, cycle)
      BY <1>1, <1>3, <2>1, <2>3, <3>2 DEF ClosedAbove
    <3>4. Above(up, d) \subseteq cycle
      BY <1>3, <1>5, <2>1, <3>3, AboveLeast
    <3>5. QED
      BY <3>1, <3>4
  <2> HIDE DEF cycle
  <2>5. \E d \in cycle : Detach(ops, up, d)
    BY <1>1, <1>3, <1>5, <2>1, <2>4, CycleIsBroken
  <2>6. QED
    BY <2>3, <2>5
<1>7. cut[e] = NoParent \/ cut[e] \in DOMAIN shown \cap Folder
  BY <1>1, <1>3, <1>5
<1>8. QED
  BY <1>6, <1>7
=============================================================================
