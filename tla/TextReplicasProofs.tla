------------------------- MODULE TextReplicasProofs -------------------------
(***************************************************************************)
(* What every reachable state of TextReplicas has, for every set of sites  *)
(* and every bound: typed state, documents in tree order, identifiers that *)
(* name one character in the whole room, and therefore convergence; and    *)
(* that the replicas implement SharedList.                                 *)
(***************************************************************************)
EXTENDS TextReplicas, CrdtDocumentProofs

-----------------------------------------------------------------------------
(* The inductive invariant: DocInv, which is inductive by itself, NameInv, *)
(* inductive given DocInv, and BufferInv, inductive given both.            *)

\* A clock is ahead of every identifier of the document it belongs to.
Covers(k, d) == \A n \in NamesOf(d) : n[1].counter <= k

\* What merging has left can be inserted in order: an origin is in the
\* document or comes earlier in the list.
MergesInOrder(d, list) ==
  \A i \in 1..Len(list) :
     \/ isInsertReady(d, list[i])
     \/ \E j \in 1..(i - 1) : list[j].id = list[i].origin

SiteInv(s) ==
  /\ TreeOrder(doc[s])
  /\ Covers(clock[s], doc[s])
  /\ \A c \in draining[s] : isInsertReady(doc[s], c)
  /\ MergesInOrder(doc[s], merging[s])

SnapshotInv(m) == TreeOrder(m.chars) /\ Covers(m.clock, m.chars)

DocInv ==
  /\ TypeOK
  /\ \A s \in Site : SiteInv(s)
  /\ \A m \in snapshotsSent : SnapshotInv(m)

\* Every name of a character, and every identifier to delete, that some
\* document, buffer, loop or message holds.
KnownAt(s) ==
  NamesOf(doc[s]) \cup NamesOf(merging[s]) \cup
  {Name(c) : c \in pendingInserts[s] \cup draining[s] \cup insertsTo[s]}
Known ==
  (UNION {KnownAt(s) : s \in Site}) \cup (UNION {NamesOf(m.chars) : m \in snapshotsSent})
KnownDeletes == UNION {pendingDeletes[s] \cup deletesTo[s] : s \in Site}

\* The site that issued an identifier has a clock that has reached it.
Issued(id) == id \in Id /\ id.counter <= clock[id.site]

NameInv ==
  /\ \A n \in Known : Issued(n[1]) /\ (n[2] = Root \/ Issued(n[2]))
  /\ \A n, m \in Known : n[1] = m[1] => n[2] = m[2]
  /\ \A id \in KnownDeletes : Issued(id)

\* Outside the loops, what is buffered has to wait.
Waits(d, inserts, deletes) ==
  /\ \A c \in inserts : ~isInsertReady(d, c)
  /\ \A id \in deletes : ~HasChar(d, id)

BufferInv ==
  \A s \in Site :
     merging[s] = <<>> => Waits(doc[s], pendingInserts[s], pendingDeletes[s])

-----------------------------------------------------------------------------
(* One document at a time: what a step of a handler does to a document and *)
(* its clock.                                                              *)

LEMMA AtLeastFacts ==
  ASSUME NEW a \in Nat, NEW b \in Nat
  PROVE  AtLeast(a, b) \in Nat /\ AtLeast(a, b) >= a /\ AtLeast(a, b) >= b
BY DEF AtLeast

LEMMA NamesAreTyped ==
  ASSUME NEW d \in Seq(Char), NEW n \in NamesOf(d)
  PROVE  n[1] \in Id /\ n[2] \in Id \cup {Root} /\ n = <<n[1], n[2]>>
<1>1. PICK i \in 1..Len(d) : n = Name(d[i])
  BY DEF NamesOf
<1>2. d[i] \in Char
  BY ElementOfSeq
<1>3. QED
  BY <1>1, <1>2 DEF Name, Char

LEMMA CharIdTyped ==
  ASSUME NEW c \in Char
  PROVE  /\ c.id \in Id /\ c.origin \in Id \cup {Root}
         /\ c.id.counter \in Nat /\ c.id.counter > 0 /\ c.id.site \in Site
BY DEF Char, Id

\* A clock that grows still covers what it covered; with one more character
\* it covers the document if it has reached that character's counter.
LEMMA CoversGrows ==
  ASSUME NEW d \in Seq(Char), NEW e \in Seq(Char), NEW c \in Char,
         NamesOf(e) \subseteq NamesOf(d) \cup {Name(c)},
         NEW k \in Nat, NEW k2 \in Nat, k2 >= k, k2 >= c.id.counter, Covers(k, d)
  PROVE  Covers(k2, e)
<1> SUFFICES ASSUME NEW n \in NamesOf(e) PROVE n[1].counter <= k2
  BY DEF Covers
<1>1. n[1].counter \in Nat
  BY NamesAreTyped DEF Id
<1>2. CASE n \in NamesOf(d)
  BY <1>1, <1>2 DEF Covers
<1>3. CASE n = Name(c)
  BY <1>1, <1>3 DEF Name
<1>4. QED
  BY <1>2, <1>3

LEMMA CoversLonger ==
  ASSUME NEW d \in Seq(Char), NEW k \in Nat, NEW k2 \in Nat, k2 >= k, Covers(k, d)
  PROVE  Covers(k2, d)
<1> SUFFICES ASSUME NEW n \in NamesOf(d) PROVE n[1].counter <= k2
  BY DEF Covers
<1>1. n[1].counter \in Nat
  BY NamesAreTyped DEF Id
<1>2. QED
  BY <1>1 DEF Covers

\* integrateRemoteInsert, then the deletes that waited for the character.
LEMMA IntegrateFacts ==
  ASSUME NEW d \in Seq(Char), TreeOrder(d), NEW k \in Nat, Covers(k, d),
         NEW char \in Char, isInsertReady(d, char), NEW ids
  PROVE  LET e == integrateRemoteDeletes(integrateRemoteInsert(d, char), ids)
         IN  /\ e \in Seq(Char)
             /\ TreeOrder(e)
             /\ Covers(AtLeast(k, char.id.counter), e)
             /\ NamesOf(d) \subseteq NamesOf(e)
             /\ NamesOf(e) \subseteq NamesOf(d) \cup {Name(char)}
             /\ \A id : HasChar(e, id) <=> HasChar(d, id) \/ id = char.id
             /\ Keeps(d, e)
<1> DEFINE m == integrateRemoteInsert(d, char)
           e == integrateRemoteDeletes(m, ids)
<1>1. /\ m \in Seq(Char) /\ TreeOrder(m) /\ Keeps(d, m)
      /\ NamesOf(d) \subseteq NamesOf(m)
      /\ NamesOf(m) \subseteq NamesOf(d) \cup {Name(char)}
      /\ \A id : HasChar(m, id) <=> HasChar(d, id) \/ id = char.id
  BY RemoteInsertFacts
<1> HIDE DEF m
<1>2. /\ e \in Seq(Char) /\ NamesOf(e) = NamesOf(m)
      /\ \A id : HasChar(e, id) <=> HasChar(m, id)
  BY <1>1, DeletesFacts DEF HasChar
<1>3. TreeOrder(e) /\ Keeps(m, e)
  BY <1>1, DeletesKeepTreeOrder, DeletesKeep DEF TreeOrder
<1> HIDE DEF e
<1>4. Keeps(d, e)
  BY <1>1, <1>2, <1>3, KeepsIsTransitive DEF TreeOrder
<1>5. Covers(AtLeast(k, char.id.counter), e)
  <2>1. /\ AtLeast(k, char.id.counter) \in Nat
        /\ AtLeast(k, char.id.counter) >= k
        /\ AtLeast(k, char.id.counter) >= char.id.counter
    BY CharIdTyped, AtLeastFacts
  <2>2. NamesOf(e) \subseteq NamesOf(d) \cup {Name(char)}
    BY <1>1, <1>2
  <2>3. QED
    BY <1>2, <2>1, <2>2, CoversGrows
<1>6. QED
  BY <1>1, <1>2, <1>3, <1>4, <1>5 DEF e, m

\* A longer document keeps a merge in order.
LEMMA MergesInOrderGrows ==
  ASSUME NEW d, NEW e, \A id : HasChar(d, id) => HasChar(e, id),
         NEW list, MergesInOrder(d, list)
  PROVE  MergesInOrder(e, list)
BY DEF MergesInOrder, isInsertReady

\* A document in tree order can be merged from its first character on.
LEMMA TreesMergeInOrder ==
  ASSUME NEW d, NEW list \in Seq(Char), TreeOrder(list)
  PROVE  MergesInOrder(d, list)
<1> SUFFICES ASSUME NEW i \in 1..Len(list), list[i].origin # Root
             PROVE  \E j \in 1..(i - 1) : list[j].id = list[i].origin
  BY DEF MergesInOrder, isInsertReady
<1>1. IndexOf(list, list[i].origin) \in 1..(i - 1)
  BY DEF TreeOrder, OriginsPrecede
<1>2. list[IndexOf(list, list[i].origin)].id = list[i].origin
  BY <1>1, IndexOfFacts
<1>3. QED
  BY <1>1, <1>2

\* The next iteration of a merge: its character can be merged, and what is
\* left is still in order.
LEMMA MergeHeadFacts ==
  ASSUME NEW d \in Seq(Char), TreeOrder(d), NEW list \in Seq(Char), list # <<>>,
         MergesInOrder(d, list)
  PROVE  /\ Head(list) \in Char
         /\ Tail(list) \in Seq(Char)
         /\ isInsertReady(d, Head(list))
         /\ MergesInOrder(mergeChar(d, Head(list)), Tail(list))
<1>1. /\ Len(list) \in Nat \ {0} /\ Head(list) = list[1] /\ Head(list) \in Char
      /\ Tail(list) \in Seq(Char) /\ Len(Tail(list)) = Len(list) - 1
      /\ \A i \in 1..(Len(list) - 1) : Tail(list)[i] = list[i + 1]
  BY HeadTailProperties, LenProperties, EmptySeq
<1>2. isInsertReady(d, list[1])
  BY <1>1 DEF MergesInOrder
<1> DEFINE e == mergeChar(d, Head(list))
<1>3. \A id : HasChar(e, id) <=> HasChar(d, id) \/ id = list[1].id
  BY <1>1, <1>2, MergeCharFacts
<1> HIDE DEF e
<1>4. MergesInOrder(e, Tail(list))
  <2> SUFFICES ASSUME NEW i \in 1..Len(Tail(list)), ~isInsertReady(e, Tail(list)[i])
               PROVE  \E j \in 1..(i - 1) : Tail(list)[j].id = Tail(list)[i].origin
    BY DEF MergesInOrder
  <2>0. i \in 1..(Len(list) - 1) /\ Tail(list)[i] = list[i + 1]
    BY <1>1
  <2>1. ~isInsertReady(d, list[i + 1]) /\ i + 1 \in 1..Len(list)
    BY <1>1, <1>3, <2>0 DEF isInsertReady
  <2>2. PICK j \in 1..i : list[j].id = list[i + 1].origin
    BY <1>1, <2>1 DEF MergesInOrder
  <2>3. j # 1
    BY <1>3, <2>2 DEF isInsertReady
  <2>4. j - 1 \in 1..(i - 1) /\ Tail(list)[j - 1] = list[j]
    BY <1>1, <2>0, <2>2, <2>3
  <2>5. QED
    BY <2>0, <2>2, <2>4
<1>5. QED
  BY <1>1, <1>2, <1>4 DEF e

-----------------------------------------------------------------------------
(* DocInv is inductive.                                                    *)

\* A handler changes its own site only.
LEMMA SiteStep ==
  ASSUME DocInv, TypeOK', NEW s \in Site, SiteInv(s)',
         \A t \in Site \ {s} : /\ doc'[t] = doc[t] /\ clock'[t] = clock[t]
                               /\ draining'[t] = draining[t] /\ merging'[t] = merging[t],
         \A m \in snapshotsSent' : SnapshotInv(m)
  PROVE  DocInv'
<1>1. ASSUME NEW t \in Site \ {s} PROVE SiteInv(t)'
  BY <1>1 DEF DocInv, SiteInv
<1>2. QED
  BY <1>1 DEF DocInv

LEMMA VisibleFacts ==
  ASSUME NEW d \in Seq(Char), NEW id \in Visible(d)
  PROVE  id \in Id /\ HasChar(d, id)
<1>1. PICK i \in 1..Len(d) : id = d[i].id
  BY DEF Visible
<1>2. d[i] \in Char
  BY ElementOfSeq
<1>3. Name(d[i]) \in NamesOf(d) /\ Name(d[i])[1] = id
  BY <1>1 DEF NamesOf, Name
<1>4. QED
  BY <1>1, <1>2, <1>3, HasCharFacts DEF Char

\* The identifier a site issues next is not in its document.
LEMMA NextIdIsFresh ==
  ASSUME DocInv, NEW s \in Site
  PROVE  NextId(s) \in Id /\ ~HasChar(doc[s], NextId(s))
<1>1. doc[s] \in Seq(Char) /\ clock[s] \in Nat /\ Covers(clock[s], doc[s])
  BY DEF DocInv, TypeOK, SiteInv
<1>2. NextId(s) \in Id /\ NextId(s).counter = clock[s] + 1
  BY <1>1 DEF NextId, Id
<1>3. ASSUME NEW n \in NamesOf(doc[s]) PROVE n[1] # NextId(s)
  <2>1. n[1].counter <= clock[s] /\ n[1].counter \in Nat
    BY <1>1, <1>3, NamesAreTyped DEF Covers, Id
  <2>2. QED
    BY <1>1, <1>2, <2>1
<1>4. QED
  BY <1>1, <1>2, <1>3, HasCharFacts

LEMMA LocalInsertDocInv ==
  ASSUME DocInv, NEW s \in Site, LocalInsert(s) PROVE DocInv'
<1>1. PICK origin \in Visible(doc[s]) \cup {Root} :
         /\ clock' = [clock EXCEPT ![s] = @ + 1]
         /\ doc' = [doc EXCEPT ![s] = insertChar(@, createChar(NextId(s), origin))]
         /\ insertsTo' = Relay(insertsTo, s, createChar(NextId(s), origin))
  BY DEF LocalInsert
<1> DEFINE char == createChar(NextId(s), origin)
           d == insertChar(doc[s], char)
<1>2. /\ doc[s] \in Seq(Char) /\ clock[s] \in Nat /\ TreeOrder(doc[s])
      /\ Covers(clock[s], doc[s])
  BY DEF DocInv, TypeOK, SiteInv
<1>3. /\ char \in Char /\ char.id = NextId(s) /\ ~HasChar(doc[s], char.id)
      /\ isInsertReady(doc[s], char)
  BY <1>2, NextIdIsFresh, VisibleFacts DEF createChar, Char, isInsertReady
<1>4. /\ d \in Seq(Char) /\ TreeOrder(d)
      /\ NamesOf(d) = NamesOf(doc[s]) \cup {Name(char)}
  BY <1>2, <1>3, InsertFacts
<1>5. Covers(clock[s] + 1, d)
  <2>1. char.id.counter = clock[s] + 1
    BY <1>3 DEF NextId
  <2>2. QED
    BY <1>2, <1>3, <1>4, <2>1, CoversGrows
<1>6. Quiet
  BY DEF LocalInsert
<1>7. UNCHANGED <<pendingInserts, pendingDeletes, draining, merging, deletesTo, snapshotsSent>>
  BY DEF LocalInsert, buffers
<1> HIDE DEF d, char
<1>8. TypeOK'
  <2>1. doc' \in [Site -> Seq(Char)] /\ clock' \in [Site -> Nat]
    BY <1>1, <1>2, <1>4 DEF DocInv, TypeOK, d, char
  <2>2. insertsTo' \in [Site -> SUBSET Char]
    BY <1>1, <1>3 DEF DocInv, TypeOK, Relay, char
  <2>3. QED
    BY <1>7, <2>1, <2>2 DEF DocInv, TypeOK
<1>9. doc'[s] = d /\ clock'[s] = clock[s] + 1
  BY <1>1 DEF DocInv, TypeOK, d, char
<1>10. SiteInv(s)'
  <2>1. draining[s] = {} /\ merging[s] = <<>>
    BY <1>6 DEF Quiet
  <2>2. MergesInOrder(doc'[s], merging'[s])
    BY <1>7, <2>1 DEF MergesInOrder
  <2>3. QED
    BY <1>4, <1>5, <1>7, <1>9, <2>1, <2>2 DEF SiteInv
<1>11. QED
  <2>1. \A t \in Site \ {s} : doc'[t] = doc[t] /\ clock'[t] = clock[t]
    BY <1>1 DEF DocInv, TypeOK
  <2>2. QED
    BY <1>7, <1>8, <1>10, <2>1, SiteStep DEF DocInv

\* Deletes change flags only; LocalDelete and processDelete share this.
LEMMA DeletesDocInv ==
  ASSUME DocInv, NEW s \in Site, NEW ids,
         doc' = [doc EXCEPT ![s] = integrateRemoteDeletes(@, ids)],
         pendingDeletes' \in [Site -> SUBSET Id], deletesTo' \in [Site -> SUBSET Id],
         UNCHANGED <<clock, pendingInserts, draining, merging, insertsTo, snapshotsSent>>
  PROVE  DocInv'
<1> DEFINE d == integrateRemoteDeletes(doc[s], ids)
<1>1. /\ doc[s] \in Seq(Char) /\ TreeOrder(doc[s]) /\ Covers(clock[s], doc[s])
      /\ \A c \in draining[s] : isInsertReady(doc[s], c)
      /\ MergesInOrder(doc[s], merging[s])
  BY DEF DocInv, TypeOK, SiteInv
<1>2. /\ d \in Seq(Char) /\ TreeOrder(d) /\ NamesOf(d) = NamesOf(doc[s])
      /\ \A id : HasChar(d, id) <=> HasChar(doc[s], id)
  BY <1>1, DeletesFacts, DeletesKeepTreeOrder DEF HasChar
<1> HIDE DEF d
<1>3. doc' \in [Site -> Seq(Char)] /\ doc'[s] = d /\ \A t \in Site \ {s} : doc'[t] = doc[t]
  BY <1>2 DEF DocInv, TypeOK, d
<1>4. TypeOK'
  BY <1>3 DEF DocInv, TypeOK
<1>5. SiteInv(s)'
  <2>1. MergesInOrder(d, merging[s])
    BY <1>1, <1>2, MergesInOrderGrows
  <2>2. \A c \in draining[s] : isInsertReady(d, c)
    BY <1>1, <1>2 DEF isInsertReady
  <2>3. Covers(clock[s], d)
    BY <1>1, <1>2 DEF Covers
  <2>4. QED
    BY <1>2, <1>3, <2>1, <2>2, <2>3 DEF SiteInv
<1>6. QED
  BY <1>3, <1>4, <1>5, SiteStep DEF DocInv

LEMMA LocalDeleteDocInv ==
  ASSUME DocInv, NEW s \in Site, LocalDelete(s) PROVE DocInv'
<1>1. PICK id \in Visible(doc[s]) :
         /\ doc' = [doc EXCEPT ![s] = integrateRemoteDeletes(@, {id})]
         /\ deletesTo' = Relay(deletesTo, s, id)
  BY DEF LocalDelete
<1>2. id \in Id
  BY VisibleFacts DEF DocInv, TypeOK
<1>3. deletesTo' \in [Site -> SUBSET Id]
  BY <1>1, <1>2 DEF DocInv, TypeOK, Relay
<1>4. UNCHANGED <<clock, pendingInserts, pendingDeletes, draining, merging, insertsTo,
                  snapshotsSent>>
  BY DEF LocalDelete, buffers
<1>5. pendingDeletes' \in [Site -> SUBSET Id]
  BY <1>4 DEF DocInv, TypeOK
<1>6. QED
  BY <1>1, <1>3, <1>4, <1>5, DeletesDocInv

\* A character whose origin is there is integrated and drain goes on with
\* characters that are all ready.
LEMMA DrainDocInv ==
  ASSUME DocInv, NEW s \in Site, NEW char \in Char, isInsertReady(doc[s], char),
         NEW rest \in SUBSET Char, \A c \in rest : isInsertReady(doc[s], c),
         IntegrateAndDrain(s, char, rest),
         insertsTo' \in [Site -> SUBSET Char],
         UNCHANGED <<merging, deletesTo, snapshotsSent>>
  PROVE  DocInv'
<1> DEFINE k == AtLeast(clock[s], char.id.counter)
           ids == pendingDeletes[s] \cap {char.id}
           d == integrateRemoteDeletes(integrateRemoteInsert(doc[s], char), ids)
           waiting == {c \in pendingInserts[s] : c.origin = char.id}
<1>1. /\ doc[s] \in Seq(Char) /\ clock[s] \in Nat /\ TreeOrder(doc[s])
      /\ Covers(clock[s], doc[s]) /\ MergesInOrder(doc[s], merging[s])
  BY DEF DocInv, TypeOK, SiteInv
<1>2. /\ d \in Seq(Char) /\ TreeOrder(d) /\ Covers(k, d)
      /\ \A id : HasChar(d, id) <=> HasChar(doc[s], id) \/ id = char.id
  BY <1>1, IntegrateFacts
<1>3. k \in Nat
  BY <1>1, CharIdTyped, AtLeastFacts
<1>4. /\ clock' = [clock EXCEPT ![s] = k]
      /\ doc' = [doc EXCEPT ![s] = d]
      /\ pendingDeletes' = [pendingDeletes EXCEPT ![s] = @ \ {char.id}]
      /\ pendingInserts' = [pendingInserts EXCEPT ![s] = @ \ waiting]
      /\ draining' = [draining EXCEPT ![s] = rest \cup waiting]
  BY DEF IntegrateAndDrain
<1>5. waiting \in SUBSET Char
  BY DEF DocInv, TypeOK
<1>6. \A c \in waiting : isInsertReady(d, c)
  BY <1>2 DEF isInsertReady
<1>7. \A c \in rest : isInsertReady(d, c)
  BY <1>2 DEF isInsertReady
<1>8. MergesInOrder(d, merging[s])
  BY <1>1, <1>2, MergesInOrderGrows
<1> HIDE DEF k, d, waiting
<1>9. TypeOK'
  <2>1. clock' \in [Site -> Nat] /\ doc' \in [Site -> Seq(Char)]
    BY <1>2, <1>3, <1>4 DEF DocInv, TypeOK
  <2>2. pendingDeletes' \in [Site -> SUBSET Id] /\ pendingInserts' \in [Site -> SUBSET Char]
    BY <1>4 DEF DocInv, TypeOK
  <2>3. draining' \in [Site -> SUBSET Char]
    BY <1>4, <1>5 DEF DocInv, TypeOK
  <2>4. QED
    BY <2>1, <2>2, <2>3 DEF DocInv, TypeOK
<1>10. /\ doc'[s] = d /\ clock'[s] = k /\ draining'[s] = rest \cup waiting
       /\ \A t \in Site \ {s} : doc'[t] = doc[t] /\ clock'[t] = clock[t]
                                /\ draining'[t] = draining[t]
  BY <1>4 DEF DocInv, TypeOK
<1>11. SiteInv(s)'
  BY <1>2, <1>6, <1>7, <1>8, <1>10 DEF SiteInv
<1>12. QED
  BY <1>9, <1>10, <1>11, SiteStep DEF DocInv

LEMMA ProcessInsertDocInv ==
  ASSUME DocInv, Quiet, NEW s \in Site, NEW char \in Char, processInsert(s, char),
         insertsTo' \in [Site -> SUBSET Char],
         UNCHANGED <<merging, deletesTo, snapshotsSent>>
  PROVE  DocInv'
<1>1. CASE isInsertReady(doc[s], char)
  <2>1. IntegrateAndDrain(s, char, {})
    BY <1>1 DEF processInsert
  <2>2. QED
    BY <1>1, <2>1, DrainDocInv
<1>2. CASE ~isInsertReady(doc[s], char)
  <2>1. /\ pendingInserts' = [pendingInserts EXCEPT ![s] = @ \cup {char}]
        /\ UNCHANGED <<doc, clock, pendingDeletes, draining>>
    BY <1>2 DEF processInsert
  <2>2. TypeOK'
    BY <2>1 DEF DocInv, TypeOK
  <2>3. SiteInv(s)'
    BY <2>1 DEF DocInv, SiteInv
  <2>4. QED
    BY <2>1, <2>2, <2>3, SiteStep DEF DocInv
<1>3. QED
  BY <1>1, <1>2

\* A character of a document, sent again as it was when it was new.
LEMMA CharsOfDoc ==
  ASSUME NEW d \in Seq(Char), NEW c \in ToSet(d)
  PROVE  c \in Char /\ createChar(c.id, c.origin) \in Char /\ Name(c) \in NamesOf(d)
<1>1. PICK i \in 1..Len(d) : c = d[i]
  BY LenProperties DEF ToSet
<1>2. c \in Char
  BY <1>1, ElementOfSeq
<1>3. Name(c) \in NamesOf(d)
  BY <1>1 DEF NamesOf
<1>4. createChar(c.id, c.origin) \in Char
  BY <1>2, CharIdTyped DEF createChar, Char
<1>5. QED
  BY <1>2, <1>3, <1>4

LEMMA ReceiveInsertDocInv ==
  ASSUME DocInv, NEW s \in Site, ReceiveInsert(s) \/ ReceiveInsertAgain(s)
  PROVE  DocInv'
<1>1. CASE ReceiveInsert(s)
  <2>1. PICK char \in insertsTo[s] : /\ processInsert(s, char)
                                     /\ insertsTo' = [insertsTo EXCEPT ![s] = @ \ {char}]
    BY <1>1 DEF ReceiveInsert
  <2>2. char \in Char /\ insertsTo' \in [Site -> SUBSET Char]
    BY <2>1 DEF DocInv, TypeOK
  <2>3. QED
    BY <1>1, <2>1, <2>2, ProcessInsertDocInv DEF ReceiveInsert
<1>2. CASE ReceiveInsertAgain(s)
  <2>1. PICK char \in pendingInserts[s] \cup
                       {createChar(c.id, c.origin) : c \in ToSet(doc[s])} :
           processInsert(s, char)
    BY <1>2 DEF ReceiveInsertAgain
  <2>2. char \in Char
    BY CharsOfDoc DEF DocInv, TypeOK
  <2>3. UNCHANGED <<merging, insertsTo, deletesTo, snapshotsSent>> /\ Quiet
    BY <1>2 DEF ReceiveInsertAgain, network
  <2>4. insertsTo' \in [Site -> SUBSET Char]
    BY <2>3 DEF DocInv, TypeOK
  <2>5. QED
    BY <2>1, <2>2, <2>3, <2>4, ProcessInsertDocInv
<1>3. QED
  BY <1>1, <1>2

LEMMA DrainNextDocInv ==
  ASSUME DocInv, NEW s \in Site, DrainNext(s) PROVE DocInv'
<1>1. PICK char \in draining[s] : IntegrateAndDrain(s, char, draining[s] \ {char})
  BY DEF DrainNext
<1>2. UNCHANGED <<merging, insertsTo, deletesTo, snapshotsSent>>
  BY DEF DrainNext, network
<1>3. /\ draining[s] \in SUBSET Char /\ insertsTo' \in [Site -> SUBSET Char]
      /\ \A c \in draining[s] : isInsertReady(doc[s], c)
  BY <1>2 DEF DocInv, TypeOK, SiteInv
<1>4. QED
  BY <1>1, <1>2, <1>3, DrainDocInv

LEMMA ProcessDeleteDocInv ==
  ASSUME DocInv, NEW s \in Site, NEW id \in Id, processDelete(s, id),
         deletesTo' \in [Site -> SUBSET Id],
         UNCHANGED <<clock, pendingInserts, draining, merging, insertsTo, snapshotsSent>>
  PROVE  DocInv'
<1>1. CASE HasChar(doc[s], id)
  <2>1. /\ doc' = [doc EXCEPT ![s] = integrateRemoteDeletes(@, {id})]
        /\ UNCHANGED pendingDeletes
    BY <1>1 DEF processDelete
  <2>2. pendingDeletes' \in [Site -> SUBSET Id]
    BY <2>1 DEF DocInv, TypeOK
  <2>3. QED
    BY <2>1, <2>2, DeletesDocInv
<1>2. CASE ~HasChar(doc[s], id)
  <2>1. /\ pendingDeletes' = [pendingDeletes EXCEPT ![s] = @ \cup {id}]
        /\ UNCHANGED doc
    BY <1>2 DEF processDelete
  <2>2. TypeOK'
    BY <2>1 DEF DocInv, TypeOK
  <2>3. SiteInv(s)'
    BY <2>1 DEF DocInv, SiteInv
  <2>4. QED
    BY <2>1, <2>2, <2>3, SiteStep DEF DocInv
<1>3. QED
  BY <1>1, <1>2

LEMMA ReceiveDeleteDocInv ==
  ASSUME DocInv, NEW s \in Site, ReceiveDelete(s) \/ ReceiveDeleteAgain(s)
  PROVE  DocInv'
<1>1. CASE ReceiveDelete(s)
  <2>1. PICK id \in deletesTo[s] : /\ processDelete(s, id)
                                   /\ deletesTo' = [deletesTo EXCEPT ![s] = @ \ {id}]
    BY <1>1 DEF ReceiveDelete
  <2>2. id \in Id /\ deletesTo' \in [Site -> SUBSET Id]
    BY <2>1 DEF DocInv, TypeOK
  <2>3. QED
    BY <1>1, <2>1, <2>2, ProcessDeleteDocInv DEF ReceiveDelete
<1>2. CASE ReceiveDeleteAgain(s)
  <2>1. PICK id \in pendingDeletes[s] \cup Tombstones(doc[s]) : processDelete(s, id)
    BY <1>2 DEF ReceiveDeleteAgain
  <2>2. id \in Id
    <3>1. ASSUME NEW i \in 1..Len(doc[s]) PROVE doc[s][i].id \in Id
      <4>1. doc[s][i] \in Char
        BY <3>1, ElementOfSeq DEF DocInv, TypeOK
      <4>2. QED
        BY <4>1 DEF Char
    <3>2. QED
      BY <3>1 DEF DocInv, TypeOK, Tombstones
  <2>3. UNCHANGED <<clock, pendingInserts, draining, merging, insertsTo, deletesTo,
                    snapshotsSent>>
    BY <1>2 DEF ReceiveDeleteAgain, network
  <2>4. deletesTo' \in [Site -> SUBSET Id]
    BY <2>3 DEF DocInv, TypeOK
  <2>5. QED
    BY <2>1, <2>2, <2>3, <2>4, ProcessDeleteDocInv
<1>3. QED
  BY <1>1, <1>2

LEMMA SendSnapshotDocInv ==
  ASSUME DocInv, NEW s \in Site, SendSnapshot(s) PROVE DocInv'
<1> DEFINE m == [clock |-> clock[s], chars |-> doc[s]]
<1>1. /\ snapshotsSent' = snapshotsSent \cup {m}
      /\ UNCHANGED <<doc, clock, pendingInserts, pendingDeletes, draining, merging,
                     insertsTo, deletesTo>>
  BY DEF SendSnapshot, buffers
<1>2. m \in Snapshot /\ SnapshotInv(m)
  BY DEF DocInv, TypeOK, SiteInv, SnapshotInv, Snapshot
<1> HIDE DEF m
<1>3. TypeOK'
  BY <1>1, <1>2 DEF DocInv, TypeOK
<1>4. SiteInv(s)'
  BY <1>1 DEF DocInv, SiteInv
<1>5. \A n \in snapshotsSent' : SnapshotInv(n)
  BY <1>1, <1>2 DEF DocInv
<1>6. QED
  BY <1>1, <1>3, <1>4, <1>5, SiteStep

\* The end of fromSnapshot: the document is `d', nothing is left to merge.
LEMMA SettleDocInv ==
  ASSUME DocInv, NEW s \in Site, NEW d \in Seq(Char), TreeOrder(d),
         NEW k \in Nat, Covers(k, d), clock' = [clock EXCEPT ![s] = k],
         merging' = [merging EXCEPT ![s] = <<>>],
         SettlePending(s, d), UNCHANGED network
  PROVE  DocInv'
<1> DEFINE ready == {c \in pendingInserts[s] : isInsertReady(d, c)}
           found == pendingDeletes[s] \cap Ids(d)
           e == integrateRemoteDeletes(d, found)
<1>1. /\ doc' = [doc EXCEPT ![s] = e]
      /\ pendingDeletes' = [pendingDeletes EXCEPT ![s] = @ \ found]
      /\ pendingInserts' = [pendingInserts EXCEPT ![s] = @ \ ready]
      /\ draining' = [draining EXCEPT ![s] = ready]
  BY DEF SettlePending
<1>2. /\ e \in Seq(Char) /\ TreeOrder(e) /\ NamesOf(e) = NamesOf(d)
      /\ \A id : HasChar(e, id) <=> HasChar(d, id)
  BY DeletesFacts, DeletesKeepTreeOrder DEF HasChar
<1>3. ready \in SUBSET Char /\ \A c \in ready : isInsertReady(e, c)
  BY <1>2 DEF DocInv, TypeOK, isInsertReady
<1>4. Covers(k, e)
  BY <1>2 DEF Covers
<1> HIDE DEF e, ready, found
<1>5. <<>> \in Seq(Char) /\ MergesInOrder(e, <<>>)
  BY EmptySeq DEF MergesInOrder
<1>6. TypeOK'
  <2>1. doc' \in [Site -> Seq(Char)] /\ clock' \in [Site -> Nat]
    BY <1>1, <1>2 DEF DocInv, TypeOK
  <2>2. /\ pendingDeletes' \in [Site -> SUBSET Id] /\ pendingInserts' \in [Site -> SUBSET Char]
        /\ draining' \in [Site -> SUBSET Char]
    BY <1>1, <1>3 DEF DocInv, TypeOK
  <2>3. merging' \in [Site -> Seq(Char)]
    BY <1>5 DEF DocInv, TypeOK
  <2>4. QED
    BY <2>1, <2>2, <2>3 DEF DocInv, TypeOK, network
<1>7. /\ doc'[s] = e /\ clock'[s] = k /\ draining'[s] = ready /\ merging'[s] = <<>>
      /\ \A t \in Site \ {s} : /\ doc'[t] = doc[t] /\ clock'[t] = clock[t]
                               /\ draining'[t] = draining[t] /\ merging'[t] = merging[t]
  BY <1>1 DEF DocInv, TypeOK
<1>8. SiteInv(s)'
  BY <1>2, <1>3, <1>4, <1>5, <1>7 DEF SiteInv
<1>9. QED
  BY <1>6, <1>7, <1>8, SiteStep DEF DocInv, network

LEMMA LoadSnapshotDocInv ==
  ASSUME DocInv, NEW s \in Site, LoadSnapshot(s) PROVE DocInv'
<1>1. PICK m \in snapshotsSent :
         /\ clock' = [clock EXCEPT ![s] = AtLeast(@, m.clock)]
         /\ \/ /\ doc[s] = <<>> \/ m.chars = <<>>
               /\ SettlePending(s, IF doc[s] = <<>> THEN m.chars ELSE doc[s])
               /\ UNCHANGED merging
            \/ /\ doc[s] # <<>> /\ m.chars # <<>>
               /\ merging' = [merging EXCEPT ![s] = m.chars]
               /\ UNCHANGED <<doc, pendingInserts, pendingDeletes, draining>>
  BY DEF LoadSnapshot, buffers
<1> DEFINE k == AtLeast(clock[s], m.clock)
<1>2. /\ doc[s] \in Seq(Char) /\ TreeOrder(doc[s]) /\ clock[s] \in Nat
      /\ Covers(clock[s], doc[s])
  BY DEF DocInv, TypeOK, SiteInv
<1>3. /\ m.chars \in Seq(Char) /\ m.clock \in Nat
      /\ TreeOrder(m.chars) /\ Covers(m.clock, m.chars)
  BY DEF DocInv, TypeOK, SnapshotInv, Snapshot
<1>4. k \in Nat /\ k >= clock[s] /\ k >= m.clock
  BY <1>2, <1>3, AtLeastFacts
<1> HIDE DEF k
<1>5. clock' = [clock EXCEPT ![s] = k]
  BY <1>1 DEF k
<1>6. draining[s] = {} /\ merging[s] = <<>> /\ UNCHANGED network
  BY DEF LoadSnapshot, Quiet
<1>7. CASE doc[s] = <<>> \/ m.chars = <<>>
  <2> DEFINE d == IF doc[s] = <<>> THEN m.chars ELSE doc[s]
  <2>1. SettlePending(s, d) /\ UNCHANGED merging
    BY <1>1, <1>7
  <2>2. d \in Seq(Char) /\ TreeOrder(d) /\ Covers(k, d)
    BY <1>2, <1>3, <1>4, CoversLonger
  <2> HIDE DEF d
  <2>3. merging' = [merging EXCEPT ![s] = <<>>]
    BY <1>6, <2>1 DEF DocInv, TypeOK
  <2>4. QED
    BY <1>4, <1>5, <1>6, <2>1, <2>2, <2>3, SettleDocInv
<1>8. CASE doc[s] # <<>> /\ m.chars # <<>>
  <2>1. /\ merging' = [merging EXCEPT ![s] = m.chars]
        /\ UNCHANGED <<doc, pendingInserts, pendingDeletes, draining>>
    BY <1>1, <1>8
  <2>2. TypeOK'
    <3>1. merging' \in [Site -> Seq(Char)] /\ clock' \in [Site -> Nat]
      BY <1>3, <1>4, <1>5, <2>1 DEF DocInv, TypeOK
    <3>2. QED
      BY <1>6, <2>1, <3>1 DEF DocInv, TypeOK, network
  <2>3. merging'[s] = m.chars /\ clock'[s] = k
    BY <1>5, <2>1 DEF DocInv, TypeOK
  <2>4. SiteInv(s)'
    <3>1. Covers(k, doc[s]) /\ MergesInOrder(doc[s], m.chars)
      BY <1>2, <1>3, <1>4, CoversLonger, TreesMergeInOrder
    <3>2. QED
      BY <1>2, <1>6, <2>1, <2>3, <3>1 DEF SiteInv
  <2>5. \A t \in Site \ {s} : merging'[t] = merging[t] /\ clock'[t] = clock[t]
    BY <1>5, <2>1 DEF DocInv, TypeOK
  <2>6. QED
    BY <1>6, <2>1, <2>2, <2>4, <2>5, SiteStep DEF DocInv, network
<1>9. QED
  BY <1>7, <1>8

LEMMA MergeNextDocInv ==
  ASSUME DocInv, NEW s \in Site, MergeNext(s) PROVE DocInv'
<1> DEFINE c == Head(merging[s])
           d == mergeChar(doc[s], c)
           k == IF HasChar(doc[s], c.id) THEN clock[s] ELSE AtLeast(clock[s], c.id.counter)
<1>1. /\ merging[s] # <<>> /\ merging' = [merging EXCEPT ![s] = Tail(@)]
      /\ UNCHANGED network
      /\ \/ /\ Tail(merging[s]) # <<>>
            /\ doc' = [doc EXCEPT ![s] = d]
            /\ UNCHANGED <<pendingInserts, pendingDeletes, draining>>
         \/ /\ Tail(merging[s]) = <<>>
            /\ SettlePending(s, d)
  BY DEF MergeNext, buffers
<1>2. /\ doc[s] \in Seq(Char) /\ merging[s] \in Seq(Char) /\ clock[s] \in Nat
      /\ TreeOrder(doc[s]) /\ Covers(clock[s], doc[s])
      /\ MergesInOrder(doc[s], merging[s])
      /\ \A x \in draining[s] : isInsertReady(doc[s], x)
  BY DEF DocInv, TypeOK, SiteInv
<1>3. /\ c \in Char /\ Tail(merging[s]) \in Seq(Char)
      /\ isInsertReady(doc[s], c) /\ MergesInOrder(d, Tail(merging[s]))
  BY <1>1, <1>2, MergeHeadFacts
<1>4. clock' = [clock EXCEPT ![s] = k]
  BY DEF MergeNext, DocInv, TypeOK
<1> HIDE DEF c
<1>5. /\ d \in Seq(Char) /\ TreeOrder(d)
      /\ NamesOf(d) \subseteq NamesOf(doc[s]) \cup {Name(c)}
      /\ \A id : HasChar(d, id) <=> HasChar(doc[s], id) \/ id = c.id
  BY <1>2, <1>3, MergeCharFacts
<1>6. k \in Nat /\ Covers(k, d)
  <2>1. CASE HasChar(doc[s], c.id)
    <3>1. d = doc[s] \/ d = integrateRemoteDeletes(doc[s], {c.id})
      BY <2>1 DEF mergeChar
    <3>2. NamesOf(d) = NamesOf(doc[s])
      BY <1>2, <3>1, DeletesFacts
    <3>3. QED
      BY <1>2, <2>1, <3>2 DEF Covers
  <2>2. CASE ~HasChar(doc[s], c.id)
    <3>1. k = AtLeast(clock[s], c.id.counter)
      BY <2>2
    <3>2. k \in Nat /\ k >= clock[s] /\ k >= c.id.counter
      BY <1>2, <1>3, <3>1, CharIdTyped, AtLeastFacts
    <3>3. QED
      BY <1>2, <1>3, <1>5, <3>2, CoversGrows
  <2>3. QED
    BY <2>1, <2>2
<1> HIDE DEF d, k
<1>7. CASE Tail(merging[s]) = <<>>
  <2>1. merging' = [merging EXCEPT ![s] = <<>>] /\ SettlePending(s, d)
    BY <1>1, <1>7 DEF DocInv, TypeOK
  <2>2. QED
    BY <1>1, <1>4, <1>5, <1>6, <2>1, SettleDocInv
<1>8. CASE Tail(merging[s]) # <<>>
  <2>1. /\ doc' = [doc EXCEPT ![s] = d]
        /\ UNCHANGED <<pendingInserts, pendingDeletes, draining>>
    BY <1>1, <1>8
  <2>2. TypeOK'
    <3>1. doc' \in [Site -> Seq(Char)] /\ clock' \in [Site -> Nat]
      BY <1>4, <1>5, <1>6, <2>1 DEF DocInv, TypeOK
    <3>2. merging' \in [Site -> Seq(Char)]
      BY <1>1, <1>3 DEF DocInv, TypeOK
    <3>3. QED
      BY <1>1, <2>1, <3>1, <3>2 DEF DocInv, TypeOK, network
  <2>3. /\ doc'[s] = d /\ clock'[s] = k /\ merging'[s] = Tail(merging[s])
        /\ \A t \in Site \ {s} : /\ doc'[t] = doc[t] /\ clock'[t] = clock[t]
                                 /\ merging'[t] = merging[t]
    BY <1>1, <1>4, <2>1 DEF DocInv, TypeOK
  <2>4. SiteInv(s)'
    <3>1. \A x \in draining[s] : isInsertReady(d, x)
      BY <1>2, <1>5 DEF isInsertReady
    <3>2. QED
      BY <1>3, <1>5, <1>6, <2>1, <2>3, <3>1 DEF SiteInv
  <2>5. QED
    BY <1>1, <2>1, <2>2, <2>3, <2>4, SiteStep DEF DocInv, network
<1>9. QED
  BY <1>7, <1>8

LEMMA InitDocInv == Init => DocInv
<1> SUFFICES ASSUME Init PROVE DocInv
  OBVIOUS
<1>1. /\ <<>> \in Seq(Char) /\ Len(<<>>) = 0
  BY EmptySeq
<1>2. TypeOK
  BY <1>1 DEF Init, TypeOK
<1>3. TreeOrder(<<>>) /\ NamesOf(<<>>) = {}
  BY <1>1 DEF TreeOrder, UniqueChars, OriginsPrecede, SiblingsDescend,
              SubtreesAreContiguous, NamesOf
<1>4. ASSUME NEW s \in Site PROVE SiteInv(s)
  BY <1>1, <1>3 DEF Init, SiteInv, Covers, MergesInOrder
<1>5. QED
  BY <1>2, <1>4 DEF Init, DocInv

\* A step that changes nothing keeps DocInv.
LEMMA StutterDocInv ==
  ASSUME DocInv, UNCHANGED vars PROVE DocInv'
<1>1. UNCHANGED <<doc, clock, pendingInserts, pendingDeletes, draining, merging,
                  insertsTo, deletesTo, snapshotsSent>>
  BY DEF vars, buffers, network
<1>2. TypeOK'
  BY <1>1 DEF DocInv, TypeOK
<1>3. ASSUME NEW s \in Site PROVE SiteInv(s)'
  BY <1>1 DEF DocInv, SiteInv
<1>4. QED
  BY <1>1, <1>2, <1>3 DEF DocInv

LEMMA NextDocInv == DocInv /\ [Next]_vars => DocInv'
<1> SUFFICES ASSUME DocInv, [Next]_vars PROVE DocInv'
  OBVIOUS
<1>1. CASE UNCHANGED vars
  BY <1>1, StutterDocInv
<1>2. ASSUME NEW s \in Site,
             \/ LocalInsert(s) \/ LocalDelete(s) \/ ReceiveInsert(s) \/ ReceiveDelete(s)
             \/ ReceiveInsertAgain(s) \/ ReceiveDeleteAgain(s) \/ DrainNext(s)
             \/ SendSnapshot(s) \/ LoadSnapshot(s) \/ MergeNext(s)
      PROVE  DocInv'
  <2>1. CASE LocalInsert(s)
    BY <2>1, LocalInsertDocInv
  <2>2. CASE LocalDelete(s)
    BY <2>2, LocalDeleteDocInv
  <2>3. CASE ReceiveInsert(s) \/ ReceiveInsertAgain(s)
    BY <2>3, ReceiveInsertDocInv
  <2>4. CASE ReceiveDelete(s) \/ ReceiveDeleteAgain(s)
    BY <2>4, ReceiveDeleteDocInv
  <2>5. CASE DrainNext(s)
    BY <2>5, DrainNextDocInv
  <2>6. CASE SendSnapshot(s)
    BY <2>6, SendSnapshotDocInv
  <2>7. CASE LoadSnapshot(s)
    BY <2>7, LoadSnapshotDocInv
  <2>8. CASE MergeNext(s)
    BY <2>8, MergeNextDocInv
  <2>9. QED
    BY <1>2, <2>1, <2>2, <2>3, <2>4, <2>5, <2>6, <2>7, <2>8
<1>3. QED
  BY <1>1, <1>2 DEF Next

LEMMA AlwaysDocInv == Spec => []DocInv
<1>1. QED
  BY InitDocInv, NextDocInv, PTL DEF Spec

-----------------------------------------------------------------------------
(* The theorems about documents.                                           *)

\* Whatever users do and whatever the network does with it, the state of every
\* replica, buffer and message keeps its type.
THEOREM TypeCorrect == Spec => []TypeOK
<1>1. DocInv => TypeOK
  BY DEF DocInv
<1>2. QED
  BY <1>1, AlwaysDocInv, PTL

\* Every document and every snapshot is the pre-order walk of its tree of
\* origins, however local edits, remote operations, drains and merges mix.
THEOREM AlwaysTrees == Spec => []DocumentsAreTrees
<1>1. DocInv => DocumentsAreTrees
  BY DEF DocInv, SiteInv, SnapshotInv, DocumentsAreTrees
<1>2. QED
  BY <1>1, AlwaysDocInv, PTL

-----------------------------------------------------------------------------
(* NameInv: where the names of a step come from.                           *)

\* What Known collects, site by site.
LEMMA KnownMembers ==
  /\ \A t \in Site :
       /\ NamesOf(doc[t]) \subseteq Known
       /\ NamesOf(merging[t]) \subseteq Known
       /\ \A c \in pendingInserts[t] \cup draining[t] \cup insertsTo[t] : Name(c) \in Known
       /\ pendingDeletes[t] \cup deletesTo[t] \subseteq KnownDeletes
  /\ \A m \in snapshotsSent : NamesOf(m.chars) \subseteq Known
BY DEF Known, KnownAt, KnownDeletes

\* Identifiers stay issued while the clocks grow.
LEMMA StaysIssued ==
  ASSUME TypeOK, TypeOK', \A t \in Site : clock'[t] >= clock[t], NEW id, Issued(id)
  PROVE  Issued(id)'
<1>1. id \in Id /\ id.counter \in Nat /\ id.site \in Site /\ id.counter <= clock[id.site]
  BY DEF Issued, Id
<1>2. clock[id.site] \in Nat /\ clock'[id.site] \in Nat
  BY <1>1 DEF TypeOK
<1>3. QED
  BY <1>1, <1>2 DEF Issued

\* Every name after the step was known before it or is in S, which holds at
\* most one name, a new one; deletes name known characters.
LEMMA NameStep ==
  ASSUME TypeOK, TypeOK', NameInv, NEW S,
         \A n \in S : /\ Issued(n[1])' /\ (n[2] = Root \/ Issued(n[2]))
                      /\ \A m \in Known : m[1] # n[1]
                      /\ \A m \in S : m = n,
         \A t \in Site :
            /\ clock'[t] >= clock[t]
            /\ NamesOf(doc'[t]) \subseteq Known \cup S
            /\ NamesOf(merging'[t]) \subseteq Known
            /\ \A c \in pendingInserts'[t] \cup draining'[t] \cup insertsTo'[t] :
                  Name(c) \in Known \cup S
            /\ \A id \in pendingDeletes'[t] \cup deletesTo'[t] :
                  id \in KnownDeletes \/ \E m \in Known : m[1] = id,
         \A m \in snapshotsSent' : NamesOf(m.chars) \subseteq Known
  PROVE  NameInv' /\ Known' \subseteq Known \cup S
<1>1. Known' \subseteq Known \cup S
  <2>1. \A t \in Site : KnownAt(t)' \subseteq Known \cup S
    BY DEF KnownAt
  <2>2. QED
    BY <2>1 DEF Known
<1>2. \A id : Issued(id) => Issued(id)'
  BY StaysIssued
<1>3. \A m \in Known : Issued(m[1])' /\ (m[2] = Root \/ Issued(m[2])')
  BY <1>2 DEF NameInv
<1>4. \A m \in Known' : Issued(m[1])' /\ (m[2] = Root \/ Issued(m[2])')
  <2>1. \A n \in S : Issued(n[1])' /\ (n[2] = Root \/ Issued(n[2])')
    BY <1>2
  <2>2. QED
    BY <1>1, <1>3, <2>1
<1>5. \A m, o \in Known' : m[1] = o[1] => m[2] = o[2]
  BY <1>1 DEF NameInv
<1>6. \A id \in KnownDeletes' : Issued(id)'
  <2> SUFFICES ASSUME NEW t \in Site, NEW id \in pendingDeletes'[t] \cup deletesTo'[t]
               PROVE  Issued(id)'
    BY DEF KnownDeletes
  <2>1. id \in KnownDeletes \/ \E m \in Known : m[1] = id
    OBVIOUS
  <2>2. QED
    BY <1>2, <1>3, <2>1 DEF NameInv
<1>7. QED
  BY <1>1, <1>4, <1>5, <1>6 DEF NameInv

LEMMA LocalInsertNameInv ==
  ASSUME DocInv, DocInv', NameInv, NEW s \in Site, LocalInsert(s)
  PROVE  NameInv' /\ \A x \in Known' : x \in Known \/ x[1] = NextId(s)
<1>1. PICK origin \in Visible(doc[s]) \cup {Root} :
         /\ clock' = [clock EXCEPT ![s] = @ + 1]
         /\ doc' = [doc EXCEPT ![s] = insertChar(@, createChar(NextId(s), origin))]
         /\ insertsTo' = Relay(insertsTo, s, createChar(NextId(s), origin))
  BY DEF LocalInsert
<1>0. PICK char : char = createChar(NextId(s), origin)
  OBVIOUS
<1> DEFINE n == Name(char)
           S == {n}
<1>2. TypeOK /\ TypeOK'
  BY DEF DocInv
<1>3. doc[s] \in Seq(Char) /\ clock[s] \in Nat /\ TreeOrder(doc[s])
  BY DEF DocInv, TypeOK, SiteInv
<1>4. /\ char \in Char /\ ~HasChar(doc[s], char.id) /\ isInsertReady(doc[s], char)
      /\ n[1] = NextId(s) /\ n[2] = origin
  BY <1>0, <1>3, NextIdIsFresh, VisibleFacts DEF createChar, Char, isInsertReady, Name
<1>5. NamesOf(insertChar(doc[s], char)) = NamesOf(doc[s]) \cup {n}
  BY <1>3, <1>4, InsertFacts
<1> HIDE DEF n
<1>6. \A t \in Site : clock'[t] >= clock[t]
  BY <1>1, <1>2 DEF TypeOK
<1>7. Issued(n[1])'
  <2>1. n[1] \in Id /\ n[1].site = s /\ n[1].counter = clock[s] + 1
    BY <1>4, NextIdIsFresh DEF NextId
  <2>2. clock'[s] = clock[s] + 1
    BY <1>1, <1>2 DEF TypeOK
  <2>3. QED
    BY <1>3, <2>1, <2>2 DEF Issued
<1>8. n[2] = Root \/ Issued(n[2])
  <2>1. CASE origin = Root
    BY <1>4, <2>1
  <2>2. CASE origin \in Visible(doc[s])
    <3>1. \E m \in NamesOf(doc[s]) : m[1] = origin
      BY <1>3, <2>2, VisibleFacts, HasCharFacts
    <3>2. QED
      BY <1>4, <3>1, KnownMembers DEF NameInv
  <2>3. QED
    BY <2>1, <2>2
<1>9. \A m \in Known : m[1] # n[1]
  <2> SUFFICES ASSUME NEW m \in Known, m[1] = NextId(s) PROVE FALSE
    BY <1>4
  <2>1. m[1].counter <= clock[m[1].site]
    BY DEF NameInv, Issued
  <2>2. QED
    BY <1>3, <2>1 DEF NextId
<1>10. UNCHANGED <<pendingInserts, pendingDeletes, draining, merging, deletesTo, snapshotsSent>>
  BY DEF LocalInsert, buffers
<1>11. ASSUME NEW t \in Site
       PROVE  /\ NamesOf(doc'[t]) \subseteq Known \cup S
              /\ \A c \in insertsTo'[t] : Name(c) \in Known \cup S
  <2>1. NamesOf(doc'[t]) \subseteq Known \cup S
    BY <1>0, <1>1, <1>2, <1>5, KnownMembers DEF TypeOK, S
  <2>2. insertsTo'[t] \subseteq insertsTo[t] \cup {char}
    BY <1>0, <1>1 DEF Relay
  <2>3. QED
    BY <2>1, <2>2, KnownMembers DEF n, S
<1>12. ASSUME NEW t \in Site
       PROVE  /\ NamesOf(merging'[t]) \subseteq Known
              /\ \A c \in pendingInserts'[t] \cup draining'[t] : Name(c) \in Known
              /\ pendingDeletes'[t] \cup deletesTo'[t] \subseteq KnownDeletes
  BY <1>10, KnownMembers
<1>13. \A m \in snapshotsSent' : NamesOf(m.chars) \subseteq Known
  BY <1>10, KnownMembers
<1>14. \A x \in S :
          /\ Issued(x[1])' /\ (x[2] = Root \/ Issued(x[2]))
          /\ \A m \in Known : m[1] # x[1]
          /\ \A m \in S : m = x
  BY <1>7, <1>8, <1>9 DEF S
<1> HIDE DEF S
<1>15. \A t \in Site : \A c \in pendingInserts'[t] \cup draining'[t] \cup insertsTo'[t] :
          Name(c) \in Known \cup S
  BY <1>11, <1>12
<1>16. NameInv' /\ Known' \subseteq Known \cup S
  BY <1>2, <1>6, <1>11, <1>12, <1>13, <1>14, <1>15, NameStep
<1>17. QED
  BY <1>4, <1>16 DEF S

\* The invariant still holds, and nothing is known that was not.
NoNewNames == NameInv' /\ Known' \subseteq Known

\* The actions that bring no new name: what each changes at its own site was
\* known before.
LEMMA OldNamesStep ==
  ASSUME DocInv, DocInv', NameInv, NEW s \in Site,
         clock'[s] >= clock[s],
         NamesOf(doc'[s]) \subseteq Known, NamesOf(merging'[s]) \subseteq Known,
         \A c \in pendingInserts'[s] \cup draining'[s] : Name(c) \in Known,
         \A id \in pendingDeletes'[s] : id \in KnownDeletes \/ \E m \in Known : m[1] = id,
         \A t \in Site \ {s} :
            /\ doc'[t] = doc[t] /\ clock'[t] = clock[t] /\ merging'[t] = merging[t]
            /\ pendingInserts'[t] = pendingInserts[t] /\ draining'[t] = draining[t]
            /\ pendingDeletes'[t] = pendingDeletes[t],
         \A t \in Site :
            /\ insertsTo'[t] \subseteq insertsTo[t]
            /\ \A id \in deletesTo'[t] : id \in deletesTo[t] \/ \E m \in Known : m[1] = id,
         \A m \in snapshotsSent' : NamesOf(m.chars) \subseteq Known
  PROVE  NoNewNames
<1>1. TypeOK /\ TypeOK'
  BY DEF DocInv
<1>2. \A t \in Site : clock'[t] >= clock[t]
  <2> TAKE t \in Site
  <2>1. clock[t] \in Nat
    BY <1>1 DEF TypeOK
  <2>2. CASE t = s
    BY <2>2
  <2>3. CASE t # s
    BY <2>1, <2>3
  <2>4. QED
    BY <2>2, <2>3
<1>3. \A t \in Site : NamesOf(doc'[t]) \subseteq Known /\ NamesOf(merging'[t]) \subseteq Known
  BY KnownMembers
<1>4. \A t \in Site : \A c \in pendingInserts'[t] \cup draining'[t] \cup insertsTo'[t] :
         Name(c) \in Known
  BY KnownMembers
<1>5. \A t \in Site : \A id \in pendingDeletes'[t] \cup deletesTo'[t] :
         id \in KnownDeletes \/ \E m \in Known : m[1] = id
  BY KnownMembers
<1> DEFINE S == {}
<1>6. \A n \in S : /\ Issued(n[1])' /\ (n[2] = Root \/ Issued(n[2]))
                   /\ \A m \in Known : m[1] # n[1]
                   /\ \A m \in S : m = n
  OBVIOUS
<1> HIDE DEF S
<1>7. NameInv' /\ Known' \subseteq Known \cup S
  BY <1>1, <1>2, <1>3, <1>4, <1>5, <1>6, NameStep
<1>8. QED
  BY <1>7 DEF S, NoNewNames

\* A document that lost no name and gained none.
LEMMA DeletesNameInv ==
  ASSUME DocInv, DocInv', NameInv, NEW s \in Site, NEW ids,
         doc' = [doc EXCEPT ![s] = integrateRemoteDeletes(@, ids)],
         \A t \in Site : /\ pendingDeletes'[t] \subseteq pendingDeletes[t]
                         /\ \A id \in deletesTo'[t] :
                               id \in deletesTo[t] \/ \E m \in Known : m[1] = id,
         UNCHANGED <<clock, pendingInserts, draining, merging, insertsTo, snapshotsSent>>,
         \A t \in Site \ {s} : pendingDeletes'[t] = pendingDeletes[t]
  PROVE  NoNewNames
<1>1. doc[s] \in Seq(Char) /\ clock[s] \in Nat
  BY DEF DocInv, TypeOK
<1>2. doc'[s] = integrateRemoteDeletes(doc[s], ids) /\ \A t \in Site \ {s} : doc'[t] = doc[t]
  BY DEF DocInv, TypeOK
<1>3. NamesOf(doc'[s]) \subseteq Known
  BY <1>1, <1>2, DeletesFacts, KnownMembers
<1>4. \A id \in pendingDeletes'[s] : id \in KnownDeletes
  BY KnownMembers
<1>5. QED
  BY <1>1, <1>2, <1>3, <1>4, KnownMembers, OldNamesStep

LEMMA LocalDeleteNameInv ==
  ASSUME DocInv, DocInv', NameInv, NEW s \in Site, LocalDelete(s)
  PROVE  NoNewNames
<1>1. PICK id \in Visible(doc[s]) :
         /\ doc' = [doc EXCEPT ![s] = integrateRemoteDeletes(@, {id})]
         /\ deletesTo' = Relay(deletesTo, s, id)
  BY DEF LocalDelete
<1>2. \E m \in Known : m[1] = id
  BY VisibleFacts, HasCharFacts, KnownMembers DEF DocInv, TypeOK
<1>3. \A t \in Site : \A x \in deletesTo'[t] : x \in deletesTo[t] \/ \E m \in Known : m[1] = x
  BY <1>1, <1>2 DEF Relay
<1>4. UNCHANGED <<clock, pendingInserts, pendingDeletes, draining, merging, insertsTo,
                  snapshotsSent>>
  BY DEF LocalDelete, buffers
<1>5. QED
  BY <1>1, <1>3, <1>4, DeletesNameInv

LEMMA DrainNameInv ==
  ASSUME DocInv, DocInv', NameInv, NEW s \in Site, NEW char \in Char,
         isInsertReady(doc[s], char), Name(char) \in Known,
         NEW rest, \A c \in rest : Name(c) \in Known,
         IntegrateAndDrain(s, char, rest),
         \A t \in Site : insertsTo'[t] \subseteq insertsTo[t],
         UNCHANGED <<merging, deletesTo, snapshotsSent>>
  PROVE  NoNewNames
<1> DEFINE d == integrateRemoteDeletes(integrateRemoteInsert(doc[s], char),
                                       pendingDeletes[s] \cap {char.id})
           waiting == {c \in pendingInserts[s] : c.origin = char.id}
<1>1. /\ doc[s] \in Seq(Char) /\ clock[s] \in Nat /\ TreeOrder(doc[s])
      /\ Covers(clock[s], doc[s])
  BY DEF DocInv, TypeOK, SiteInv
<1>2. NamesOf(d) \subseteq NamesOf(doc[s]) \cup {Name(char)}
  BY <1>1, IntegrateFacts
<1>3. /\ clock' = [clock EXCEPT ![s] = AtLeast(@, char.id.counter)]
      /\ doc' = [doc EXCEPT ![s] = d]
      /\ pendingDeletes' = [pendingDeletes EXCEPT ![s] = @ \ {char.id}]
      /\ pendingInserts' = [pendingInserts EXCEPT ![s] = @ \ waiting]
      /\ draining' = [draining EXCEPT ![s] = rest \cup waiting]
  BY DEF IntegrateAndDrain
<1>4. waiting \subseteq pendingInserts[s]
  OBVIOUS
<1> HIDE DEF d, waiting
<1>5. /\ doc'[s] = d /\ clock'[s] = AtLeast(clock[s], char.id.counter)
      /\ draining'[s] = rest \cup waiting
      /\ pendingInserts'[s] \subseteq pendingInserts[s]
      /\ pendingDeletes'[s] \subseteq pendingDeletes[s]
      /\ \A t \in Site \ {s} :
            /\ doc'[t] = doc[t] /\ clock'[t] = clock[t] /\ draining'[t] = draining[t]
            /\ pendingInserts'[t] = pendingInserts[t]
            /\ pendingDeletes'[t] = pendingDeletes[t]
  BY <1>3 DEF DocInv, TypeOK
<1>6. clock'[s] >= clock[s]
  BY <1>1, <1>5, CharIdTyped, AtLeastFacts
<1>7. NamesOf(doc'[s]) \subseteq Known /\ NamesOf(merging'[s]) \subseteq Known
  BY <1>2, <1>5, KnownMembers
<1>8. \A c \in pendingInserts'[s] \cup draining'[s] : Name(c) \in Known
  BY <1>4, <1>5, KnownMembers
<1>9. \A id \in pendingDeletes'[s] : id \in KnownDeletes
  BY <1>5, KnownMembers
<1>10. QED
  BY <1>5, <1>6, <1>7, <1>8, <1>9, KnownMembers, OldNamesStep

LEMMA ReceiveInsertNameInv ==
  ASSUME DocInv, DocInv', NameInv, NEW s \in Site,
         ReceiveInsert(s) \/ ReceiveInsertAgain(s)
  PROVE  NoNewNames
<1>1. PICK char \in Char : /\ processInsert(s, char)
                           /\ Name(char) \in Known
                           /\ \A t \in Site : insertsTo'[t] \subseteq insertsTo[t]
  <2>1. CASE ReceiveInsert(s)
    <3>1. PICK char \in insertsTo[s] : /\ processInsert(s, char)
                                       /\ insertsTo' = [insertsTo EXCEPT ![s] = @ \ {char}]
      BY <2>1 DEF ReceiveInsert
    <3>2. char \in Char /\ \A t \in Site : insertsTo'[t] \subseteq insertsTo[t]
      BY <3>1 DEF DocInv, TypeOK
    <3>3. QED
      BY <3>1, <3>2, KnownMembers
  <2>2. CASE ReceiveInsertAgain(s)
    <3>1. PICK char \in pendingInserts[s] \cup
                         {createChar(c.id, c.origin) : c \in ToSet(doc[s])} :
             processInsert(s, char)
      BY <2>2 DEF ReceiveInsertAgain
    <3>2. char \in Char /\ Name(char) \in Known
      <4>1. CASE char \in pendingInserts[s]
        BY <4>1, KnownMembers DEF DocInv, TypeOK
      <4>2. CASE char \in {createChar(c.id, c.origin) : c \in ToSet(doc[s])}
        <5>1. PICK c \in ToSet(doc[s]) : char = createChar(c.id, c.origin)
          BY <4>2
        <5>2. Name(char) = Name(c)
          BY <5>1 DEF createChar, Name
        <5>3. QED
          BY <5>1, <5>2, CharsOfDoc, KnownMembers DEF DocInv, TypeOK
      <4>3. QED
        BY <4>1, <4>2
    <3>3. insertsTo' = insertsTo
      BY <2>2 DEF ReceiveInsertAgain, network
    <3>4. QED
      BY <3>1, <3>2, <3>3
  <2>3. QED
    BY <2>1, <2>2
<1>2. UNCHANGED <<merging, deletesTo, snapshotsSent>>
  BY DEF ReceiveInsert, ReceiveInsertAgain, network
<1>3. CASE isInsertReady(doc[s], char)
  <2>1. IntegrateAndDrain(s, char, {})
    BY <1>1, <1>3 DEF processInsert
  <2>2. QED
    BY <1>1, <1>2, <1>3, <2>1, DrainNameInv
<1>4. CASE ~isInsertReady(doc[s], char)
  <2>1. /\ pendingInserts' = [pendingInserts EXCEPT ![s] = @ \cup {char}]
        /\ UNCHANGED <<doc, clock, pendingDeletes, draining>>
    BY <1>1, <1>4 DEF processInsert
  <2>2. /\ \A c \in pendingInserts'[s] \cup draining'[s] : Name(c) \in Known
        /\ \A t \in Site \ {s} : pendingInserts'[t] = pendingInserts[t]
    BY <1>1, <2>1, KnownMembers DEF DocInv, TypeOK
  <2>3. clock'[s] >= clock[s]
    BY <2>1 DEF DocInv, TypeOK
  <2>4. QED
    BY <1>1, <1>2, <2>1, <2>2, <2>3, KnownMembers, OldNamesStep
<1>5. QED
  BY <1>3, <1>4

LEMMA DrainNextNameInv ==
  ASSUME DocInv, DocInv', NameInv, NEW s \in Site, DrainNext(s)
  PROVE  NoNewNames
<1>1. PICK char \in draining[s] : IntegrateAndDrain(s, char, draining[s] \ {char})
  BY DEF DrainNext
<1>2. UNCHANGED <<merging, insertsTo, deletesTo, snapshotsSent>>
  BY DEF DrainNext, network
<1>3. char \in Char /\ isInsertReady(doc[s], char)
  BY DEF DocInv, TypeOK, SiteInv
<1>4. QED
  BY <1>1, <1>2, <1>3, KnownMembers, DrainNameInv

LEMMA ReceiveDeleteNameInv ==
  ASSUME DocInv, DocInv', NameInv, NEW s \in Site,
         ReceiveDelete(s) \/ ReceiveDeleteAgain(s)
  PROVE  NoNewNames
<1>1. PICK id : /\ processDelete(s, id)
                /\ id \in KnownDeletes \/ \E m \in Known : m[1] = id
                /\ \A t \in Site : deletesTo'[t] \subseteq deletesTo[t]
  <2>1. CASE ReceiveDelete(s)
    <3>1. PICK id \in deletesTo[s] : /\ processDelete(s, id)
                                     /\ deletesTo' = [deletesTo EXCEPT ![s] = @ \ {id}]
      BY <2>1 DEF ReceiveDelete
    <3>2. QED
      BY <3>1, KnownMembers DEF DocInv, TypeOK
  <2>2. CASE ReceiveDeleteAgain(s)
    <3>1. PICK id \in pendingDeletes[s] \cup Tombstones(doc[s]) : processDelete(s, id)
      BY <2>2 DEF ReceiveDeleteAgain
    <3>2. ASSUME id \in Tombstones(doc[s]) PROVE \E m \in Known : m[1] = id
      <4>1. PICK i \in 1..Len(doc[s]) : id = doc[s][i].id
        BY <3>2 DEF Tombstones
      <4>2. Name(doc[s][i]) \in NamesOf(doc[s]) /\ Name(doc[s][i])[1] = id
        BY <4>1 DEF NamesOf, Name
      <4>3. QED
        BY <4>2, KnownMembers
    <3>3. deletesTo' = deletesTo
      BY <2>2 DEF ReceiveDeleteAgain, network
    <3>4. QED
      BY <3>1, <3>2, <3>3, KnownMembers
  <2>3. QED
    BY <2>1, <2>2
<1>2. UNCHANGED <<clock, pendingInserts, draining, merging, insertsTo, snapshotsSent>>
  BY DEF ReceiveDelete, ReceiveDeleteAgain, network
<1>3. CASE HasChar(doc[s], id)
  <2>1. /\ doc' = [doc EXCEPT ![s] = integrateRemoteDeletes(@, {id})]
        /\ UNCHANGED pendingDeletes
    BY <1>1, <1>3 DEF processDelete
  <2>2. QED
    BY <1>1, <1>2, <2>1, DeletesNameInv
<1>4. CASE ~HasChar(doc[s], id)
  <2>1. /\ pendingDeletes' = [pendingDeletes EXCEPT ![s] = @ \cup {id}]
        /\ UNCHANGED doc
    BY <1>1, <1>4 DEF processDelete
  <2>2. /\ \A x \in pendingDeletes'[s] : x \in KnownDeletes \/ \E m \in Known : m[1] = x
        /\ \A t \in Site \ {s} : pendingDeletes'[t] = pendingDeletes[t]
    BY <1>1, <2>1, KnownMembers DEF DocInv, TypeOK
  <2>3. clock'[s] >= clock[s]
    BY <1>2 DEF DocInv, TypeOK
  <2>4. QED
    BY <1>1, <1>2, <2>1, <2>2, <2>3, KnownMembers, OldNamesStep
<1>5. QED
  BY <1>3, <1>4

LEMMA SendSnapshotNameInv ==
  ASSUME DocInv, DocInv', NameInv, NEW s \in Site, SendSnapshot(s)
  PROVE  NoNewNames
<1>1. /\ snapshotsSent' = snapshotsSent \cup {[clock |-> clock[s], chars |-> doc[s]]}
      /\ UNCHANGED <<doc, clock, pendingInserts, pendingDeletes, draining, merging,
                     insertsTo, deletesTo>>
  BY DEF SendSnapshot, buffers
<1>2. \A m \in snapshotsSent' : NamesOf(m.chars) \subseteq Known
  BY <1>1, KnownMembers
<1>3. clock'[s] >= clock[s]
  BY <1>1 DEF DocInv, TypeOK
<1>4. QED
  BY <1>1, <1>2, <1>3, KnownMembers, OldNamesStep

LEMMA SettleNameInv ==
  ASSUME DocInv, DocInv', NameInv, NEW s \in Site,
         NEW d \in Seq(Char), NamesOf(d) \subseteq Known,
         clock'[s] >= clock[s], \A t \in Site \ {s} : clock'[t] = clock[t],
         merging' = [merging EXCEPT ![s] = <<>>],
         SettlePending(s, d), UNCHANGED network
  PROVE  NoNewNames
<1> DEFINE ready == {c \in pendingInserts[s] : isInsertReady(d, c)}
           found == pendingDeletes[s] \cap Ids(d)
           e == integrateRemoteDeletes(d, found)
<1>1. /\ doc' = [doc EXCEPT ![s] = e]
      /\ pendingDeletes' = [pendingDeletes EXCEPT ![s] = @ \ found]
      /\ pendingInserts' = [pendingInserts EXCEPT ![s] = @ \ ready]
      /\ draining' = [draining EXCEPT ![s] = ready]
  BY DEF SettlePending
<1>2. NamesOf(e) = NamesOf(d) /\ ready \subseteq pendingInserts[s]
  BY DeletesFacts
<1> HIDE DEF e, ready, found
<1>3. NamesOf(<<>>) = {}
  BY EmptySeq DEF NamesOf
<1>4. /\ doc'[s] = e /\ merging'[s] = <<>> /\ draining'[s] = ready
      /\ pendingInserts'[s] \subseteq pendingInserts[s]
      /\ pendingDeletes'[s] \subseteq pendingDeletes[s]
      /\ \A t \in Site \ {s} :
            /\ doc'[t] = doc[t] /\ merging'[t] = merging[t]
            /\ pendingInserts'[t] = pendingInserts[t] /\ draining'[t] = draining[t]
            /\ pendingDeletes'[t] = pendingDeletes[t]
  BY <1>1 DEF DocInv, TypeOK
<1>5. NamesOf(doc'[s]) \subseteq Known /\ NamesOf(merging'[s]) \subseteq Known
  BY <1>2, <1>3, <1>4
<1>6. \A c \in pendingInserts'[s] \cup draining'[s] : Name(c) \in Known
  BY <1>2, <1>4, KnownMembers
<1>7. \A id \in pendingDeletes'[s] : id \in KnownDeletes
  BY <1>4, KnownMembers
<1>8. QED
  BY <1>4, <1>5, <1>6, <1>7, KnownMembers, OldNamesStep DEF network

LEMMA LoadSnapshotNameInv ==
  ASSUME DocInv, DocInv', NameInv, NEW s \in Site, LoadSnapshot(s)
  PROVE  NoNewNames
<1>1. PICK m \in snapshotsSent :
         /\ clock' = [clock EXCEPT ![s] = AtLeast(@, m.clock)]
         /\ \/ /\ doc[s] = <<>> \/ m.chars = <<>>
               /\ SettlePending(s, IF doc[s] = <<>> THEN m.chars ELSE doc[s])
               /\ UNCHANGED merging
            \/ /\ doc[s] # <<>> /\ m.chars # <<>>
               /\ merging' = [merging EXCEPT ![s] = m.chars]
               /\ UNCHANGED <<doc, pendingInserts, pendingDeletes, draining>>
  BY DEF LoadSnapshot, buffers
<1>2. /\ m.chars \in Seq(Char) /\ m.clock \in Nat /\ doc[s] \in Seq(Char) /\ clock[s] \in Nat
      /\ NamesOf(m.chars) \subseteq Known /\ NamesOf(doc[s]) \subseteq Known
  BY KnownMembers DEF DocInv, TypeOK, Snapshot
<1>3. clock'[s] >= clock[s] /\ \A t \in Site \ {s} : clock'[t] = clock[t]
  BY <1>1, <1>2, AtLeastFacts DEF DocInv, TypeOK
<1>4. merging[s] = <<>> /\ UNCHANGED network
  BY DEF LoadSnapshot, Quiet
<1>5. CASE doc[s] = <<>> \/ m.chars = <<>>
  <2> DEFINE d == IF doc[s] = <<>> THEN m.chars ELSE doc[s]
  <2>1. SettlePending(s, d) /\ UNCHANGED merging
    BY <1>1, <1>5
  <2>2. d \in Seq(Char) /\ NamesOf(d) \subseteq Known
    BY <1>2
  <2> HIDE DEF d
  <2>3. merging' = [merging EXCEPT ![s] = <<>>]
    BY <1>4, <2>1 DEF DocInv, TypeOK
  <2>4. QED
    BY <1>3, <1>4, <2>1, <2>2, <2>3, SettleNameInv
<1>6. CASE doc[s] # <<>> /\ m.chars # <<>>
  <2>1. /\ merging' = [merging EXCEPT ![s] = m.chars]
        /\ UNCHANGED <<doc, pendingInserts, pendingDeletes, draining>>
    BY <1>1, <1>6
  <2>2. /\ NamesOf(merging'[s]) \subseteq Known
        /\ \A t \in Site \ {s} : merging'[t] = merging[t]
    BY <1>2, <2>1 DEF DocInv, TypeOK
  <2>3. QED
    BY <1>3, <1>4, <2>1, <2>2, KnownMembers, OldNamesStep DEF network
<1>7. QED
  BY <1>5, <1>6

LEMMA MergeNextNameInv ==
  ASSUME DocInv, DocInv', NameInv, NEW s \in Site, MergeNext(s)
  PROVE  NoNewNames
<1> DEFINE c == Head(merging[s])
           d == mergeChar(doc[s], c)
<1>1. /\ merging[s] # <<>> /\ merging' = [merging EXCEPT ![s] = Tail(@)]
      /\ UNCHANGED network
      /\ \/ /\ Tail(merging[s]) # <<>>
            /\ doc' = [doc EXCEPT ![s] = d]
            /\ UNCHANGED <<pendingInserts, pendingDeletes, draining>>
         \/ /\ Tail(merging[s]) = <<>>
            /\ SettlePending(s, d)
  BY DEF MergeNext, buffers
<1>2. /\ doc[s] \in Seq(Char) /\ merging[s] \in Seq(Char) /\ clock[s] \in Nat
      /\ TreeOrder(doc[s]) /\ MergesInOrder(doc[s], merging[s])
  BY DEF DocInv, TypeOK, SiteInv
<1>3. c \in Char /\ isInsertReady(doc[s], c)
  BY <1>1, <1>2, MergeHeadFacts
<1>4. d \in Seq(Char) /\ NamesOf(d) \subseteq NamesOf(doc[s]) \cup {Name(c)}
  BY <1>2, <1>3, MergeCharFacts
<1>5. /\ Name(c) \in NamesOf(merging[s])
      /\ NamesOf(Tail(merging[s])) \subseteq NamesOf(merging[s])
  <2>1. /\ Len(merging[s]) \in Nat \ {0} /\ c = merging[s][1]
        /\ Len(Tail(merging[s])) = Len(merging[s]) - 1
        /\ \A i \in 1..(Len(merging[s]) - 1) : Tail(merging[s])[i] = merging[s][i + 1]
    BY <1>1, <1>2, HeadTailProperties, LenProperties, EmptySeq
  <2> HIDE DEF c
  <2>2. 1 \in 1..Len(merging[s])
    BY <2>1
  <2>3. ASSUME NEW i \in 1..(Len(merging[s]) - 1)
        PROVE  Name(Tail(merging[s])[i]) \in NamesOf(merging[s])
    <3>1. i + 1 \in 1..Len(merging[s])
      BY <2>1
    <3>2. QED
      BY <2>1, <3>1 DEF NamesOf
  <2>4. QED
    BY <2>1, <2>2, <2>3 DEF NamesOf
<1> HIDE DEF c
<1>6. NamesOf(d) \subseteq Known /\ NamesOf(Tail(merging[s])) \subseteq Known
  BY <1>4, <1>5, KnownMembers
<1>7. clock'[s] >= clock[s] /\ \A t \in Site \ {s} : clock'[t] = clock[t]
  <2>1. clock' = clock \/ clock' = [clock EXCEPT ![s] = AtLeast(@, c.id.counter)]
    BY DEF MergeNext, c
  <2>2. AtLeast(clock[s], c.id.counter) >= clock[s]
    BY <1>2, <1>3, CharIdTyped, AtLeastFacts
  <2>3. QED
    BY <1>2, <2>1, <2>2 DEF DocInv, TypeOK
<1> HIDE DEF d
<1>8. CASE Tail(merging[s]) = <<>>
  <2>1. merging' = [merging EXCEPT ![s] = <<>>] /\ SettlePending(s, d)
    BY <1>1, <1>8 DEF DocInv, TypeOK
  <2>2. QED
    BY <1>1, <1>4, <1>6, <1>7, <2>1, SettleNameInv
<1>9. CASE Tail(merging[s]) # <<>>
  <2>1. /\ doc' = [doc EXCEPT ![s] = d]
        /\ UNCHANGED <<pendingInserts, pendingDeletes, draining>>
    BY <1>1, <1>9
  <2>2. /\ NamesOf(doc'[s]) \subseteq Known /\ NamesOf(merging'[s]) \subseteq Known
        /\ \A t \in Site \ {s} : doc'[t] = doc[t] /\ merging'[t] = merging[t]
    BY <1>1, <1>6, <2>1 DEF DocInv, TypeOK
  <2>3. QED
    BY <1>1, <1>7, <2>1, <2>2, KnownMembers, OldNamesStep DEF network
<1>10. QED
  BY <1>8, <1>9

LEMMA InitNothingKnown == ASSUME Init PROVE Known = {} /\ KnownDeletes = {}
<1>1. NamesOf(<<>>) = {}
  BY EmptySeq DEF NamesOf
<1>2. \A s \in Site : KnownAt(s) = {}
  BY <1>1 DEF Init, KnownAt
<1>3. snapshotsSent = {} /\ \A s \in Site : pendingDeletes[s] = {} /\ deletesTo[s] = {}
  BY DEF Init
<1>4. QED
  BY <1>2, <1>3 DEF Known, KnownDeletes

LEMMA InitNameInv == Init => NameInv
BY InitNothingKnown DEF NameInv

LEMMA StutterNameInv ==
  ASSUME NameInv, UNCHANGED vars PROVE NameInv'
<1>1. UNCHANGED <<doc, clock, pendingInserts, pendingDeletes, draining, merging,
                  insertsTo, deletesTo, snapshotsSent>>
  BY DEF vars, buffers, network
<1>2. \A s \in Site : KnownAt(s)' = KnownAt(s)
  BY <1>1 DEF KnownAt
<1>3. Known' = Known /\ KnownDeletes' = KnownDeletes
  BY <1>1, <1>2 DEF Known, KnownDeletes
<1>4. \A id : Issued(id)' <=> Issued(id)
  BY <1>1 DEF Issued
<1>5. QED
  BY <1>3, <1>4 DEF NameInv

LEMMA NextNameInv == DocInv /\ DocInv' /\ NameInv /\ [Next]_vars => NameInv'
<1> SUFFICES ASSUME DocInv, DocInv', NameInv, [Next]_vars PROVE NameInv'
  OBVIOUS
<1>1. CASE UNCHANGED vars
  BY <1>1, StutterNameInv
<1>2. ASSUME NEW s \in Site,
             \/ LocalInsert(s) \/ LocalDelete(s) \/ ReceiveInsert(s) \/ ReceiveDelete(s)
             \/ ReceiveInsertAgain(s) \/ ReceiveDeleteAgain(s) \/ DrainNext(s)
             \/ SendSnapshot(s) \/ LoadSnapshot(s) \/ MergeNext(s)
      PROVE  NameInv'
  <2>1. CASE LocalInsert(s)
    BY <2>1, LocalInsertNameInv
  <2>2. CASE LocalDelete(s)
    BY <2>2, LocalDeleteNameInv DEF NoNewNames
  <2>3. CASE ReceiveInsert(s) \/ ReceiveInsertAgain(s)
    BY <2>3, ReceiveInsertNameInv DEF NoNewNames
  <2>4. CASE ReceiveDelete(s) \/ ReceiveDeleteAgain(s)
    BY <2>4, ReceiveDeleteNameInv DEF NoNewNames
  <2>5. CASE DrainNext(s)
    BY <2>5, DrainNextNameInv DEF NoNewNames
  <2>6. CASE SendSnapshot(s)
    BY <2>6, SendSnapshotNameInv DEF NoNewNames
  <2>7. CASE LoadSnapshot(s)
    BY <2>7, LoadSnapshotNameInv DEF NoNewNames
  <2>8. CASE MergeNext(s)
    BY <2>8, MergeNextNameInv DEF NoNewNames
  <2>9. QED
    BY <1>2, <2>1, <2>2, <2>3, <2>4, <2>5, <2>6, <2>7, <2>8
<1>3. QED
  BY <1>1, <1>2 DEF Next

LEMMA AlwaysNameInv == Spec => []NameInv
BY AlwaysDocInv, InitNameInv, NextNameInv, PTL DEF Spec

-----------------------------------------------------------------------------
(* The theorems about the room.                                            *)

\* An identifier names one character in the whole room, in documents, buffers
\* and messages alike: the Lamport clock of the site that issues it is ahead of
\* everything that carries that site's number.
THEOREM AlwaysIdsAreGlobal == Spec => []IdsAreGlobal
<1>1. DocInv /\ NameInv => IdsAreGlobal
  <2> SUFFICES ASSUME DocInv, NameInv, NEW a \in AllChars, NEW b \in AllChars, a.id = b.id
               PROVE  a.origin = b.origin
    BY DEF IdsAreGlobal
  <2>1. ASSUME NEW c \in AllChars PROVE Name(c) \in Known
    <3>1. PICK s \in Site :
             c \in ToSet(doc[s]) \cup pendingInserts[s] \cup draining[s] \cup insertsTo[s]
      BY DEF AllChars
    <3>2. QED
      BY <3>1, CharsOfDoc, KnownMembers DEF DocInv, TypeOK
  <2>2. Name(a)[1] = Name(b)[1] => Name(a)[2] = Name(b)[2]
    BY <2>1 DEF NameInv
  <2>3. QED
    BY <2>2 DEF Name
<1>2. QED
  BY <1>1, AlwaysDocInv, AlwaysNameInv, PTL

\* Strong convergence: two replicas that hold the same characters show them in
\* the same order.  Both documents are in tree order and agree on every origin,
\* and the tree order leaves no choice.
THEOREM AlwaysConvergence == Spec => []Convergence
<1>1. DocInv /\ NameInv => Convergence
  <2> SUFFICES ASSUME DocInv, NameInv, NEW s \in Site, NEW t \in Site,
                      Ids(doc[s]) = Ids(doc[t]), NEW i \in 1..Len(doc[s])
               PROVE  doc[s][i].id = doc[t][i].id
    BY DEF Convergence
  <2>1. /\ doc[s] \in Seq(Char) /\ TreeOrder(doc[s])
        /\ doc[t] \in Seq(Char) /\ TreeOrder(doc[t])
    BY DEF DocInv, TypeOK, SiteInv
  <2>2. ASSUME NEW j \in 1..Len(doc[s]), NEW k \in 1..Len(doc[t]),
               doc[s][j].id = doc[t][k].id
        PROVE  doc[s][j].origin = doc[t][k].origin
    <3>1. Name(doc[s][j]) \in Known /\ Name(doc[t][k]) \in Known
      BY KnownMembers DEF NamesOf
    <3>2. Name(doc[s][j])[1] = Name(doc[t][k])[1] => Name(doc[s][j])[2] = Name(doc[t][k])[2]
      BY <3>1 DEF NameInv
    <3>3. QED
      BY <2>2, <3>2 DEF Name
  <2>3. QED
    BY <2>1, <2>2, TreeOrderIsDetermined
<1>2. QED
  BY <1>1, AlwaysDocInv, AlwaysNameInv, PTL

-----------------------------------------------------------------------------
(* HistoryIsKept: no step of a handler loses, reorders or undeletes.       *)

LEMMA KeepsItself ==
  ASSUME NEW d \in Seq(Char), UniqueChars(d) PROVE Keeps(d, d)
<1>1. Len(d) \in Nat
  BY LenProperties
<1>2. \A i \in 1..Len(d) : IndexOf(d, d[i].id) = i
  BY IndexOfUnique
<1>3. QED
  BY <1>1, <1>2 DEF Keeps, HasChar

\* A handler that takes its own site's document to one that keeps it.
LEMMA KeepsStep ==
  ASSUME DocInv, NEW s \in Site, NEW e,
         doc' = [doc EXCEPT ![s] = e], Keeps(doc[s], e)
  PROVE  \A t \in Site : Keeps(doc[t], doc'[t])
<1> TAKE t \in Site
<1>1. CASE t = s
  BY <1>1 DEF DocInv, TypeOK
<1>2. CASE t # s
  <2>1. doc'[t] = doc[t] /\ doc[t] \in Seq(Char) /\ UniqueChars(doc[t])
    BY <1>2 DEF DocInv, TypeOK, SiteInv, TreeOrder
  <2>2. QED
    BY <2>1, KeepsItself
<1>3. QED
  BY <1>1, <1>2

LEMMA SameDocKeeps ==
  ASSUME DocInv, UNCHANGED doc PROVE \A t \in Site : Keeps(doc[t], doc'[t])
BY KeepsItself DEF DocInv, TypeOK, SiteInv, TreeOrder

LEMMA EditKeeps ==
  ASSUME DocInv, NEW s \in Site, LocalInsert(s) \/ LocalDelete(s)
  PROVE  \A t \in Site : Keeps(doc[t], doc'[t])
<1>1. doc[s] \in Seq(Char) /\ TreeOrder(doc[s])
  BY DEF DocInv, TypeOK, SiteInv
<1>2. CASE LocalInsert(s)
  <2>1. PICK origin \in Visible(doc[s]) \cup {Root} :
           doc' = [doc EXCEPT ![s] = insertChar(@, createChar(NextId(s), origin))]
    BY <1>2 DEF LocalInsert
  <2> DEFINE char == createChar(NextId(s), origin)
  <2>2. /\ char \in Char /\ ~HasChar(doc[s], char.id) /\ isInsertReady(doc[s], char)
    BY <1>1, NextIdIsFresh, VisibleFacts DEF createChar, Char, isInsertReady
  <2>3. Keeps(doc[s], insertChar(doc[s], char))
    BY <1>1, <2>2, InsertFacts
  <2>4. doc' = [doc EXCEPT ![s] = insertChar(doc[s], char)]
    BY <2>1
  <2> HIDE DEF char
  <2>5. QED
    BY <2>3, <2>4, KeepsStep
<1>3. CASE LocalDelete(s)
  <2>1. PICK id : doc' = [doc EXCEPT ![s] = integrateRemoteDeletes(doc[s], {id})]
    BY <1>3 DEF LocalDelete
  <2>2. Keeps(doc[s], integrateRemoteDeletes(doc[s], {id}))
    BY <1>1, DeletesKeep DEF TreeOrder
  <2>3. QED
    BY <2>1, <2>2, KeepsStep
<1>4. QED
  BY <1>2, <1>3

LEMMA IntegrateKeeps ==
  ASSUME DocInv, NEW s \in Site, NEW char \in Char, isInsertReady(doc[s], char),
         NEW rest, IntegrateAndDrain(s, char, rest)
  PROVE  \A t \in Site : Keeps(doc[t], doc'[t])
<1> DEFINE e == integrateRemoteDeletes(integrateRemoteInsert(doc[s], char),
                                       pendingDeletes[s] \cap {char.id})
<1>1. /\ doc[s] \in Seq(Char) /\ clock[s] \in Nat /\ TreeOrder(doc[s])
      /\ Covers(clock[s], doc[s])
  BY DEF DocInv, TypeOK, SiteInv
<1>2. Keeps(doc[s], e)
  BY <1>1, IntegrateFacts
<1>3. doc' = [doc EXCEPT ![s] = e]
  BY DEF IntegrateAndDrain
<1> HIDE DEF e
<1>4. QED
  BY <1>2, <1>3, KeepsStep

LEMMA ReceiveKeeps ==
  ASSUME DocInv, NEW s \in Site,
         \/ ReceiveInsert(s) \/ ReceiveInsertAgain(s) \/ DrainNext(s)
         \/ ReceiveDelete(s) \/ ReceiveDeleteAgain(s)
  PROVE  \A t \in Site : Keeps(doc[t], doc'[t])
<1>1. CASE ReceiveInsert(s) \/ ReceiveInsertAgain(s)
  <2>1. PICK char \in Char : processInsert(s, char)
    BY <1>1, CharsOfDoc DEF ReceiveInsert, ReceiveInsertAgain, DocInv, TypeOK
  <2>2. \/ UNCHANGED doc
        \/ isInsertReady(doc[s], char) /\ IntegrateAndDrain(s, char, {})
    BY <2>1 DEF processInsert
  <2>3. QED
    BY <2>2, SameDocKeeps, IntegrateKeeps
<1>2. CASE DrainNext(s)
  <2>1. PICK char \in draining[s] : IntegrateAndDrain(s, char, draining[s] \ {char})
    BY <1>2 DEF DrainNext
  <2>2. char \in Char /\ isInsertReady(doc[s], char)
    BY DEF DocInv, TypeOK, SiteInv
  <2>3. QED
    BY <2>1, <2>2, IntegrateKeeps
<1>3. CASE ReceiveDelete(s) \/ ReceiveDeleteAgain(s)
  <2>1. PICK id : processDelete(s, id)
    BY <1>3 DEF ReceiveDelete, ReceiveDeleteAgain
  <2>2. UNCHANGED doc \/ doc' = [doc EXCEPT ![s] = integrateRemoteDeletes(doc[s], {id})]
    BY <2>1 DEF processDelete
  <2>3. Keeps(doc[s], integrateRemoteDeletes(doc[s], {id}))
    BY DeletesKeep DEF DocInv, TypeOK, SiteInv, TreeOrder
  <2>4. QED
    BY <2>2, <2>3, SameDocKeeps, KeepsStep
<1>4. QED
  BY <1>1, <1>2, <1>3

LEMMA SnapshotKeeps ==
  ASSUME DocInv, NEW s \in Site, SendSnapshot(s) \/ LoadSnapshot(s) \/ MergeNext(s)
  PROVE  \A t \in Site : Keeps(doc[t], doc'[t])
<1>1. CASE SendSnapshot(s)
  BY <1>1, SameDocKeeps DEF SendSnapshot
<1>2. doc[s] \in Seq(Char) /\ TreeOrder(doc[s]) /\ UniqueChars(doc[s])
  BY DEF DocInv, TypeOK, SiteInv, TreeOrder
<1>3. ASSUME NEW d \in Seq(Char), TreeOrder(d), Keeps(doc[s], d), SettlePending(s, d)
      PROVE  \A t \in Site : Keeps(doc[t], doc'[t])
  <2> DEFINE e == integrateRemoteDeletes(d, pendingDeletes[s] \cap Ids(d))
  <2>1. doc' = [doc EXCEPT ![s] = e]
    BY <1>3 DEF SettlePending
  <2>2. e \in Seq(Char) /\ Keeps(d, e)
    BY <1>3, DeletesFacts, DeletesKeep DEF TreeOrder
  <2> HIDE DEF e
  <2>3. Keeps(doc[s], e)
    BY <1>2, <1>3, <2>2, KeepsIsTransitive DEF TreeOrder
  <2>4. QED
    BY <2>1, <2>3, KeepsStep
<1>4. CASE LoadSnapshot(s)
  <2>1. PICK m \in snapshotsSent :
          \/ /\ doc[s] = <<>> \/ m.chars = <<>>
             /\ SettlePending(s, IF doc[s] = <<>> THEN m.chars ELSE doc[s])
          \/ UNCHANGED doc
    BY <1>4 DEF LoadSnapshot
  <2>2. CASE UNCHANGED doc
    BY <2>2, SameDocKeeps
  <2>3. CASE doc[s] = <<>> /\ SettlePending(s, m.chars)
    <3>1. m.chars \in Seq(Char) /\ TreeOrder(m.chars)
      BY DEF DocInv, TypeOK, SnapshotInv, Snapshot
    <3>2. Keeps(doc[s], m.chars)
      BY <2>3, EmptySeq DEF Keeps
    <3>3. QED
      BY <1>3, <2>3, <3>1, <3>2
  <2>4. CASE doc[s] # <<>> /\ SettlePending(s, doc[s])
    BY <1>2, <1>3, <2>4, KeepsItself
  <2>5. QED
    BY <2>1, <2>2, <2>3, <2>4
<1>5. CASE MergeNext(s)
  <2> DEFINE c == Head(merging[s])
             d == mergeChar(doc[s], c)
  <2>1. merging[s] # <<>> /\ (SettlePending(s, d) \/ doc' = [doc EXCEPT ![s] = d])
    BY <1>5 DEF MergeNext
  <2>2. c \in Char /\ isInsertReady(doc[s], c)
    BY <1>2, <2>1, MergeHeadFacts DEF DocInv, TypeOK, SiteInv
  <2> HIDE DEF c
  <2>3. d \in Seq(Char) /\ TreeOrder(d) /\ Keeps(doc[s], d)
    BY <1>2, <2>2, MergeCharFacts
  <2> HIDE DEF d
  <2>4. QED
    BY <1>3, <2>1, <2>3, KeepsStep
<1>6. QED
  BY <1>1, <1>4, <1>5

\* No step drops a character, reorders what is there or brings back a deleted
\* character: not an edit, an operation that comes twice, a drain or a merge.
THEOREM AlwaysKept == Spec => HistoryIsKept
<1> DEFINE Kept == \A s \in Site : Keeps(doc[s], doc'[s])
<1>1. DocInv /\ [Next]_vars => [Kept]_doc
  <2> SUFFICES ASSUME DocInv, Next, ~UNCHANGED doc PROVE Kept
    BY DEF vars
  <2>1. PICK s \in Site :
             \/ LocalInsert(s) \/ LocalDelete(s) \/ ReceiveInsert(s) \/ ReceiveDelete(s)
             \/ ReceiveInsertAgain(s) \/ ReceiveDeleteAgain(s) \/ DrainNext(s)
             \/ SendSnapshot(s) \/ LoadSnapshot(s) \/ MergeNext(s)
    BY DEF Next
  <2>2. QED
    BY <2>1, EditKeeps, ReceiveKeeps, SnapshotKeeps
<1>2. [Kept]_doc => [\A s \in Site :
       \A i, j \in 1..Len(doc[s]) :
          /\ HasChar(doc[s]', doc[s][i].id)
          /\ i < j => IndexOf(doc[s]', doc[s][i].id) < IndexOf(doc[s]', doc[s][j].id)
          /\ doc[s][i].isDeleted =>
                doc[s]'[IndexOf(doc[s]', doc[s][i].id)].isDeleted]_doc
  BY DEF Keeps
<1>3. QED
  BY <1>1, <1>2, AlwaysDocInv, PTL DEF Spec, HistoryIsKept

-----------------------------------------------------------------------------
(* BufferInv: what stays in a buffer still has to wait.                    *)

\* A document that has at most one more character, for which nothing of what
\* is still buffered waits.
LEMMA WaitsStill ==
  ASSUME NEW d, NEW e, NEW new, \A id : HasChar(e, id) => HasChar(d, id) \/ id = new,
         NEW inserts, NEW deletes, Waits(d, inserts, deletes),
         NEW inserts2, \A c \in inserts2 : c \in inserts /\ c.origin # new,
         NEW deletes2, \A id \in deletes2 : id \in deletes /\ id # new
  PROVE  Waits(e, inserts2, deletes2)
BY DEF Waits, isInsertReady

LEMMA LocalInsertBufferInv ==
  ASSUME DocInv, NameInv, BufferInv, NEW s \in Site, LocalInsert(s) PROVE BufferInv'
<1>1. PICK origin \in Visible(doc[s]) \cup {Root} :
         doc' = [doc EXCEPT ![s] = insertChar(@, createChar(NextId(s), origin))]
  BY DEF LocalInsert
<1>2. PICK char : char = createChar(NextId(s), origin)
  OBVIOUS
<1>3. doc[s] \in Seq(Char) /\ TreeOrder(doc[s]) /\ clock[s] \in Nat
  BY DEF DocInv, TypeOK, SiteInv
<1>4. /\ char \in Char /\ ~HasChar(doc[s], char.id) /\ isInsertReady(doc[s], char)
      /\ char.id = NextId(s)
  BY <1>2, <1>3, NextIdIsFresh, VisibleFacts DEF createChar, Char, isInsertReady
<1> DEFINE e == insertChar(doc[s], char)
<1>5. \A id : HasChar(e, id) => HasChar(doc[s], id) \/ id = char.id
  <2>1. /\ e \in Seq(Char) /\ NamesOf(e) = NamesOf(doc[s]) \cup {Name(char)}
        /\ Name(char)[1] = char.id
    BY <1>3, <1>4, InsertFacts DEF Name
  <2> HIDE DEF e
  <2> TAKE id
  <2>2. /\ HasChar(e, id) <=> \E n \in NamesOf(e) : n[1] = id
        /\ HasChar(doc[s], id) <=> \E n \in NamesOf(doc[s]) : n[1] = id
    BY <1>3, <2>1, HasCharFacts
  <2>3. QED
    BY <2>1, <2>2
<1> HIDE DEF e
<1>6. ~Issued(char.id)
  BY <1>3, <1>4 DEF Issued, NextId
<1>7. UNCHANGED <<pendingInserts, pendingDeletes, merging>> /\ merging[s] = <<>>
  BY DEF LocalInsert, buffers, Quiet
<1>8. ASSUME NEW c \in pendingInserts[s] PROVE c.origin # char.id
  <2>1. Name(c) \in Known /\ ~isInsertReady(doc[s], c)
    BY <1>7, KnownMembers DEF BufferInv, Waits
  <2>2. c.origin # Root /\ Name(c)[2] = c.origin
    BY <2>1 DEF isInsertReady, Name
  <2>3. Issued(c.origin)
    BY <2>1, <2>2 DEF NameInv
  <2>4. QED
    BY <1>6, <2>3
<1>9. ASSUME NEW id \in pendingDeletes[s] PROVE id # char.id
  BY <1>6, KnownMembers DEF NameInv
<1>10. Waits(e, pendingInserts[s], pendingDeletes[s])
  BY <1>5, <1>7, <1>8, <1>9, WaitsStill DEF BufferInv
<1>11. doc'[s] = e /\ \A t \in Site \ {s} : doc'[t] = doc[t]
  BY <1>1, <1>2 DEF DocInv, TypeOK, e
<1>12. QED
  BY <1>7, <1>10, <1>11 DEF BufferInv

LEMMA DeletesBufferInv ==
  ASSUME DocInv, BufferInv, NEW s \in Site, NEW ids,
         doc' = [doc EXCEPT ![s] = integrateRemoteDeletes(@, ids)],
         UNCHANGED <<pendingInserts, pendingDeletes, merging>>
  PROVE  BufferInv'
<1> DEFINE e == integrateRemoteDeletes(doc[s], ids)
<1>1. \A id : HasChar(e, id) <=> HasChar(doc[s], id)
  BY DeletesFacts DEF DocInv, TypeOK, HasChar
<1>2. doc'[s] = e /\ \A t \in Site \ {s} : doc'[t] = doc[t]
  BY DEF DocInv, TypeOK
<1> HIDE DEF e
<1>3. Waits(doc[s], pendingInserts[s], pendingDeletes[s]) =>
         Waits(e, pendingInserts[s], pendingDeletes[s])
  BY <1>1 DEF Waits, isInsertReady
<1>4. QED
  BY <1>2, <1>3 DEF BufferInv

LEMMA DrainBufferInv ==
  ASSUME DocInv, BufferInv, NEW s \in Site, NEW char \in Char,
         isInsertReady(doc[s], char), NEW rest, IntegrateAndDrain(s, char, rest),
         UNCHANGED merging
  PROVE  BufferInv'
<1> DEFINE e == integrateRemoteDeletes(integrateRemoteInsert(doc[s], char),
                                       pendingDeletes[s] \cap {char.id})
<1>1. /\ doc[s] \in Seq(Char) /\ clock[s] \in Nat /\ TreeOrder(doc[s])
      /\ Covers(clock[s], doc[s])
  BY DEF DocInv, TypeOK, SiteInv
<1>2. \A id : HasChar(e, id) <=> HasChar(doc[s], id) \/ id = char.id
  BY <1>1, IntegrateFacts
<1>3. /\ doc' = [doc EXCEPT ![s] = e]
      /\ pendingDeletes' = [pendingDeletes EXCEPT ![s] = @ \ {char.id}]
      /\ pendingInserts' = [pendingInserts EXCEPT
                              ![s] = @ \ {c \in pendingInserts[s] : c.origin = char.id}]
  BY DEF IntegrateAndDrain
<1> HIDE DEF e
<1>4. /\ doc'[s] = e
      /\ \A id \in pendingDeletes'[s] : id \in pendingDeletes[s] /\ id # char.id
      /\ \A c \in pendingInserts'[s] : c \in pendingInserts[s] /\ c.origin # char.id
      /\ \A t \in Site \ {s} : /\ doc'[t] = doc[t]
                               /\ pendingInserts'[t] = pendingInserts[t]
                               /\ pendingDeletes'[t] = pendingDeletes[t]
  BY <1>3 DEF DocInv, TypeOK
<1>5. Waits(doc[s], pendingInserts[s], pendingDeletes[s]) =>
         Waits(doc'[s], pendingInserts'[s], pendingDeletes'[s])
  <2> SUFFICES ASSUME Waits(doc[s], pendingInserts[s], pendingDeletes[s])
               PROVE  Waits(e, pendingInserts'[s], pendingDeletes'[s])
    BY <1>4
  <2>1. \A id : HasChar(e, id) => HasChar(doc[s], id) \/ id = char.id
    BY <1>2
  <2>2. \A c \in pendingInserts'[s] : ~isInsertReady(e, c)
    BY <1>4, <2>1 DEF Waits, isInsertReady
  <2>3. \A id \in pendingDeletes'[s] : ~HasChar(e, id)
    BY <1>4, <2>1 DEF Waits
  <2>4. QED
    BY <2>2, <2>3 DEF Waits
<1>6. QED
  BY <1>4, <1>5 DEF BufferInv

LEMMA ReceiveBufferInv ==
  ASSUME DocInv, BufferInv, NEW s \in Site,
         \/ ReceiveInsert(s) \/ ReceiveInsertAgain(s) \/ DrainNext(s)
         \/ ReceiveDelete(s) \/ ReceiveDeleteAgain(s)
  PROVE  BufferInv'
<1>0. UNCHANGED merging
  BY DEF ReceiveInsert, ReceiveInsertAgain, DrainNext, ReceiveDelete, ReceiveDeleteAgain
<1>1. CASE ReceiveInsert(s) \/ ReceiveInsertAgain(s)
  <2>1. PICK char \in Char : processInsert(s, char)
    BY <1>1, CharsOfDoc DEF ReceiveInsert, ReceiveInsertAgain, DocInv, TypeOK
  <2>2. CASE isInsertReady(doc[s], char)
    BY <1>0, <2>1, <2>2, DrainBufferInv DEF processInsert
  <2>3. CASE ~isInsertReady(doc[s], char)
    <3>1. /\ pendingInserts' = [pendingInserts EXCEPT ![s] = @ \cup {char}]
          /\ UNCHANGED <<doc, pendingDeletes>>
      BY <2>1, <2>3 DEF processInsert
    <3>2. /\ pendingInserts'[s] = pendingInserts[s] \cup {char}
          /\ \A t \in Site \ {s} : pendingInserts'[t] = pendingInserts[t]
      BY <3>1 DEF DocInv, TypeOK
    <3>3. QED
      BY <1>0, <2>3, <3>1, <3>2 DEF BufferInv, Waits
  <2>4. QED
    BY <2>2, <2>3
<1>2. CASE DrainNext(s)
  <2>1. PICK char \in draining[s] : IntegrateAndDrain(s, char, draining[s] \ {char})
    BY <1>2 DEF DrainNext
  <2>2. char \in Char /\ isInsertReady(doc[s], char)
    BY DEF DocInv, TypeOK, SiteInv
  <2>3. QED
    BY <1>0, <2>1, <2>2, DrainBufferInv
<1>3. CASE ReceiveDelete(s) \/ ReceiveDeleteAgain(s)
  <2>1. PICK id : processDelete(s, id)
    BY <1>3 DEF ReceiveDelete, ReceiveDeleteAgain
  <2>2. UNCHANGED pendingInserts
    BY <1>3 DEF ReceiveDelete, ReceiveDeleteAgain
  <2>3. CASE HasChar(doc[s], id)
    <3>1. doc' = [doc EXCEPT ![s] = integrateRemoteDeletes(@, {id})] /\ UNCHANGED pendingDeletes
      BY <2>1, <2>3 DEF processDelete
    <3>2. QED
      BY <1>0, <2>2, <3>1, DeletesBufferInv
  <2>4. CASE ~HasChar(doc[s], id)
    <3>1. /\ pendingDeletes' = [pendingDeletes EXCEPT ![s] = @ \cup {id}]
          /\ UNCHANGED doc
      BY <2>1, <2>4 DEF processDelete
    <3>2. /\ pendingDeletes'[s] = pendingDeletes[s] \cup {id}
          /\ \A t \in Site \ {s} : pendingDeletes'[t] = pendingDeletes[t]
      BY <3>1 DEF DocInv, TypeOK
    <3>3. QED
      BY <1>0, <2>2, <2>4, <3>1, <3>2 DEF BufferInv, Waits
  <2>5. QED
    BY <2>3, <2>4
<1>4. QED
  BY <1>1, <1>2, <1>3

\* processPending leaves nothing in the buffer that could be applied.
LEMMA SettleBufferInv ==
  ASSUME DocInv, BufferInv, NEW s \in Site, NEW d \in Seq(Char), SettlePending(s, d),
         \A t \in Site \ {s} : merging'[t] = merging[t]
  PROVE  BufferInv'
<1> DEFINE e == integrateRemoteDeletes(d, pendingDeletes[s] \cap Ids(d))
<1>1. \A id : HasChar(e, id) <=> HasChar(d, id)
  BY DeletesFacts DEF HasChar
<1>2. \A id : HasChar(d, id) => id \in Ids(d)
  <2> TAKE id
  <2>1. Len(d) \in Nat
    BY LenProperties
  <2>2. HasChar(d, id) => IndexOf(d, id) \in 1..Len(d) /\ d[IndexOf(d, id)].id = id
    BY <2>1, IndexOfFacts DEF HasChar
  <2>3. QED
    BY <2>2 DEF Ids
<1>3. /\ doc' = [doc EXCEPT ![s] = e]
      /\ pendingDeletes' = [pendingDeletes EXCEPT ![s] = @ \ (pendingDeletes[s] \cap Ids(d))]
      /\ pendingInserts' = [pendingInserts EXCEPT
                              ![s] = @ \ {c \in pendingInserts[s] : isInsertReady(d, c)}]
  BY DEF SettlePending
<1> HIDE DEF e
<1>4. /\ doc'[s] = e
      /\ \A id \in pendingDeletes'[s] : id \notin Ids(d)
      /\ \A c \in pendingInserts'[s] : ~isInsertReady(d, c)
      /\ \A t \in Site \ {s} : /\ doc'[t] = doc[t]
                               /\ pendingInserts'[t] = pendingInserts[t]
                               /\ pendingDeletes'[t] = pendingDeletes[t]
  BY <1>3 DEF DocInv, TypeOK
<1>5. Waits(doc'[s], pendingInserts'[s], pendingDeletes'[s])
  BY <1>1, <1>2, <1>4 DEF Waits, isInsertReady
<1>6. QED
  BY <1>4, <1>5 DEF BufferInv

LEMMA SnapshotBufferInv ==
  ASSUME DocInv, BufferInv, NEW s \in Site, LoadSnapshot(s) \/ MergeNext(s)
  PROVE  BufferInv'
<1>1. CASE LoadSnapshot(s)
  <2>1. PICK m \in snapshotsSent :
         \/ /\ SettlePending(s, IF doc[s] = <<>> THEN m.chars ELSE doc[s])
            /\ UNCHANGED merging
         \/ /\ m.chars # <<>>
            /\ merging' = [merging EXCEPT ![s] = m.chars]
            /\ UNCHANGED <<doc, pendingInserts, pendingDeletes>>
    BY <1>1 DEF LoadSnapshot, buffers
  <2>2. m.chars \in Seq(Char) /\ doc[s] \in Seq(Char)
    BY DEF DocInv, TypeOK, Snapshot
  <2>3. CASE merging' = [merging EXCEPT ![s] = m.chars] /\ m.chars # <<>>
             /\ UNCHANGED <<doc, pendingInserts, pendingDeletes>>
    <3>1. merging'[s] # <<>> /\ \A t \in Site \ {s} : merging'[t] = merging[t]
      BY <2>3 DEF DocInv, TypeOK
    <3>2. QED
      BY <2>3, <3>1 DEF BufferInv
  <2>4. QED
    BY <2>1, <2>2, <2>3, SettleBufferInv
<1>2. CASE MergeNext(s)
  <2> DEFINE c == Head(merging[s])
             d == mergeChar(doc[s], c)
  <2>1. /\ merging[s] # <<>> /\ merging' = [merging EXCEPT ![s] = Tail(@)]
        /\ \/ /\ Tail(merging[s]) # <<>>
              /\ doc' = [doc EXCEPT ![s] = d]
              /\ UNCHANGED <<pendingInserts, pendingDeletes>>
           \/ SettlePending(s, d)
    BY <1>2 DEF MergeNext, buffers
  <2>2. c \in Char /\ isInsertReady(doc[s], c) /\ doc[s] \in Seq(Char) /\ TreeOrder(doc[s])
    BY <2>1, MergeHeadFacts DEF DocInv, TypeOK, SiteInv
  <2> HIDE DEF c
  <2>3. d \in Seq(Char)
    BY <2>2, MergeCharFacts
  <2> HIDE DEF d
  <2>4. merging'[s] = Tail(merging[s]) /\ \A t \in Site \ {s} : merging'[t] = merging[t]
    BY <2>1 DEF DocInv, TypeOK
  <2>5. CASE Tail(merging[s]) # <<>> /\ doc' = [doc EXCEPT ![s] = d]
             /\ UNCHANGED <<pendingInserts, pendingDeletes>>
    <3>1. \A t \in Site \ {s} : doc'[t] = doc[t]
      BY <2>5 DEF DocInv, TypeOK
    <3>2. QED
      BY <2>4, <2>5, <3>1 DEF BufferInv
  <2>6. QED
    BY <2>1, <2>3, <2>4, <2>5, SettleBufferInv
<1>3. QED
  BY <1>1, <1>2

LEMMA InitBufferInv == Init => BufferInv
BY DEF Init, BufferInv, Waits

LEMMA NextBufferInv == DocInv /\ NameInv /\ BufferInv /\ [Next]_vars => BufferInv'
<1> SUFFICES ASSUME DocInv, NameInv, BufferInv, [Next]_vars PROVE BufferInv'
  OBVIOUS
<1>1. ASSUME UNCHANGED <<doc, pendingInserts, pendingDeletes, merging>> PROVE BufferInv'
  BY <1>1 DEF BufferInv
<1>2. CASE UNCHANGED vars
  BY <1>1, <1>2 DEF vars, buffers
<1>3. ASSUME NEW s \in Site,
             \/ LocalInsert(s) \/ LocalDelete(s) \/ ReceiveInsert(s) \/ ReceiveDelete(s)
             \/ ReceiveInsertAgain(s) \/ ReceiveDeleteAgain(s) \/ DrainNext(s)
             \/ SendSnapshot(s) \/ LoadSnapshot(s) \/ MergeNext(s)
      PROVE  BufferInv'
  <2>1. CASE LocalInsert(s)
    BY <2>1, LocalInsertBufferInv
  <2>2. CASE LocalDelete(s)
    <3>1. PICK id : doc' = [doc EXCEPT ![s] = integrateRemoteDeletes(@, {id})]
      BY <2>2 DEF LocalDelete
    <3>2. QED
      BY <2>2, <3>1, DeletesBufferInv DEF LocalDelete, buffers
  <2>3. CASE \/ ReceiveInsert(s) \/ ReceiveInsertAgain(s) \/ DrainNext(s)
             \/ ReceiveDelete(s) \/ ReceiveDeleteAgain(s)
    BY <2>3, ReceiveBufferInv
  <2>4. CASE SendSnapshot(s)
    BY <1>1, <2>4 DEF SendSnapshot, buffers
  <2>5. CASE LoadSnapshot(s) \/ MergeNext(s)
    BY <2>5, SnapshotBufferInv
  <2>6. QED
    BY <1>3, <2>1, <2>2, <2>3, <2>4, <2>5
<1>4. QED
  BY <1>2, <1>3 DEF Next

\* Between two handlers no buffer holds an operation it could apply: every
\* character that arrives, alone or in a snapshot, releases what waited for it.
THEOREM AlwaysOrphans == Spec => []BufferHoldsOnlyOrphans
<1>1. BufferInv => BufferHoldsOnlyOrphans
  BY DEF BufferInv, Waits, BufferHoldsOnlyOrphans, Quiet
<1>2. QED
  BY <1>1, AlwaysDocInv, AlwaysNameInv, InitBufferInv, NextBufferInv, PTL DEF Spec

-----------------------------------------------------------------------------
(* The replicas implement the shared list. Whatever a site gets from others, *)
(* the site that made it has it already, and trees agree on their order.     *)

Acts(s) ==
  \/ LocalInsert(s) \/ LocalDelete(s) \/ ReceiveInsert(s) \/ ReceiveDelete(s)
  \/ ReceiveInsertAgain(s) \/ ReceiveDeleteAgain(s) \/ DrainNext(s)
  \/ SendSnapshot(s) \/ LoadSnapshot(s) \/ MergeNext(s)

\* The site that made a character has it.
AuthorInv == \A n \in Known : HasChar(doc[n[1].site], n[1])

LEMMA ActsKeep ==
  ASSUME DocInv, NEW s \in Site, Acts(s) PROVE \A t \in Site : Keeps(doc[t], doc'[t])
BY EditKeeps, ReceiveKeeps, SnapshotKeeps DEF Acts

LEMMA KeepsHas ==
  ASSUME NEW d \in Seq(Char), NEW e, Keeps(d, e), NEW id, HasChar(d, id) PROVE HasChar(e, id)
<1>1. Len(d) \in Nat
  BY LenProperties
<1>2. IndexOf(d, id) \in 1..Len(d) /\ d[IndexOf(d, id)].id = id
  BY <1>1, IndexOfFacts DEF HasChar
<1> QED BY <1>2 DEF Keeps

\* A step brings no name that is new to the room, unless a user types.
LEMMA ActsBring ==
  ASSUME DocInv, DocInv', NameInv, NEW s \in Site, Acts(s)
  PROVE  Known' \subseteq Known \/ (LocalInsert(s) /\ \A n \in Known' : n \in Known \/ n[1] = NextId(s))
<1>1. CASE LocalInsert(s)
  BY <1>1, LocalInsertNameInv
<1>2. CASE ~LocalInsert(s)
  <2>1. NoNewNames
    BY <1>2, LocalDeleteNameInv, ReceiveInsertNameInv, ReceiveDeleteNameInv, DrainNextNameInv,
       SendSnapshotNameInv, LoadSnapshotNameInv, MergeNextNameInv DEF Acts
  <2> QED BY <2>1 DEF NoNewNames
<1> QED BY <1>1, <1>2

\* A step changes the document of the site that takes it.
LEMMA ActsHere ==
  ASSUME DocInv, NEW s \in Site, Acts(s) PROVE \A t \in Site \ {s} : doc'[t] = doc[t]
<1>1. doc \in [Site -> Seq(Char)]
  BY DEF DocInv, TypeOK
<1>2. \/ UNCHANGED doc
      \/ \E d : doc' = [doc EXCEPT ![s] = d]
  BY DEF Acts, LocalInsert, LocalDelete, ReceiveInsert, ReceiveDelete, ReceiveInsertAgain,
         ReceiveDeleteAgain, DrainNext, SendSnapshot, LoadSnapshot, MergeNext, processInsert,
         processDelete, IntegrateAndDrain, SettlePending, buffers
<1> QED BY <1>1, <1>2

LEMMA TypedIsThere ==
  ASSUME DocInv, NEW s \in Site, LocalInsert(s)
  PROVE  /\ HasChar(doc'[s], NextId(s)) /\ NextId(s).site = s
         /\ \A n \in NamesOf(doc'[s]) : n \in NamesOf(doc[s]) \/ n[1] = NextId(s)
<1>1. PICK origin \in Visible(doc[s]) \cup {Root} :
         doc' = [doc EXCEPT ![s] = insertChar(@, createChar(NextId(s), origin))]
  BY DEF LocalInsert
<1>2. PICK char : char = createChar(NextId(s), origin)
  OBVIOUS
<1>3. doc[s] \in Seq(Char) /\ TreeOrder(doc[s]) /\ clock[s] \in Nat
  BY DEF DocInv, TypeOK, SiteInv
<1>4. /\ char \in Char /\ ~HasChar(doc[s], char.id) /\ isInsertReady(doc[s], char)
      /\ char.id = NextId(s)
  BY <1>2, <1>3, NextIdIsFresh, VisibleFacts DEF createChar, Char, isInsertReady
<1>5. /\ insertChar(doc[s], char) \in Seq(Char)
      /\ NamesOf(insertChar(doc[s], char)) = NamesOf(doc[s]) \cup {Name(char)}
  BY <1>3, <1>4, InsertFacts
<1>6. doc'[s] = insertChar(doc[s], char)
  BY <1>1, <1>2 DEF DocInv, TypeOK
<1>7. Name(char) \in NamesOf(doc'[s]) /\ Name(char)[1] = NextId(s)
  BY <1>4, <1>5, <1>6 DEF Name
<1> QED BY <1>5, <1>6, <1>7, HasCharFacts DEF NextId

LEMMA NextAuthorInv ==
  ASSUME DocInv, DocInv', NameInv, AuthorInv, [Next]_vars PROVE AuthorInv'
<1>1. CASE UNCHANGED vars
  <2>1. \A s \in Site : KnownAt(s)' = KnownAt(s)
    BY <1>1 DEF vars, buffers, network, KnownAt
  <2>2. Known' = Known
    BY <1>1, <2>1 DEF vars, network, Known
  <2> QED BY <1>1, <2>2 DEF vars, AuthorInv
<1>2. ASSUME NEW s \in Site, Acts(s) PROVE AuthorInv'
  <2>1. ASSUME NEW n \in Known PROVE HasChar(doc'[n[1].site], n[1])
    <3>1. n[1].site \in Site
      BY DEF NameInv, Issued, Id
    <3>2. Keeps(doc[n[1].site], doc'[n[1].site]) /\ doc[n[1].site] \in Seq(Char)
      BY <1>2, <3>1, ActsKeep DEF DocInv, TypeOK
    <3> QED BY <3>2, KeepsHas DEF AuthorInv
  <2>2. \A n \in Known' : n \in Known \/ (LocalInsert(s) /\ n[1] = NextId(s))
    BY <1>2, ActsBring
  <2>3. LocalInsert(s) => HasChar(doc'[s], NextId(s)) /\ NextId(s).site = s
    BY TypedIsThere
  <2>4. ASSUME NEW n \in Known' PROVE HasChar(doc'[n[1].site], n[1])
    BY <2>1, <2>2, <2>3, <2>4
  <2> QED BY <2>4 DEF AuthorInv
<1> QED BY <1>1, <1>2 DEF Next, Acts

LEMMA AlwaysAuthorInv == Spec => []AuthorInv
<1>1. Init => AuthorInv
  BY InitNothingKnown DEF AuthorInv
<1> QED BY <1>1, NextAuthorInv, AlwaysDocInv, AlwaysNameInv, PTL DEF Spec

\* The list that a document shows.
LEMMA ListFacts ==
  ASSUME NEW d \in Seq(Char)
  PROVE  /\ ListOf(d) \in Seq(Id) /\ Len(ListOf(d)) = Len(d) /\ \A i \in 1..Len(d) : ListOf(d)[i] = d[i].id
         /\ Promise!Elements(ListOf(d)) = Ids(d)
<1>1. Len(d) \in Nat /\ \A i \in 1..Len(d) : d[i].id \in Id
  <2>1. Len(d) \in Nat /\ \A i \in 1..Len(d) : d[i] \in Char
    BY ElementOfSeq, LenProperties
  <2> QED BY <2>1 DEF Char
<1>2. ListOf(d) \in Seq(Id) /\ Len(ListOf(d)) = Len(d) /\ \A i \in 1..Len(d) : ListOf(d)[i] = d[i].id
  BY <1>1 DEF ListOf
<1>3. DOMAIN ListOf(d) = 1..Len(d)
  BY DEF ListOf
<1>4. {ListOf(d)[i] : i \in DOMAIN ListOf(d)} = {d[i].id : i \in 1..Len(d)}
  BY <1>2, <1>3
<1> QED BY <1>2, <1>4 DEF Promise!Elements, Promise!ToSet, Ids

LEMMA IdsHave ==
  ASSUME NEW d \in Seq(Char), NEW id PROVE id \in Ids(d) <=> HasChar(d, id)
<1>1. Len(d) \in Nat
  BY LenProperties
<1> QED BY <1>1, IndexOfFacts DEF Ids, HasChar

\* What never comes in two orders, as SharedList says it.
LEMMA InOneOrder ==
  ASSUME NEW a \in Seq(Char), NEW b \in Seq(Char), UniqueChars(b),
         \A i, j \in 1..Len(a) : i < j /\ HasChar(b, a[i].id) /\ HasChar(b, a[j].id) =>
            IndexOf(b, a[i].id) < IndexOf(b, a[j].id)
  PROVE  Promise!Agree(ListOf(a), ListOf(b))
<1>1. ASSUME NEW i \in 1..Len(a), NEW j \in 1..Len(a), i < j, NEW k \in 1..Len(b), NEW l \in 1..Len(b),
             k < l, b[k].id = a[j].id, b[l].id = a[i].id
      PROVE  FALSE
  <2>1. IndexOf(b, a[j].id) = k /\ IndexOf(b, a[i].id) = l
    BY <1>1, IndexOfUnique
  <2>2. Len(b) \in Nat
    BY LenProperties
  <2>3. l < k
    BY <1>1, <2>1, <2>2 DEF HasChar
  <2> QED BY <1>1, <2>2, <2>3
<1>2. /\ Len(ListOf(a)) = Len(a) /\ \A i \in 1..Len(a) : ListOf(a)[i] = a[i].id
      /\ Len(ListOf(b)) = Len(b) /\ \A i \in 1..Len(b) : ListOf(b)[i] = b[i].id
  BY ListFacts
<1> QED BY <1>1, <1>2 DEF Promise!Agree, Promise!Before

LEMMA ReplicasAgree ==
  ASSUME NEW a \in Seq(Char), TreeOrder(a), NEW b \in Seq(Char), TreeOrder(b),
         NEW names, NamesOf(a) \subseteq names, NamesOf(b) \subseteq names,
         \A n, m \in names : n[1] = m[1] => n[2] = m[2]
  PROVE  Promise!Agree(ListOf(a), ListOf(b))
<1>1. ASSUME NEW j \in 1..Len(a), NEW k \in 1..Len(b), a[j].id = b[k].id
      PROVE  a[j].origin = b[k].origin
  <2>1. Name(a[j]) \in names /\ Name(b[k]) \in names
    BY DEF NamesOf
  <2>2. Name(a[j])[1] = Name(b[k])[1] => Name(a[j])[2] = Name(b[k])[2]
    BY <2>1
  <2> QED BY <1>1, <2>2 DEF Name
<1>2. UniqueChars(b)
  BY DEF TreeOrder
<1> QED BY <1>1, <1>2, TreesAgree, InOneOrder

\* What a step adds to a document is in that of another site, unless a user typed it.
LEMMA AddedByOthers ==
  ASSUME DocInv, DocInv', NameInv, NameInv', AuthorInv, AuthorInv', NEW s \in Site, Acts(s)
  PROVE  LET new == Ids(doc'[s]) \ Ids(doc[s])
         IN  \/ \A id \in new : \E t \in Site \ {s} : id \in Ids(doc[t])
             \/ /\ \A id \in new : \A t \in Site \ {s} : id \notin Ids(doc[t])
                /\ \A id, other \in new : id = other
<1> DEFINE new == Ids(doc'[s]) \ Ids(doc[s])
<1>1. \A t \in Site : doc[t] \in Seq(Char) /\ doc'[t] \in Seq(Char)
  BY DEF DocInv, TypeOK
<1>2. \A t \in Site \ {s} : doc'[t] = doc[t]
  BY ActsHere
<1>3. CASE Known' \subseteq Known
  <2> SUFFICES ASSUME NEW id \in new PROVE \E t \in Site \ {s} : id \in Ids(doc[t])
    OBVIOUS
  <2>1. PICK n \in NamesOf(doc'[s]) : n[1] = id
    BY <1>1, IdsHave, HasCharFacts
  <2>2. n \in Known'
    BY DEF Known, KnownAt
  <2>3. id.site \in Site /\ HasChar(doc[id.site], id)
    BY <1>3, <2>1, <2>2 DEF AuthorInv, NameInv, Issued, Id
  <2>4. id \in Ids(doc[id.site])
    BY <1>1, <2>3, IdsHave
  <2> QED BY <2>3, <2>4
<1>4. CASE LocalInsert(s)
  <2>1. new \subseteq {NextId(s)}
    <3> SUFFICES ASSUME NEW id \in new PROVE id = NextId(s)
      OBVIOUS
    <3>1. PICK n \in NamesOf(doc'[s]) : n[1] = id
      BY <1>1, IdsHave, HasCharFacts
    <3>2. n \notin NamesOf(doc[s])
      BY <1>1, <3>1, IdsHave, HasCharFacts
    <3> QED BY <1>4, <3>1, <3>2, TypedIsThere
  <2>2. ASSUME NEW t \in Site, NextId(s) \in Ids(doc[t]) PROVE FALSE
    <3>1. PICK n \in NamesOf(doc[t]) : n[1] = NextId(s)
      BY <1>1, <2>2, IdsHave, HasCharFacts
    <3>2. n[1].counter <= clock[n[1].site]
      BY KnownMembers DEF NameInv, Issued
    <3>3. clock[s] \in Nat
      BY DEF DocInv, TypeOK
    <3> QED BY <3>1, <3>2, <3>3 DEF NextId
  <2> QED BY <2>1, <2>2
<1> QED BY <1>3, <1>4, ActsBring

LEMMA ListStep ==
  ASSUME DocInv, DocInv', NameInv, NameInv', AuthorInv, AuthorInv', NEW s \in Site, Acts(s)
  PROVE  Promise!Step(s)
<1>1. \A t \in Site : /\ doc[t] \in Seq(Char) /\ doc'[t] \in Seq(Char)
                      /\ UniqueChars(doc'[t])
  BY DEF DocInv, TypeOK, SiteInv, TreeOrder
<1>2. \A t \in Site : Promise!Elements(ListOf(doc[t])) = Ids(doc[t])
  BY <1>1, ListFacts
<1>3. Promise!Elements(ListOf(doc'[s])) = Ids(doc'[s])
  BY <1>1, ListFacts
<1>4. Len(doc[s]) \in Nat /\ Keeps(doc[s], doc'[s])
  BY <1>1, LenProperties, ActsKeep
<1>5. Promise!Extends(ListOf(doc'[s]), ListOf(doc[s]))
  <2>1. Ids(doc[s]) \subseteq Ids(doc'[s])
    BY <1>1, <1>4, IdsHave, KeepsHas
  <2>2. Promise!Agree(ListOf(doc[s]), ListOf(doc'[s]))
    BY <1>1, <1>4, InOneOrder DEF Keeps
  <2>3. \A i, j \in 1..Len(ListOf(doc'[s])) : ListOf(doc'[s])[i] = ListOf(doc'[s])[j] => i = j
    BY <1>1, ListFacts DEF UniqueChars
  <2> QED BY <1>2, <1>3, <2>1, <2>2, <2>3 DEF Promise!Extends
<1>6. Tombstones(doc[s]) \subseteq Tombstones(doc'[s]) /\ Tombstones(doc'[s]) \subseteq Ids(doc'[s])
  <2>1. ASSUME NEW i \in 1..Len(doc[s]), doc[s][i].isDeleted PROVE doc[s][i].id \in Tombstones(doc'[s])
    <3> DEFINE j == IndexOf(doc'[s], doc[s][i].id)
    <3>1. HasChar(doc'[s], doc[s][i].id) /\ doc'[s][j].isDeleted
      BY <1>4, <2>1 DEF Keeps
    <3>2. j \in 1..Len(doc'[s]) /\ doc'[s][j].id = doc[s][i].id
      BY <1>1, <3>1, IndexOfFacts, LenProperties DEF HasChar
    <3> HIDE DEF j
    <3> QED BY <3>1, <3>2 DEF Tombstones
  <2> QED BY <2>1 DEF Tombstones, Ids
<1>7. \A t \in Site \ {s} : doc'[t] = doc[t]
  BY ActsHere
<1>8. \A t \in Site : Promise!Agree(ListOf(doc'[s]), ListOf(doc'[t]))
  <2> SUFFICES ASSUME NEW t \in Site PROVE Promise!Agree(ListOf(doc'[s]), ListOf(doc'[t]))
    OBVIOUS
  <2>1. NamesOf(doc'[s]) \subseteq Known' /\ NamesOf(doc'[t]) \subseteq Known'
    BY DEF Known, KnownAt
  <2>2. \A n, m \in Known' : n[1] = m[1] => n[2] = m[2]
    BY DEF NameInv
  <2>3. TreeOrder(doc'[s]) /\ TreeOrder(doc'[t])
    BY DEF DocInv, SiteInv
  <2> HIDE DEF Known
  <2> QED BY <1>1, <2>1, <2>2, <2>3, ReplicasAgree
<1> DEFINE others == UNION {Ids(doc[t]) : t \in Site \ {s}}
           new == Ids(doc'[s]) \ Ids(doc[s])
<1>9. new \subseteq others \/ (new \cap others = {} /\ \A a, b \in new : a = b)
  BY AddedByOthers
<1>10. /\ UNION {Promise!Elements([x \in Site |-> ListOf(doc[x])][t]) : t \in Site \ {s}} = others
       /\ Promise!Elements([x \in Site |-> ListOf(doc'[x])][s])
            \ Promise!Elements([x \in Site |-> ListOf(doc[x])][s]) = new
  BY <1>2, <1>3
<1> HIDE DEF others, new
<1> QED BY <1>3, <1>5, <1>6, <1>7, <1>8, <1>9, <1>10 DEF Promise!Step

\* Every step of the replicas is a step of the shared list: a site only adds to its
\* list and marks as gone, what it adds is new or another site's, and no two sites
\* order two characters differently, with operations and snapshots in any order.
THEOREM ReplicasImplementSharedList == Spec => ImplementsSharedList
<1>1. Init => Promise!Init
  <2> SUFFICES ASSUME Init PROVE Promise!Init
    OBVIOUS
  <2>1. ListOf(<<>>) = <<>> /\ Tombstones(<<>>) = {}
    <3>1. <<>> \in Seq(Char) /\ Len(<<>>) = 0
      BY EmptySeq
    <3>2. ListOf(<<>>) \in Seq(Id) /\ Len(ListOf(<<>>)) = 0
      BY <3>1, ListFacts
    <3> QED BY <3>1, <3>2, EmptySeq DEF Tombstones
  <2>2. \A s \in Site : doc[s] = <<>>
    BY DEF Init
  <2> QED BY <2>1, <2>2 DEF Promise!Init
<1>2. ASSUME DocInv, DocInv', NameInv, NameInv', AuthorInv, AuthorInv', [Next]_vars
      PROVE  [\E s \in Site : Promise!Step(s)]_<<[s \in Site |-> ListOf(doc[s])],
                                                [s \in Site |-> Tombstones(doc[s])]>>
  <2>1. CASE UNCHANGED vars
    BY <2>1 DEF vars
  <2>2. CASE Next
    BY <1>2, <2>2, ListStep DEF Next, Acts
  <2> QED BY <1>2, <2>1, <2>2
<1> QED BY <1>1, <1>2, AlwaysDocInv, AlwaysNameInv, AlwaysAuthorInv, PTL
        DEF Spec, ImplementsSharedList, Promise!Spec
=============================================================================
