------------------------- MODULE CrdtDocumentProofs -------------------------
(***************************************************************************)
(* Facts about the operators of CrdtDocument, for every set of sites and   *)
(* every document.  The main one is InsertKeepsTreeOrder: insertChar,      *)
(* whose scan decides by looking at one neighbour after the other, leaves  *)
(* the document in tree order.                                             *)
(***************************************************************************)
EXTENDS CrdtDocument, SequenceTheorems, WellFoundedInduction, TLAPS

-----------------------------------------------------------------------------
(* The community-module helpers insertChar is built from.                  *)

\* A set of positions that is not empty has a least one.
LEMMA LeastPosition ==
  ASSUME NEW S \in SUBSET Nat, S # {}
  PROVE  /\ Min(S) \in S
         /\ \A y \in S : Min(S) <= y
<1>1. PICK x \in S : \A y \in S : ~(<<y, x>> \in OpToRel(<, Nat))
  BY NatLessThanWellFounded, WFMin
<1>2. \A y \in S : x <= y
  <2> SUFFICES ASSUME NEW y \in S, y < x PROVE FALSE
    OBVIOUS
  <2>1. <<y, x>> \in Nat \X Nat /\ <<y, x>>[1] < <<y, x>>[2]
    OBVIOUS
  <2>2. <<y, x>> \in OpToRel(<, Nat)
    BY <2>1 DEF OpToRel
  <2>3. QED
    BY <1>1, <2>2
<1>3. QED
  BY <1>2 DEF Min

\* findCharIndex: 0 when the identifier is absent, else a position that has it.
LEMMA IndexOfFacts ==
  ASSUME NEW doc \in Seq(Char), NEW id
  PROVE  /\ IndexOf(doc, id) \in 0..Len(doc)
         /\ IndexOf(doc, id) # 0 => doc[IndexOf(doc, id)].id = id
         /\ IndexOf(doc, id) = 0 => \A i \in 1..Len(doc) : doc[i].id # id
<1> DEFINE I == {i \in 1..Len(doc) : doc[i].id = id}
<1>1. IndexOf(doc, id) = IF I # {} THEN Min(I) ELSE 0
  BY DEF IndexOf, SelectInSeq
<1>2. I \subseteq Nat /\ Len(doc) \in Nat
  OBVIOUS
<1>3. CASE I = {}
  BY <1>1, <1>2, <1>3
<1>4. CASE I # {}
  <2>1. Min(I) \in I
    BY <1>2, <1>4, LeastPosition
  <2>2. QED
    BY <1>1, <1>2, <1>4, <2>1
<1>5. QED
  BY <1>3, <1>4

\* With unique identifiers the position of a character is found by its id.
LEMMA IndexOfUnique ==
  ASSUME NEW doc \in Seq(Char), UniqueChars(doc), NEW i \in 1..Len(doc)
  PROVE  IndexOf(doc, doc[i].id) = i
<1>1. IndexOf(doc, doc[i].id) \in 1..Len(doc)
  BY IndexOfFacts
<1>2. doc[IndexOf(doc, doc[i].id)].id = doc[i].id
  BY <1>1, IndexOfFacts
<1>3. QED
  BY <1>1, <1>2 DEF UniqueChars

\* No character has the identifier Root: its counter would be 0.
LEMMA RootIsNowhere ==
  ASSUME NEW doc \in Seq(Char)
  PROVE  Root \notin Id /\ IndexOf(doc, Root) = 0
<1>1. Root \notin Id
  BY DEF Root, Id
<1>2. \A i \in 1..Len(doc) : doc[i].id \in Id
  <2> TAKE i \in 1..Len(doc)
  <2>1. doc[i] \in Char
    BY ElementOfSeq
  <2>2. QED
    BY <2>1 DEF Char
<1>3. QED
  BY <1>1, <1>2, IndexOfFacts

\* Identifiers are totally ordered.
LEMMA GreaterIsTotalOrder ==
  ASSUME NEW a \in Id, NEW b \in Id, NEW c \in Id
  PROVE  /\ a # b => Greater(a, b) \/ Greater(b, a)
         /\ ~Greater(a, a)
         /\ Greater(a, b) /\ Greater(b, c) => Greater(a, c)
<1>1. /\ a.counter \in Nat /\ a.site \in Nat /\ b.counter \in Nat /\ b.site \in Nat
      /\ c.counter \in Nat /\ c.site \in Nat
  BY SiteAssumption DEF Id
<1>2. a # b => a.counter # b.counter \/ a.site # b.site
  BY DEF Id
<1>3. QED
  BY <1>1, <1>2 DEF Greater

\* The scan of insertChar stops at the first position that ends it.
LEMMA InsertPosFacts ==
  ASSUME NEW doc \in Seq(Char), NEW new \in Char
  PROVE  LET o == IndexOf(doc, new.origin)
             p == InsertPos(doc, new)
         IN  /\ p \in (o + 1)..(Len(doc) + 1)
             /\ \A q \in (o + 1)..(p - 1) : ~EndsScan(doc, new, doc[q])
             /\ p <= Len(doc) => EndsScan(doc, new, doc[p])
<1> DEFINE o == IndexOf(doc, new.origin)
           I == {q \in (o + 1)..Len(doc) : EndsScan(doc, new, doc[q])}
           stop == IF I # {} THEN Min(I) ELSE 0
<1>1. InsertPos(doc, new) = IF stop = 0 THEN Len(doc) + 1 ELSE stop
  BY DEF InsertPos, SelectInSubSeq
<1>2. o \in 0..Len(doc) /\ Len(doc) \in Nat
  BY IndexOfFacts
<1>3. I \subseteq Nat
  BY <1>2
<1> HIDE DEF o
<1>4. CASE I = {}
  BY <1>1, <1>2, <1>4 DEF o
<1>5. CASE I # {}
  <2>1. Min(I) \in I /\ \A y \in I : Min(I) <= y
    BY <1>3, <1>5, LeastPosition
  <2>2. InsertPos(doc, new) = Min(I)
    BY <1>1, <1>2, <1>5, <2>1
  <2>3. /\ Min(I) \in (o + 1)..Len(doc) /\ EndsScan(doc, new, doc[Min(I)])
        /\ \A q \in (o + 1)..(Min(I) - 1) : ~EndsScan(doc, new, doc[q])
    <3>1. Min(I) \in (o + 1)..Len(doc) /\ EndsScan(doc, new, doc[Min(I)])
      BY <2>1
    <3>2. ASSUME NEW q \in (o + 1)..(Min(I) - 1) PROVE ~EndsScan(doc, new, doc[q])
      <4>1. q \in (o + 1)..Len(doc) /\ ~(Min(I) <= q)
        BY <1>2, <3>1
      <4>2. q \notin I
        BY <2>1, <4>1
      <4>3. QED
        BY <4>1, <4>2
    <3>3. QED
      BY <1>2, <3>1, <3>2
  <2>4. QED
    BY <1>2, <2>2, <2>3 DEF o
<1>6. QED
  BY <1>4, <1>5

\* splice(p, 0, new): what is before p stays, the rest moves by one.
LEMMA InsertAtFacts ==
  ASSUME NEW doc \in Seq(Char), NEW new \in Char, NEW p \in 1..(Len(doc) + 1)
  PROVE  /\ InsertAt(doc, p, new) \in Seq(Char)
         /\ Len(InsertAt(doc, p, new)) = Len(doc) + 1
         /\ \A i \in 1..(Len(doc) + 1) :
              InsertAt(doc, p, new)[i] = IF i < p THEN doc[i]
                                         ELSE IF i = p THEN new ELSE doc[i - 1]
<1> DEFINE left == SubSeq(doc, 1, p - 1)
           right == SubSeq(doc, p, Len(doc))
<1>1. /\ left \in Seq(Char) /\ Len(left) = p - 1
      /\ \A i \in 1..(p - 1) : left[i] = doc[i]
  <2>1. \A i \in 1..(p - 1) : doc[i] \in Char
    BY ElementOfSeq
  <2>2. QED
    BY <2>1, SubSeqProperties
<1>2. /\ right \in Seq(Char) /\ Len(right) = Len(doc) - p + 1
      /\ \A i \in 1..(Len(doc) - p + 1) : right[i] = doc[p + i - 1]
  <2>1. \A i \in p..Len(doc) : doc[i] \in Char
    BY ElementOfSeq
  <2>2. QED
    BY <2>1, SubSeqProperties
<1>3. <<new>> \in Seq(Char) /\ Len(<<new>>) = 1 /\ <<new>>[1] = new
  OBVIOUS
<1> HIDE DEF left, right
<1> DEFINE begin == left \o <<new>>
<1>4. /\ begin \in Seq(Char) /\ Len(begin) = p
      /\ \A i \in 1..p : begin[i] = IF i <= p - 1 THEN left[i] ELSE <<new>>[i - (p - 1)]
  BY <1>1, <1>3, ConcatProperties
<1> HIDE DEF begin
<1>5. /\ begin \o right \in Seq(Char) /\ Len(begin \o right) = Len(doc) + 1
      /\ \A i \in 1..(Len(doc) + 1) :
            (begin \o right)[i] = IF i <= p THEN begin[i] ELSE right[i - p]
  BY <1>2, <1>4, ConcatProperties
<1>6. InsertAt(doc, p, new) = begin \o right
  BY DEF InsertAt, begin, left, right
<1>7. \A i \in 1..(Len(doc) + 1) :
         (begin \o right)[i] = IF i < p THEN doc[i]
                               ELSE IF i = p THEN new ELSE doc[i - 1]
  <2> TAKE i \in 1..(Len(doc) + 1)
  <2>1. CASE i < p
    BY <1>1, <1>4, <1>5, <2>1
  <2>2. CASE i = p
    BY <1>3, <1>4, <1>5, <2>2
  <2>3. CASE i > p
    BY <1>2, <1>5, <2>3
  <2>4. i < p \/ i = p \/ i > p
    OBVIOUS
  <2>5. QED
    BY <2>1, <2>2, <2>3, <2>4
<1>8. QED
  BY <1>5, <1>6, <1>7

\* After a splice every identifier is found where it was, or one further on.
LEMMA InsertShifts ==
  ASSUME NEW doc \in Seq(Char), UniqueChars(doc),
         NEW new \in Char, ~HasChar(doc, new.id),
         NEW p \in 1..(Len(doc) + 1)
  PROVE  LET d == InsertAt(doc, p, new)
         IN  /\ UniqueChars(d)
             /\ IndexOf(d, new.id) = p
             /\ \A id : id # new.id =>
                  IndexOf(d, id) = IF IndexOf(doc, id) < p THEN IndexOf(doc, id)
                                   ELSE IndexOf(doc, id) + 1
<1> DEFINE d == InsertAt(doc, p, new)
<1>0. Len(doc) \in Nat
  BY LenProperties
<1>1. /\ d \in Seq(Char) /\ Len(d) = Len(doc) + 1
      /\ \A i \in 1..(Len(doc) + 1) :
            d[i] = IF i < p THEN doc[i] ELSE IF i = p THEN new ELSE doc[i - 1]
  BY InsertAtFacts
<1>2. \A i \in 1..Len(doc) : doc[i].id # new.id
  BY IndexOfFacts DEF HasChar
<1> HIDE DEF d
<1>3. UniqueChars(d)
  <2> SUFFICES ASSUME NEW i \in 1..Len(d), NEW j \in 1..Len(d), d[i].id = d[j].id
               PROVE  i = j
    BY DEF UniqueChars
  <2> DEFINE old(k) == IF k < p THEN k ELSE k - 1
  <2>1. \A k \in 1..Len(d) : k # p => old(k) \in 1..Len(doc) /\ d[k] = doc[old(k)]
    BY <1>0, <1>1
  <2>2. d[p] = new
    BY <1>0, <1>1
  <2>3. CASE i = p \/ j = p
    <3>1. \A k \in 1..Len(d) : k # p => d[k].id # new.id
      BY <1>2, <2>1
    <3>2. QED
      BY <2>2, <2>3, <3>1
  <2>4. CASE i # p /\ j # p
    <3>1. old(i) = old(j)
      BY <2>1, <2>4 DEF UniqueChars
    <3>2. QED
      BY <2>4, <3>1
  <2>5. QED
    BY <2>3, <2>4
<1>4. IndexOf(d, new.id) = p
  <2>1. p \in 1..Len(d) /\ d[p].id = new.id
    BY <1>0, <1>1
  <2>2. QED
    BY <1>0, <1>1, <1>3, <2>1, IndexOfUnique
<1>5. ASSUME NEW id, id # new.id
      PROVE  IndexOf(d, id) = IF IndexOf(doc, id) < p THEN IndexOf(doc, id)
                              ELSE IndexOf(doc, id) + 1
  <2> DEFINE k == IndexOf(doc, id)
  <2>0. k \in 0..Len(doc)
    BY IndexOfFacts
  <2>1. CASE k = 0
    <3>1. \A i \in 1..Len(doc) : doc[i].id # id
      BY <2>1, IndexOfFacts
    <3>2. ASSUME NEW i \in 1..Len(d) PROVE d[i].id # id
      <4>1. CASE i < p
        BY <1>0, <1>1, <3>1, <4>1
      <4>2. CASE i = p
        BY <1>0, <1>1, <1>5, <4>2
      <4>3. CASE i > p
        BY <1>0, <1>1, <3>1, <4>3
      <4>4. QED
        BY <1>0, <1>1, <4>1, <4>2, <4>3
    <3>3. IndexOf(d, id) \in 0..Len(d) /\ (IndexOf(d, id) # 0 => d[IndexOf(d, id)].id = id)
      BY <1>0, <1>1, IndexOfFacts
    <3>4. IndexOf(d, id) = 0
      BY <1>0, <1>1, <3>2, <3>3
    <3>5. QED
      BY <2>1, <3>4
  <2>2. CASE k # 0
    <3> DEFINE m == IF k < p THEN k ELSE k + 1
    <3>1. doc[k].id = id /\ k \in 1..Len(doc)
      BY <2>0, <2>2, IndexOfFacts
    <3>2. m \in 1..Len(d) /\ m # p
      BY <1>0, <1>1, <3>1
    <3>3. d[m] = doc[k]
      BY <1>0, <1>1, <3>1, <3>2
    <3>4. IndexOf(d, d[m].id) = m
      BY <1>0, <1>1, <1>3, <3>2, IndexOfUnique
    <3>5. QED
      BY <3>1, <3>3, <3>4
  <2>3. QED
    BY <2>1, <2>2
<1>6. QED
  BY <1>3, <1>4, <1>5 DEF d

-----------------------------------------------------------------------------
(* insertChar keeps the document in tree order.                            *)

\* In a document in tree order an origin lies before its character.
LEMMA OriginBefore ==
  ASSUME NEW doc \in Seq(Char), TreeOrder(doc), NEW i \in 1..Len(doc)
  PROVE  IndexOf(doc, doc[i].origin) \in 0..(i - 1)
<1>1. Len(doc) \in Nat
  BY LenProperties
<1>2. doc[i].origin = Root \/ IndexOf(doc, doc[i].origin) \in 1..(i - 1)
  BY DEF TreeOrder, OriginsPrecede
<1>3. QED
  BY <1>1, <1>2, RootIsNowhere

\* The tree order survives the insertion of a character whose origin is there.
\* The three ways the scan of insertChar can end (the end of the document, a
\* smaller sibling, a character outside the origin's subtree) each leave the
\* new character between larger and smaller siblings and inside its subtree.
THEOREM InsertKeepsTreeOrder ==
  ASSUME NEW doc \in Seq(Char), TreeOrder(doc),
         NEW new \in Char, ~HasChar(doc, new.id),
         new.origin = Root \/ HasChar(doc, new.origin)
  PROVE  TreeOrder(insertChar(doc, new))
<1> DEFINE N == Len(doc)
           o == IndexOf(doc, new.origin)
           p == InsertPos(doc, new)
           d == InsertAt(doc, p, new)
           pos(i) == IndexOf(doc, doc[i].origin)
           old(i) == IF i < p THEN i ELSE i - 1
           shift(k) == IF k < p THEN k ELSE k + 1
<1>1. N \in Nat /\ o \in 0..N /\ p \in (o + 1)..(N + 1)
  <2>1. N \in Nat
    BY LenProperties
  <2>2. o \in 0..N
    BY IndexOfFacts
  <2>3. p \in (o + 1)..(N + 1)
    BY InsertPosFacts
  <2>4. QED
    BY <2>1, <2>2, <2>3
<1>2. \A q \in (o + 1)..(p - 1) : ~EndsScan(doc, new, doc[q])
  BY InsertPosFacts
<1>3. p <= N => EndsScan(doc, new, doc[p])
  BY InsertPosFacts
<1>4. UniqueChars(doc) /\ SiblingsDescend(doc) /\ SubtreesAreContiguous(doc)
  BY DEF TreeOrder
<1>5. \A i \in 1..N : doc[i] \in Char /\ pos(i) \in 0..(i - 1)
  BY OriginBefore, ElementOfSeq
<1>6. new.id \in Id /\ new.id # Root /\ new.origin # new.id
  <2>1. new.id \in Id /\ new.id # Root
    BY RootIsNowhere, EmptySeq DEF Char
  <2>2. QED
    BY <2>1
<1>7. \A i \in 1..N : doc[i].origin # new.id /\ doc[i].id # new.id
  <2> TAKE i \in 1..N
  <2>1. doc[i].origin = Root \/ HasChar(doc, doc[i].origin)
    BY <1>1 DEF TreeOrder, OriginsPrecede, HasChar
  <2>2. doc[i].id # new.id
    BY IndexOfFacts DEF HasChar
  <2>3. QED
    BY <1>6, <2>1, <2>2
<1>8. /\ d \in Seq(Char) /\ Len(d) = N + 1 /\ d[p] = new
      /\ \A i \in 1..(N + 1) : i # p => old(i) \in 1..N /\ d[i] = doc[old(i)]
  <2>1. p \in 1..(N + 1)
    BY <1>1
  <2>2. /\ d \in Seq(Char) /\ Len(d) = N + 1
        /\ \A i \in 1..(N + 1) :
             d[i] = IF i < p THEN doc[i] ELSE IF i = p THEN new ELSE doc[i - 1]
    BY <2>1, InsertAtFacts
  <2> HIDE DEF d, p, N
  <2>3. QED
    BY <1>1, <2>1, <2>2
<1>9. /\ UniqueChars(d)
      /\ \A id : id # new.id => IndexOf(d, id) = shift(IndexOf(doc, id))
  BY <1>1, <1>4, InsertShifts
<1>10. IndexOf(d, new.origin) = o
  BY <1>1, <1>6, <1>9
<1>11. \A i \in 1..(N + 1) : i # p => IndexOf(d, d[i].origin) = shift(pos(old(i)))
  BY <1>7, <1>8, <1>9
<1>12. \A q \in (o + 1)..(p - 1) :
          /\ pos(q) >= o
          /\ doc[q].origin = new.origin => ~Greater(new.id, doc[q].id)
  BY <1>1, <1>2, <1>5 DEF EndsScan
<1>13. p <= N =>
          \/ doc[p].origin = new.origin /\ Greater(new.id, doc[p].id)
          \/ doc[p].origin # new.origin /\ pos(p) < o
  BY <1>3 DEF EndsScan
<1> HIDE DEF N, o, p, d, pos
<1>14. OriginsPrecede(d)
  <2> SUFFICES ASSUME NEW i \in 1..(N + 1), d[i].origin # Root
               PROVE  IndexOf(d, d[i].origin) \in 1..(i - 1)
    BY <1>8 DEF OriginsPrecede
  <2>1. CASE i = p
    BY <1>1, <1>8, <1>10, <2>1 DEF HasChar, o
  <2>2. CASE i # p
    <3>1. pos(old(i)) \in 1..(old(i) - 1)
      BY <1>8, <2>2 DEF TreeOrder, OriginsPrecede, pos, N
    <3>2. QED
      BY <1>1, <1>11, <2>2, <3>1
  <2>3. QED
    BY <2>1, <2>2
<1>15. SiblingsDescend(d)
  <2> SUFFICES ASSUME NEW i \in 1..(N + 1), NEW j \in 1..(N + 1),
                      i < j, d[i].origin = d[j].origin
               PROVE  Greater(d[i].id, d[j].id)
    BY <1>8 DEF SiblingsDescend
  <2>1. \A k \in 1..N : doc[k].id \in Id
    BY <1>5 DEF Char
  <2>2. CASE i # p /\ j # p
    <3>1. old(i) < old(j) /\ old(i) \in 1..N /\ old(j) \in 1..N
      BY <1>1, <1>8, <2>2
    <3>2. QED
      BY <1>4, <1>8, <2>2, <3>1 DEF SiblingsDescend, N
  <2>3. CASE j = p
    <3>1. i \in 1..N /\ d[i] = doc[i] /\ i < p
      BY <1>1, <1>8, <2>3
    <3>2. doc[i].origin = new.origin
      BY <1>8, <2>3, <3>1
    <3>3. pos(i) = o
      BY <3>2 DEF pos, o
    <3>4. i \in (o + 1)..(p - 1)
      BY <1>1, <1>5, <3>1, <3>3
    <3>5. ~Greater(new.id, doc[i].id)
      BY <1>12, <3>2, <3>4
    <3>6. QED
      BY <1>6, <1>7, <1>8, <2>1, <2>3, <3>1, <3>5, GreaterIsTotalOrder
  <2>4. CASE i = p
    <3> DEFINE q == j - 1
    <3>1. q \in 1..N /\ d[j] = doc[q] /\ q >= p /\ p <= N
      BY <1>1, <1>8, <2>4
    <3>2. doc[q].origin = new.origin
      BY <1>8, <2>4, <3>1
    <3>3. pos(q) = o
      BY <3>2 DEF pos, o
    <3> HIDE DEF q
    <3>4. p \in 1..N
      BY <1>1, <3>1
    <3>5. CASE doc[p].origin = new.origin /\ Greater(new.id, doc[p].id)
      <4>1. CASE q = p
        BY <1>8, <2>4, <3>1, <3>5, <4>1
      <4>2. CASE q > p
        <5>1. Greater(doc[p].id, doc[q].id)
          BY <1>4, <3>1, <3>2, <3>4, <3>5, <4>2 DEF SiblingsDescend, N
        <5>2. QED
          BY <1>6, <1>8, <2>1, <2>4, <3>1, <3>4, <3>5, <5>1, GreaterIsTotalOrder
      <4>3. QED
        BY <1>1, <3>1, <4>1, <4>2
    <3>6. CASE doc[p].origin # new.origin /\ pos(p) < o
      <4>1. q > p /\ pos(q) < p
        BY <1>1, <3>1, <3>2, <3>3, <3>6
      <4>2. pos(p) >= pos(q)
        BY <1>4, <3>1, <3>4, <4>1 DEF SubtreesAreContiguous, N, pos
      <4>3. QED
        BY <1>1, <1>5, <3>3, <3>4, <3>6, <4>2
    <3>7. QED
      BY <1>13, <3>1, <3>5, <3>6
  <2>5. QED
    BY <2>2, <2>3, <2>4
<1>16. SubtreesAreContiguous(d)
  <2> SUFFICES ASSUME NEW i \in 1..(N + 1), NEW j \in 1..(N + 1),
                      i < j, IndexOf(d, d[j].origin) < i
               PROVE  IndexOf(d, d[i].origin) >= IndexOf(d, d[j].origin)
    BY <1>8 DEF SubtreesAreContiguous
  <2>1. CASE i # p /\ j # p
    <3>1. old(i) < old(j) /\ old(i) \in 1..N /\ old(j) \in 1..N
      BY <1>1, <1>8, <2>1
    <3>2. pos(old(j)) < old(i)
      <4>1. shift(pos(old(j))) < i
        BY <1>11, <2>1
      <4>2. pos(old(j)) \in Nat
        BY <1>1, <1>5, <3>1
      <4>3. QED
        BY <1>1, <2>1, <4>1, <4>2
    <3>3. pos(old(i)) >= pos(old(j))
      BY <1>4, <3>1, <3>2 DEF SubtreesAreContiguous, N, pos
    <3>4. pos(old(i)) \in Nat /\ pos(old(j)) \in Nat
      BY <1>1, <1>5, <3>1
    <3>5. shift(pos(old(i))) >= shift(pos(old(j)))
      BY <1>1, <3>3, <3>4
    <3>6. QED
      BY <1>11, <2>1, <3>5
  <2>2. CASE j = p
    <3>1. i \in (o + 1)..(p - 1) /\ i \in 1..N /\ old(i) = i
      BY <1>1, <1>8, <1>10, <2>2
    <3>2. pos(i) >= o /\ pos(i) \in 0..(i - 1)
      BY <1>5, <1>12, <3>1
    <3>3. IndexOf(d, d[i].origin) = pos(i)
      BY <1>1, <1>11, <2>2, <3>1, <3>2
    <3>4. QED
      BY <1>8, <1>10, <2>2, <3>2, <3>3
  <2>3. CASE i = p
    <3> DEFINE q == j - 1
    <3>1. q \in 1..N /\ old(j) = q /\ j # p /\ q >= p /\ p <= N
      BY <1>1, <1>8, <2>3
    <3>2. IndexOf(d, d[j].origin) = shift(pos(q))
      BY <1>11, <3>1
    <3> HIDE DEF q
    <3>3. p \in 1..N /\ pos(q) \in 0..(q - 1) /\ pos(p) \in 0..(p - 1)
      BY <1>1, <1>5, <3>1
    <3>4. pos(q) < p /\ IndexOf(d, d[j].origin) = pos(q)
      BY <1>1, <2>3, <3>2, <3>3
    <3>5. pos(p) >= pos(q)
      <4>1. CASE q = p
        BY <3>3, <4>1
      <4>2. CASE q > p
        BY <1>4, <3>1, <3>3, <3>4, <4>2 DEF SubtreesAreContiguous, N, pos
      <4>3. QED
        BY <1>1, <3>1, <4>1, <4>2
    <3>6. o >= pos(p)
      <4>1. CASE doc[p].origin = new.origin
        BY <1>1, <4>1 DEF pos, o
      <4>2. CASE pos(p) < o
        BY <1>1, <3>3, <4>2
      <4>3. QED
        BY <1>13, <3>1, <4>1, <4>2
    <3>7. QED
      BY <1>1, <1>8, <1>10, <2>3, <3>3, <3>4, <3>5, <3>6
  <2>4. QED
    BY <2>1, <2>2, <2>3
<1>17. QED
  BY <1>9, <1>14, <1>15, <1>16 DEF insertChar, TreeOrder, d, p

-----------------------------------------------------------------------------
(* The operations the replicas are built from.  What they keep is stated   *)
(* with the names of the characters (identifier and origin, not the        *)
(* deletion flag) and with Keeps, which says that one document is a later  *)
(* state of another.                                                       *)

Name(c) == <<c.id, c.origin>>
NamesOf(doc) == {Name(doc[i]) : i \in 1..Len(doc)}

\* Nothing is lost, reordered or undeleted on the way from `doc' to `later'.
Keeps(doc, later) ==
  \A i, j \in 1..Len(doc) :
     /\ HasChar(later, doc[i].id)
     /\ i < j => IndexOf(later, doc[i].id) < IndexOf(later, doc[j].id)
     /\ doc[i].isDeleted => later[IndexOf(later, doc[i].id)].isDeleted

LEMMA HasCharFacts ==
  ASSUME NEW doc \in Seq(Char), NEW id
  PROVE  HasChar(doc, id) <=> \E n \in NamesOf(doc) : n[1] = id
<1>1. Len(doc) \in Nat
  BY LenProperties
<1>2. ASSUME HasChar(doc, id) PROVE \E n \in NamesOf(doc) : n[1] = id
  <2>1. IndexOf(doc, id) \in 1..Len(doc) /\ doc[IndexOf(doc, id)].id = id
    BY <1>1, <1>2, IndexOfFacts DEF HasChar
  <2>2. Name(doc[IndexOf(doc, id)]) \in NamesOf(doc)
    BY <2>1 DEF NamesOf
  <2>3. Name(doc[IndexOf(doc, id)])[1] = id
    BY <2>1 DEF Name
  <2>4. QED
    BY <2>2, <2>3
<1>3. ASSUME NEW i \in 1..Len(doc), doc[i].id = id PROVE HasChar(doc, id)
  BY <1>1, <1>3, IndexOfFacts DEF HasChar
<1>4. QED
  BY <1>2, <1>3 DEF NamesOf, Name

\* Deleting changes flags only.
LEMMA DeletesFacts ==
  ASSUME NEW doc \in Seq(Char), NEW ids
  PROVE  LET d == integrateRemoteDeletes(doc, ids)
         IN  /\ d \in Seq(Char)
             /\ Len(d) = Len(doc)
             /\ \A i \in 1..Len(doc) : /\ d[i].id = doc[i].id
                                       /\ d[i].origin = doc[i].origin
                                       /\ doc[i].isDeleted => d[i].isDeleted
             /\ \A id : IndexOf(d, id) = IndexOf(doc, id)
             /\ NamesOf(d) = NamesOf(doc)
<1> DEFINE d == integrateRemoteDeletes(doc, ids)
<1>1. Len(doc) \in Nat
  BY LenProperties
<1>2. \A i \in 1..Len(doc) : doc[i] \in Char
  BY ElementOfSeq
<1>3. \A i \in 1..Len(doc) :
        /\ d[i] \in Char /\ d[i].id = doc[i].id /\ d[i].origin = doc[i].origin
        /\ doc[i].isDeleted => d[i].isDeleted
  BY <1>2 DEF integrateRemoteDeletes, Char
<1>4. DOMAIN d = 1..Len(doc) /\ d = [i \in 1..Len(doc) |-> d[i]]
  BY DEF integrateRemoteDeletes
<1>5. d \in Seq(Char) /\ Len(d) = Len(doc)
  BY <1>1, <1>3, <1>4, IsASeq, LenProperties
<1> HIDE DEF d
<1>6. \A id : IndexOf(d, id) = IndexOf(doc, id)
  <2> TAKE id
  <2>1. {i \in 1..Len(d) : d[i].id = id} = {i \in 1..Len(doc) : doc[i].id = id}
    BY <1>3, <1>5
  <2>2. QED
    BY <2>1 DEF IndexOf, SelectInSeq
<1>7. NamesOf(d) = NamesOf(doc)
  BY <1>3, <1>5 DEF NamesOf, Name
<1>8. QED
  BY <1>3, <1>5, <1>6, <1>7 DEF d

THEOREM DeletesKeepTreeOrder ==
  ASSUME NEW doc \in Seq(Char), TreeOrder(doc), NEW ids
  PROVE  TreeOrder(integrateRemoteDeletes(doc, ids))
<1> DEFINE d == integrateRemoteDeletes(doc, ids)
<1>1. /\ Len(d) = Len(doc)
      /\ \A i \in 1..Len(doc) : d[i].id = doc[i].id /\ d[i].origin = doc[i].origin
      /\ \A id : IndexOf(d, id) = IndexOf(doc, id)
  BY DeletesFacts
<1> HIDE DEF d
<1>2. UniqueChars(d)
  BY <1>1 DEF TreeOrder, UniqueChars
<1>3. OriginsPrecede(d)
  BY <1>1 DEF TreeOrder, OriginsPrecede
<1>4. SiblingsDescend(d)
  BY <1>1 DEF TreeOrder, SiblingsDescend
<1>5. SubtreesAreContiguous(d)
  BY <1>1 DEF TreeOrder, SubtreesAreContiguous
<1>6. QED
  BY <1>2, <1>3, <1>4, <1>5 DEF TreeOrder, d

LEMMA DeletesKeep ==
  ASSUME NEW doc \in Seq(Char), UniqueChars(doc), NEW ids
  PROVE  Keeps(doc, integrateRemoteDeletes(doc, ids))
<1> DEFINE d == integrateRemoteDeletes(doc, ids)
<1>1. \A i \in 1..Len(doc) : /\ IndexOf(d, doc[i].id) = i
                             /\ doc[i].isDeleted => d[i].isDeleted
  BY DeletesFacts, IndexOfUnique
<1>2. Len(doc) \in Nat
  BY LenProperties
<1> HIDE DEF d
<1>3. QED
  BY <1>1, <1>2 DEF Keeps, HasChar, d

LEMMA KeepsIsTransitive ==
  ASSUME NEW a \in Seq(Char), UniqueChars(a),
         NEW b \in Seq(Char), UniqueChars(b),
         NEW c \in Seq(Char), Keeps(a, b), Keeps(b, c)
  PROVE  Keeps(a, c)
<1> DEFINE at(i) == IndexOf(b, a[i].id)
<1>1. \A i \in 1..Len(a) : at(i) \in 1..Len(b) /\ b[at(i)].id = a[i].id
  <2> TAKE i \in 1..Len(a)
  <2>1. at(i) # 0 /\ Len(b) \in Nat
    BY LenProperties DEF Keeps, HasChar
  <2>2. QED
    BY <2>1, IndexOfFacts
<1>2. \A i, j \in 1..Len(a) : /\ i < j => at(i) < at(j)
                              /\ a[i].isDeleted => b[at(i)].isDeleted
  BY DEF Keeps
<1> HIDE DEF at
<1>3. QED
  BY <1>1, <1>2 DEF Keeps

\* Inserting adds one name.
LEMMA InsertFacts ==
  ASSUME NEW doc \in Seq(Char), TreeOrder(doc),
         NEW new \in Char, ~HasChar(doc, new.id), isInsertReady(doc, new)
  PROVE  LET d == insertChar(doc, new)
         IN  /\ d \in Seq(Char)
             /\ TreeOrder(d)
             /\ NamesOf(d) = NamesOf(doc) \cup {Name(new)}
             /\ Keeps(doc, d)
<1> DEFINE p == InsertPos(doc, new)
           d == InsertAt(doc, p, new)
<1>1. Len(doc) \in Nat
  BY LenProperties
<1>2. p \in 1..(Len(doc) + 1)
  BY <1>1, InsertPosFacts, IndexOfFacts
<1>3. /\ d \in Seq(Char) /\ Len(d) = Len(doc) + 1
      /\ \A i \in 1..(Len(doc) + 1) :
            d[i] = IF i < p THEN doc[i] ELSE IF i = p THEN new ELSE doc[i - 1]
  BY <1>2, InsertAtFacts
<1>4. TreeOrder(d)
  BY InsertKeepsTreeOrder DEF isInsertReady, insertChar
<1>5. \A id : id # new.id =>
         IndexOf(d, id) = IF IndexOf(doc, id) < p THEN IndexOf(doc, id)
                          ELSE IndexOf(doc, id) + 1
  BY <1>2, InsertShifts DEF TreeOrder
<1>6. \A i \in 1..Len(doc) : IndexOf(doc, doc[i].id) = i /\ doc[i].id # new.id
  BY IndexOfUnique, IndexOfFacts DEF TreeOrder, HasChar
<1> HIDE DEF p, d
<1>7. NamesOf(d) = NamesOf(doc) \cup {Name(new)}
  <2>1. ASSUME NEW i \in 1..Len(d) PROVE Name(d[i]) \in NamesOf(doc) \cup {Name(new)}
    <3>1. CASE i < p
      BY <1>1, <1>2, <1>3, <3>1 DEF NamesOf
    <3>2. CASE i = p
      BY <1>1, <1>2, <1>3, <3>2
    <3>3. CASE i > p
      <4>1. i - 1 \in 1..Len(doc) /\ d[i] = doc[i - 1]
        BY <1>1, <1>2, <1>3, <3>3
      <4>2. QED
        BY <4>1 DEF NamesOf
    <3>4. QED
      BY <1>2, <1>3, <3>1, <3>2, <3>3
  <2>2. Name(new) \in NamesOf(d)
    BY <1>1, <1>2, <1>3 DEF NamesOf
  <2>3. ASSUME NEW i \in 1..Len(doc) PROVE Name(doc[i]) \in NamesOf(d)
    <3>1. CASE i < p
      <4>1. i \in 1..Len(d) /\ d[i] = doc[i]
        BY <1>1, <1>3, <3>1
      <4>2. QED
        BY <4>1 DEF NamesOf
    <3>2. CASE i >= p
      <4>1. i + 1 \in 1..Len(d) /\ d[i + 1] = doc[i]
        BY <1>1, <1>2, <1>3, <3>2
      <4>2. QED
        BY <4>1 DEF NamesOf
    <3>3. QED
      BY <1>2, <3>1, <3>2
  <2>4. QED
    BY <2>1, <2>2, <2>3 DEF NamesOf
<1>8. Keeps(doc, d)
  <2>1. \A i \in 1..Len(doc) : IndexOf(d, doc[i].id) = IF i < p THEN i ELSE i + 1
    BY <1>5, <1>6
  <2>2. \A i \in 1..Len(doc) : d[IF i < p THEN i ELSE i + 1] = doc[i]
    BY <1>1, <1>2, <1>3
  <2>3. QED
    BY <1>1, <1>2, <2>1, <2>2 DEF Keeps, HasChar
<1>9. QED
  BY <1>3, <1>4, <1>7, <1>8 DEF insertChar, d, p

\* integrateRemoteInsert, whether the character is new or not.
LEMMA RemoteInsertFacts ==
  ASSUME NEW doc \in Seq(Char), TreeOrder(doc), NEW new \in Char, isInsertReady(doc, new)
  PROVE  LET d == integrateRemoteInsert(doc, new)
         IN  /\ d \in Seq(Char)
             /\ TreeOrder(d)
             /\ NamesOf(doc) \subseteq NamesOf(d)
             /\ NamesOf(d) \subseteq NamesOf(doc) \cup {Name(new)}
             /\ \A id : HasChar(d, id) <=> HasChar(doc, id) \/ id = new.id
             /\ Keeps(doc, d)
<1>1. CASE HasChar(doc, new.id)
  <2>1. integrateRemoteInsert(doc, new) = doc
    BY <1>1 DEF integrateRemoteInsert
  <2>2. Keeps(doc, integrateRemoteDeletes(doc, {})) /\ doc = integrateRemoteDeletes(doc, {})
    <3>1. UniqueChars(doc)
      BY DEF TreeOrder
    <3>2. doc = [i \in 1..Len(doc) |-> doc[i]]
      BY LenProperties, ElementOfSeq
    <3>3. QED
      BY <3>1, <3>2, DeletesKeep DEF integrateRemoteDeletes
  <2>3. QED
    BY <1>1, <2>1, <2>2
<1>2. CASE ~HasChar(doc, new.id)
  <2> DEFINE d == insertChar(doc, new)
  <2>1. integrateRemoteInsert(doc, new) = d
    BY <1>2 DEF integrateRemoteInsert
  <2>2. /\ d \in Seq(Char) /\ TreeOrder(d) /\ Keeps(doc, d)
        /\ NamesOf(d) = NamesOf(doc) \cup {Name(new)}
    BY <1>2, InsertFacts
  <2> HIDE DEF d
  <2>3. Name(new)[1] = new.id
    BY DEF Name
  <2>4. \A id : HasChar(d, id) <=> \E n \in NamesOf(d) : n[1] = id
    BY <2>2, HasCharFacts
  <2>5. \A id : HasChar(doc, id) <=> \E n \in NamesOf(doc) : n[1] = id
    BY HasCharFacts
  <2>6. \A id : HasChar(d, id) <=> HasChar(doc, id) \/ id = new.id
    BY <2>2, <2>3, <2>4, <2>5
  <2>7. QED
    BY <2>1, <2>2, <2>6
<1>3. QED
  BY <1>1, <1>2

\* One step of merging a snapshot whose character has its origin here.
LEMMA MergeCharFacts ==
  ASSUME NEW doc \in Seq(Char), TreeOrder(doc), NEW char \in Char, isInsertReady(doc, char)
  PROVE  LET d == mergeChar(doc, char)
         IN  /\ d \in Seq(Char)
             /\ TreeOrder(d)
             /\ NamesOf(doc) \subseteq NamesOf(d)
             /\ NamesOf(d) \subseteq NamesOf(doc) \cup {Name(char)}
             /\ \A id : HasChar(d, id) <=> HasChar(doc, id) \/ id = char.id
             /\ Keeps(doc, d)
<1>1. CASE HasChar(doc, char.id) /\ char.isDeleted
  <2> DEFINE d == integrateRemoteDeletes(doc, {char.id})
  <2>1. mergeChar(doc, char) = d
    BY <1>1 DEF mergeChar
  <2>2. /\ d \in Seq(Char) /\ NamesOf(d) = NamesOf(doc)
        /\ \A id : HasChar(d, id) <=> HasChar(doc, id)
    BY DeletesFacts DEF HasChar
  <2>3. TreeOrder(d) /\ Keeps(doc, d)
    BY DeletesKeepTreeOrder, DeletesKeep DEF TreeOrder
  <2> HIDE DEF d
  <2>4. QED
    BY <1>1, <2>1, <2>2, <2>3
<1>2. CASE ~(HasChar(doc, char.id) /\ char.isDeleted)
  <2>1. mergeChar(doc, char) = integrateRemoteInsert(doc, char)
    BY <1>2 DEF mergeChar, integrateRemoteInsert
  <2>2. QED
    BY <2>1, RemoteInsertFacts
<1>3. QED
  BY <1>1, <1>2

-----------------------------------------------------------------------------
(* The tree order leaves no choice: strong convergence.                    *)

\* Two documents in tree order that agree before position i know every origin
\* that lies before i at the same position.
LEMMA PrefixKnowsOrigins ==
  ASSUME NEW a \in Seq(Char), TreeOrder(a), NEW b \in Seq(Char), TreeOrder(b),
         NEW i \in 1..Len(a), \A k \in 1..(i - 1) : k <= Len(b) /\ a[k].id = b[k].id
  PROVE  IndexOf(b, a[i].origin) = IndexOf(a, a[i].origin)
<1> DEFINE o == IndexOf(a, a[i].origin)
<1>1. Len(a) \in Nat /\ Len(b) \in Nat
  BY LenProperties
<1>2. CASE a[i].origin = Root
  BY <1>2, RootIsNowhere
<1>3. CASE a[i].origin # Root
  <2>1. o \in 1..(i - 1)
    BY <1>3 DEF TreeOrder, OriginsPrecede
  <2>2. a[o].id = a[i].origin
    BY <1>1, <2>1, IndexOfFacts
  <2> HIDE DEF o
  <2>3. o \in 1..Len(b) /\ b[o].id = a[i].origin
    BY <1>1, <2>1, <2>2
  <2>4. IndexOf(b, b[o].id) = o
    BY <2>3, IndexOfUnique DEF TreeOrder
  <2>5. QED
    BY <2>3, <2>4 DEF o
<1>4. QED
  BY <1>2, <1>3

\* Documents in tree order with the same identifiers, each inserted after the
\* same origin in both, are the same sequence: at the first position where
\* they differ the two characters would be siblings that each come first, or
\* one of them would interrupt the subtree the other belongs to.
THEOREM TreeOrderIsDetermined ==
  ASSUME NEW a \in Seq(Char), TreeOrder(a), NEW b \in Seq(Char), TreeOrder(b),
         Ids(a) = Ids(b),
         \A i \in 1..Len(a), j \in 1..Len(b) :
            a[i].id = b[j].id => a[i].origin = b[j].origin
  PROVE  \A i \in 1..Len(a) : i <= Len(b) /\ a[i].id = b[i].id
<1> DEFINE D == {k \in 1..Len(a) : ~(k <= Len(b) /\ a[k].id = b[k].id)}
<1> SUFFICES ASSUME D # {} PROVE FALSE
  OBVIOUS
<1>1. Len(a) \in Nat /\ Len(b) \in Nat
  BY LenProperties
<1> DEFINE i == Min(D)
<1>2. i \in D /\ \A y \in D : i <= y
  <2>1. D \subseteq Nat
    BY <1>1
  <2>2. QED
    BY <2>1, LeastPosition
<1> HIDE DEF i
<1>3. i \in 1..Len(a) /\ ~(i <= Len(b) /\ a[i].id = b[i].id)
  BY <1>2
<1>4. \A k \in 1..(i - 1) : k <= Len(b) /\ a[k].id = b[k].id
  <2> TAKE k \in 1..(i - 1)
  <2>1. k \in 1..Len(a) /\ ~(i <= k)
    BY <1>1, <1>3
  <2>2. QED
    BY <1>2, <2>1
<1> HIDE DEF D
<1>5. PICK ja \in 1..Len(b) : b[ja].id = a[i].id
  <2>1. a[i].id \in Ids(b)
    BY <1>3 DEF Ids
  <2>2. QED
    BY <2>1 DEF Ids
<1>6. ja > i
  <2>1. ja # i
    BY <1>3, <1>5
  <2>2. ASSUME ja < i PROVE FALSE
    <3>1. ja \in 1..(i - 1) /\ ja \in 1..Len(a)
      BY <1>1, <1>3, <1>5, <2>2
    <3>2. a[ja].id = a[i].id
      BY <1>4, <1>5, <3>1
    <3>3. QED
      BY <1>3, <2>1, <3>1, <3>2 DEF TreeOrder, UniqueChars
  <2>3. QED
    BY <1>1, <1>3, <2>1, <2>2
<1>7. i \in 1..Len(b) /\ a[i].id # b[i].id
  BY <1>1, <1>3, <1>5, <1>6
<1>8. PICK jb \in 1..Len(a) : a[jb].id = b[i].id
  <2>1. b[i].id \in Ids(a)
    BY <1>7 DEF Ids
  <2>2. QED
    BY <2>1 DEF Ids
<1>9. jb > i
  <2>1. jb # i
    BY <1>7, <1>8
  <2>2. ASSUME jb < i PROVE FALSE
    <3>1. jb \in 1..(i - 1) /\ jb \in 1..Len(b)
      BY <1>1, <1>7, <1>8, <2>2
    <3>2. b[jb].id = b[i].id
      BY <1>4, <1>8, <3>1
    <3>3. QED
      BY <1>7, <2>1, <3>1, <3>2 DEF TreeOrder, UniqueChars
  <2>3. QED
    BY <1>1, <1>3, <2>1, <2>2
<1>10. b[ja].origin = a[i].origin /\ a[jb].origin = b[i].origin
  BY <1>3, <1>5, <1>7, <1>8
<1> DEFINE oa == IndexOf(a, a[i].origin)
           ob == IndexOf(b, b[i].origin)
<1>11. oa \in 0..(i - 1) /\ ob \in 0..(i - 1)
  BY <1>3, <1>7, OriginBefore
<1>12. IndexOf(b, b[ja].origin) = oa
  BY <1>3, <1>4, <1>10, PrefixKnowsOrigins
<1>13. IndexOf(a, a[jb].origin) = ob
  <2>1. \A k \in 1..(i - 1) : k <= Len(a) /\ b[k].id = a[k].id
    BY <1>1, <1>3, <1>4
  <2>2. QED
    BY <1>7, <1>10, <2>1, PrefixKnowsOrigins
<1>14. CASE a[i].origin = b[i].origin
  <2>1. Greater(a[i].id, a[jb].id)
    BY <1>3, <1>8, <1>9, <1>10, <1>14 DEF TreeOrder, SiblingsDescend
  <2>2. Greater(b[i].id, b[ja].id)
    BY <1>5, <1>6, <1>7, <1>10, <1>14 DEF TreeOrder, SiblingsDescend
  <2>3. a[i].id \in Id /\ b[i].id \in Id
    <3>1. a[i] \in Char /\ b[i] \in Char
      BY <1>3, <1>7, ElementOfSeq
    <3>2. QED
      BY <3>1 DEF Char
  <2>4. QED
    BY <1>5, <1>8, <2>1, <2>2, <2>3, GreaterIsTotalOrder
<1>15. CASE oa < ob
  <2>1. oa >= ob
    BY <1>3, <1>8, <1>9, <1>11, <1>13 DEF TreeOrder, SubtreesAreContiguous
  <2>2. QED
    BY <1>3, <1>11, <1>15, <2>1
<1>16. CASE ob < oa
  <2>1. ob >= oa
    BY <1>5, <1>6, <1>7, <1>11, <1>12 DEF TreeOrder, SubtreesAreContiguous
  <2>2. QED
    BY <1>3, <1>11, <1>16, <2>1
<1>17. CASE oa = ob /\ a[i].origin # b[i].origin
  <2>1. oa # 0
    <3>1. ASSUME oa = 0 PROVE a[i].origin = Root /\ b[i].origin = Root
      <4>1. a[i].origin = Root \/ oa \in 1..(i - 1)
        BY <1>3 DEF TreeOrder, OriginsPrecede
      <4>2. b[i].origin = Root \/ ob \in 1..(i - 1)
        BY <1>7 DEF TreeOrder, OriginsPrecede
      <4> HIDE DEF oa, ob
      <4>3. QED
        BY <1>3, <1>17, <3>1, <4>1, <4>2
    <3>2. QED
      BY <1>17, <3>1
  <2>2. oa \in 1..(i - 1)
    BY <1>11, <2>1
  <2>3. a[oa].id = a[i].origin
    BY <2>1, IndexOfFacts
  <2>4. b[oa].id = b[i].origin
    BY <1>17, <2>1, IndexOfFacts
  <2>5. QED
    BY <1>4, <1>17, <2>2, <2>3, <2>4
<1>18. QED
  BY <1>3, <1>11, <1>14, <1>15, <1>16, <1>17

\* Two documents in tree order, with one origin for what both have, never order
\* two characters differently, whatever else each of them has: of the pairs that
\* they do, one that is first has siblings that come in two orders, or one of
\* its origins is in a pair before it.
THEOREM TreesAgree ==
  ASSUME NEW a \in Seq(Char), TreeOrder(a), NEW b \in Seq(Char), TreeOrder(b),
         \A i \in 1..Len(a), j \in 1..Len(b) :
            a[i].id = b[j].id => a[i].origin = b[j].origin
  PROVE  \A i, j \in 1..Len(a) : i < j /\ HasChar(b, a[i].id) /\ HasChar(b, a[j].id) =>
            IndexOf(b, a[i].id) < IndexOf(b, a[j].id)
<1> DEFINE at(i) == IndexOf(b, a[i].id)
           up(i) == IndexOf(a, a[i].origin)
           Wrong(i, j) == i < j /\ at(i) # 0 /\ at(j) # 0 /\ at(j) < at(i)
           D == {n \in Nat : \E i, j \in 1..Len(a) : n = i + j /\ Wrong(i, j)}
<1>1. Len(a) \in Nat /\ Len(b) \in Nat
  BY LenProperties
<1>2. \A i \in 1..Len(a) : /\ at(i) \in 0..Len(b)
                           /\ at(i) # 0 => b[at(i)].id = a[i].id /\ b[at(i)].origin = a[i].origin
  <2> SUFFICES ASSUME NEW i \in 1..Len(a)
               PROVE  /\ at(i) \in 0..Len(b)
                      /\ at(i) # 0 => b[at(i)].id = a[i].id /\ b[at(i)].origin = a[i].origin
    OBVIOUS
  <2>1. at(i) \in 0..Len(b) /\ (at(i) # 0 => b[at(i)].id = a[i].id)
    BY IndexOfFacts
  <2> HIDE DEF at
  <2>2. at(i) # 0 => at(i) \in 1..Len(b)
    BY <1>1, <2>1
  <2> QED BY <2>1, <2>2
<1>3. \A i, j \in 1..Len(a) : at(i) # 0 /\ at(i) = at(j) => i = j
  BY <1>2 DEF TreeOrder, UniqueChars
<1>4. \A i \in 1..Len(a) : at(i) # 0 =>
        /\ up(i) \in 0..(i - 1) /\ IndexOf(b, a[i].origin) \in 0..(at(i) - 1)
        /\ up(i) # 0 => a[up(i)].id = a[i].origin /\ at(up(i)) = IndexOf(b, a[i].origin) /\ at(up(i)) # 0
        /\ up(i) = 0 => a[i].origin = Root /\ IndexOf(b, a[i].origin) = 0
  <2> SUFFICES ASSUME NEW i \in 1..Len(a), at(i) # 0
               PROVE  /\ up(i) \in 0..(i - 1) /\ IndexOf(b, a[i].origin) \in 0..(at(i) - 1)
                      /\ up(i) # 0 => /\ a[up(i)].id = a[i].origin
                                      /\ at(up(i)) = IndexOf(b, a[i].origin) /\ at(up(i)) # 0
                      /\ up(i) = 0 => a[i].origin = Root /\ IndexOf(b, a[i].origin) = 0
    OBVIOUS
  <2>1. at(i) \in 1..Len(b) /\ b[at(i)].origin = a[i].origin
    BY <1>1, <1>2
  <2>2. up(i) \in 0..(i - 1) /\ (a[i].origin = Root \/ up(i) \in 1..(i - 1))
    BY OriginBefore DEF TreeOrder, OriginsPrecede
  <2>3. /\ IndexOf(b, a[i].origin) \in 0..(at(i) - 1)
        /\ a[i].origin = Root \/ IndexOf(b, a[i].origin) \in 1..(at(i) - 1)
    <3> HIDE DEF at
    <3>1. IndexOf(b, b[at(i)].origin) \in 0..(at(i) - 1)
      BY <2>1, OriginBefore
    <3>2. b[at(i)].origin = Root \/ IndexOf(b, b[at(i)].origin) \in 1..(at(i) - 1)
      BY <2>1 DEF TreeOrder, OriginsPrecede
    <3> QED BY <2>1, <3>1, <3>2
  <2>4. up(i) # 0 => a[up(i)].id = a[i].origin
    BY IndexOfFacts
  <2>5. IndexOf(a, Root) = 0 /\ IndexOf(b, Root) = 0
    BY RootIsNowhere
  <2>6. up(i) = 0 => a[i].origin = Root /\ IndexOf(b, a[i].origin) = 0
    BY <1>1, <2>2, <2>5
  <2>7. up(i) # 0 => IndexOf(b, a[i].origin) \in 1..(at(i) - 1)
    BY <2>3, <2>5
  <2>8. up(i) # 0 => at(up(i)) = IndexOf(b, a[i].origin) /\ at(up(i)) # 0
    BY <1>1, <2>1, <2>4, <2>7
  <2> QED BY <2>2, <2>3, <2>4, <2>6, <2>8
<1> SUFFICES ASSUME D # {} PROVE FALSE
  <2> SUFFICES ASSUME D = {}, NEW i \in 1..Len(a), NEW j \in 1..Len(a), i < j, at(i) # 0, at(j) # 0
               PROVE  at(i) < at(j)
    BY DEF HasChar
  <2>1. i + j \in Nat /\ i # j
    BY <1>1
  <2>2. ~Wrong(i, j)
    BY <2>1
  <2>3. at(i) \in Nat /\ at(j) \in Nat /\ at(i) # at(j)
    BY <1>1, <1>2, <1>3, <2>1
  <2> QED BY <2>2, <2>3
<1>5. PICK i \in 1..Len(a), j \in 1..Len(a) :
        Wrong(i, j) /\ \A k, l \in 1..Len(a) : k + l < i + j => ~Wrong(k, l)
  <2>1. PICK least \in D : \A n \in D : least <= n
    BY LeastPosition
  <2>2. PICK i \in 1..Len(a), j \in 1..Len(a) : least = i + j /\ Wrong(i, j)
    BY <2>1
  <2>3. ASSUME NEW k \in 1..Len(a), NEW l \in 1..Len(a), k + l < i + j, Wrong(k, l) PROVE FALSE
    <3>1. k + l \in Nat /\ i + j \in Nat
      BY <1>1
    <3>2. k + l \in D
      BY <2>3, <3>1
    <3>3. least <= k + l
      BY <2>1, <3>2
    <3> QED BY <2>2, <2>3, <3>1, <3>3
  <2> QED BY <2>2, <2>3
<1> HIDE DEF D
<1>6. /\ i \in Nat /\ j \in Nat /\ i < j /\ at(i) # 0 /\ at(j) # 0 /\ at(j) < at(i)
      /\ at(i) \in 1..Len(b) /\ at(j) \in 1..Len(b)
  BY <1>1, <1>2, <1>5
<1> DEFINE bup(x) == IndexOf(b, a[x].origin)
<1>7. /\ up(i) \in 0..(i - 1) /\ up(j) \in 0..(j - 1) /\ bup(i) \in 0..(at(i) - 1)
             /\ bup(j) \in 0..(at(j) - 1)
      /\ \A x \in {i, j} :
           /\ up(x) # 0 => up(x) \in 1..Len(a) /\ a[up(x)].id = a[x].origin /\ at(up(x)) = bup(x)
                  /\ bup(x) # 0
           /\ up(x) = 0 => a[x].origin = Root /\ bup(x) = 0
  BY <1>1, <1>4, <1>6
<1>8. \A k, l \in 1..Len(a) : k < l /\ k + l < i + j /\ at(k) # 0 /\ at(l) # 0 => at(k) < at(l)
  BY <1>1, <1>2, <1>3, <1>5
<1>9. up(j) < i => up(j) <= up(i)
  BY <1>6 DEF TreeOrder, SubtreesAreContiguous
<1>10. bup(i) < at(j) => bup(i) <= bup(j)
  <2>1. b[at(i)].origin = a[i].origin /\ b[at(j)].origin = a[j].origin
    BY <1>2, <1>6
  <2>2. IndexOf(b, b[at(i)].origin) < at(j) => IndexOf(b, b[at(j)].origin) >= IndexOf(b, b[at(i)].origin)
    BY <1>6 DEF TreeOrder, SubtreesAreContiguous
  <2> QED BY <1>7, <2>1, <2>2
<1>11. ~(a[i].origin = a[j].origin)
  <2> SUFFICES ASSUME a[i].origin = a[j].origin PROVE FALSE
    OBVIOUS
  <2>1. /\ b[at(i)].origin = b[at(j)].origin /\ b[at(i)].id = a[i].id /\ b[at(j)].id = a[j].id
    BY <1>2, <1>6
  <2>2. Greater(a[i].id, a[j].id)
    BY <1>6 DEF TreeOrder, SiblingsDescend
  <2>3. Greater(b[at(j)].id, b[at(i)].id)
    BY <1>6, <2>1 DEF TreeOrder, SiblingsDescend
  <2>4. a[i].id \in Id /\ a[j].id \in Id
    <3>1. a[i] \in Char /\ a[j] \in Char
      BY ElementOfSeq
    <3> QED BY <3>1 DEF Char
  <2> QED BY <2>1, <2>2, <2>3, <2>4, GreaterIsTotalOrder
<1> HIDE DEF at, up, bup
<1>12. CASE up(j) > i
  <2>1. up(j) \in 1..Len(a) /\ at(up(j)) = bup(j) /\ bup(j) # 0
    BY <1>6, <1>7, <1>12
  <2>2. at(i) < at(up(j))
    BY <1>6, <1>7, <1>8, <1>12, <2>1
  <2> QED BY <1>6, <1>7, <2>1, <2>2
<1>13. CASE up(j) = i
  BY <1>6, <1>7, <1>13
<1>14. CASE up(j) < i
  <2>1. up(j) # up(i)
    BY <1>7, <1>11
  <2>2. up(j) < up(i) /\ up(i) \in 1..Len(a) /\ at(up(i)) = bup(i) /\ bup(i) # 0
    BY <1>7, <1>9, <1>14, <2>1
  <2>3. at(up(i)) < at(j)
    BY <1>6, <1>7, <1>8, <2>2
  <2>4. bup(i) <= bup(j)
    BY <1>10, <2>2, <2>3
  <2>5. up(j) \in 1..Len(a) /\ at(up(j)) = bup(j) /\ bup(j) # 0
    BY <1>7, <2>2, <2>4
  <2>6. at(up(j)) < at(up(i))
    BY <1>6, <1>7, <1>8, <2>2, <2>5
  <2> QED BY <1>6, <1>7, <2>2, <2>4, <2>5, <2>6
<1> QED BY <1>6, <1>7, <1>12, <1>13, <1>14
=============================================================================
