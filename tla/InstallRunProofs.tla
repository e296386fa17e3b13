-------------------------- MODULE InstallRunProofs --------------------------
(* Proofs about the installer's runs: for every catalog, every number of      *)
(* items, versions and runs, and wherever a run is cut short, an installed    *)
(* item is still there, what was done stays done and recorded, nothing is on  *)
(* record before what it requires, and a selection's run that completes has   *)
(* made the selection true.                                                   *)
EXTENDS InstallRun, SequenceTheorems, WellFoundedInduction, FiniteSetTheorems,
        FunctionTheorems, TLAPS

(* The least of some numbers: what is shown by induction below is shown of    *)
(* the least number it does not hold of.                                      *)
LEMMA Least ==
    ASSUME NEW S \in SUBSET Nat, S # {}
    PROVE  \E n \in S : \A m \in S : n <= m
<1>1. PICK n \in S : \A m \in S : ~(<<m, n>> \in OpToRel(<, Nat))
    BY NatLessThanWellFounded, WFMin
<1>2. \A m \in S : ~(m < n)
    BY <1>1 DEF OpToRel
<1> QED
    BY <1>2

(* What is at the end of a sequence one longer.                               *)
LEMMA Joined ==
    ASSUME NEW S, NEW s \in Seq(S), NEW e \in S
    PROVE  /\ Append(s, e) \in Seq(S) /\ Len(s) \in Nat
           /\ DOMAIN s = 1 .. Len(s)
           /\ Len(Append(s, e)) = Len(s) + 1
           /\ DOMAIN Append(s, e) = 1 .. Len(s) + 1
           /\ \A i \in 1 .. Len(s) : Append(s, e)[i] = s[i]
           /\ Append(s, e)[Len(s) + 1] = e
OBVIOUS

-----------------------------------------------------------------------------
(* The order of a selection's components.                                     *)

(* A set and its elements in a row, each once.                                *)
Lists(ids, S) ==
    /\ ids \in Seq(S)
    /\ \A j, k \in 1 .. Len(ids) : ids[j] = ids[k] => j = k
    /\ \A c \in S : \E k \in 1 .. Len(ids) : ids[k] = c

LEMMA InjectiveLists ==
    ASSUME NEW S, IsFiniteSet(S), NEW ids \in [1 .. Cardinality(S) -> S],
           \A j, k \in 1 .. Cardinality(S) : ids[j] = ids[k] => j = k
    PROVE  Lists(ids, S)
<1> DEFINE n == Cardinality(S)
<1>1. n \in Nat /\ IsFiniteSet(1 .. n) /\ Cardinality(1 .. n) = n
    BY FS_CardinalityType, FS_Interval
<1>2. ids \in Injection(1 .. n, S)
    BY Fun_IsInj
<1>3. ids \in Surjection(1 .. n, S)
    BY <1>1, <1>2, FS_Injection
<1>4. \A c \in S : \E k \in 1 .. n : ids[k] = c
    BY <1>3 DEF Surjection
<1> HIDE DEF n
<1>5. ids \in Seq(S) /\ Len(ids) = n
    BY <1>1 DEF n
<1> QED
    BY <1>4, <1>5 DEF Lists, n

LEMMA SetToSeqLists ==
    ASSUME NEW S, IsFiniteSet(S) PROVE Lists(SetToSeq(S), S)
<1> DEFINE n == Cardinality(S)
<1>1. PICK f : f \in Bijection(1 .. n, S)
    BY FS_CardinalityType DEF ExistsBijection
<1>2. f \in [1 .. n -> S] /\ IsInjective(f)
    BY <1>1 DEF Bijection, Injection
<1>3. SetToSeq(S) \in [1 .. n -> S] /\ IsInjective(SetToSeq(S))
    BY <1>2 DEF SetToSeq
<1> QED
    BY <1>3, InjectiveLists DEF IsInjective

(* A set of numbers can be put in their order.                                *)
InOrder(ids, S) ==
    /\ ids \in [1 .. Cardinality(S) -> S]
    /\ \A j, k \in 1 .. Cardinality(S) : j < k => ids[j] < ids[k]

LEMMA InOrderExists ==
    ASSUME NEW S \in SUBSET Nat, IsFiniteSet(S)
    PROVE  \E ids : InOrder(ids, S)
<1> DEFINE Bad == {n \in Nat : \E T \in SUBSET S : Cardinality(T) = n /\ ~\E ids : InOrder(ids, T)}
<1>1. SUFFICES ASSUME ~\E ids : InOrder(ids, S) PROVE FALSE
    OBVIOUS
<1>2. Cardinality(S) \in Bad
    BY <1>1, FS_CardinalityType
<1>3. PICK n \in Bad : \A m \in Bad : n <= m
    BY <1>2, Least
<1>4. PICK T \in SUBSET S : Cardinality(T) = n /\ ~\E ids : InOrder(ids, T)
    BY <1>3
<1>5. IsFiniteSet(T)
    BY <1>4, FS_Subset
<1>6. T # {}
  <2> SUFFICES ASSUME T = {} PROVE FALSE
    OBVIOUS
  <2>1. InOrder(<<>>, T)
    BY FS_EmptySet DEF InOrder
  <2> QED
    BY <2>1, <1>4
<1>7. PICK a \in T : \A b \in T : a <= b
    BY <1>6, Least
<1> DEFINE R == T \ {a}
<1>8. IsFiniteSet(R) /\ Cardinality(R) = n - 1 /\ n - 1 \in Nat /\ R \in SUBSET S
  <2>1. Cardinality(T) \in Nat /\ Cardinality(T) # 0
    BY <1>5, <1>6, FS_CardinalityType, FS_EmptySet
  <2>2. IsFiniteSet(T \ {a}) /\ Cardinality(T \ {a}) = Cardinality(T) - 1
    BY <1>5, <1>7, FS_RemoveElement
  <2> QED
    BY <2>1, <2>2, <1>4
<1>9. PICK rest : InOrder(rest, R)
    BY <1>3, <1>8
<1> HIDE DEF R
<1> DEFINE ids == [k \in 1 .. n |-> IF k = 1 THEN a ELSE rest[k - 1]]
<1>10. \A k \in 1 .. n : k # 1 => rest[k - 1] \in R
    BY <1>8, <1>9 DEF InOrder
<1>11. \A k \in 1 .. n : k # 1 => rest[k - 1] \in T /\ a < rest[k - 1]
  <2>1. a \in Nat /\ T \subseteq Nat
    OBVIOUS
  <2>2. \A b \in R : b \in T /\ a < b
    BY <2>1, <1>7 DEF R
  <2> QED
    BY <2>2, <1>10
<1>12. \A j, k \in 1 .. n : j < k => ids[j] < ids[k]
  <2> SUFFICES ASSUME NEW j \in 1 .. n, NEW k \in 1 .. n, j < k PROVE ids[j] < ids[k]
    OBVIOUS
  <2>1. CASE j = 1
    BY <2>1, <1>11
  <2>2. CASE j # 1
    BY <2>2, <1>8, <1>9 DEF InOrder
  <2> QED
    BY <2>1, <2>2
<1>13. ids \in [1 .. n -> T]
    BY <1>11
<1>14. InOrder(ids, T)
    BY <1>4, <1>12, <1>13 DEF InOrder
<1> QED
    BY <1>4, <1>14

LEMMA SortedLists ==
    ASSUME NEW S \in SUBSET Nat, IsFiniteSet(S)
    PROVE  InOrder(Sorted(S), S) /\ Lists(Sorted(S), S)
<1> DEFINE n == Cardinality(S)
<1>1. n \in Nat
    BY FS_CardinalityType
<1>2. \E ids \in [1 .. n -> S] : \A j, k \in DOMAIN ids : j < k => ids[j] < ids[k]
  <2>1. PICK ids : InOrder(ids, S)
    BY InOrderExists
  <2> QED
    BY <2>1 DEF InOrder
<1>3. InOrder(Sorted(S), S)
    BY <1>2 DEF Sorted, InOrder
<1>4. \A j, k \in 1 .. n : Sorted(S)[j] = Sorted(S)[k] => j = k
  <2> DEFINE ids == Sorted(S)
  <2> HIDE DEF ids
  <2> SUFFICES ASSUME NEW j \in 1 .. n, NEW k \in 1 .. n, ids[j] = ids[k] PROVE j = k
    BY DEF ids
  <2>1. ids[j] \in S /\ ids[k] \in S /\ j \in Nat /\ k \in Nat
    BY <1>1, <1>3 DEF InOrder, ids
  <2>2. (j < k => ids[j] < ids[k]) /\ (k < j => ids[k] < ids[j])
    BY <1>3 DEF InOrder, ids
  <2>3. ids[j] \in Nat /\ ids[k] \in Nat
    BY <2>1
  <2> QED
    BY <2>1, <2>2, <2>3
<1> QED
    BY <1>3, <1>4, InjectiveLists DEF InOrder

(* Visits one after the other: what there is after each.                      *)
TurnsBy(upto, visit, order, ids, m) ==
    upto = [n \in 0 .. m |-> IF n = 0 THEN order ELSE visit[ids[n]][upto[n - 1]]]

LEMMA TurnsExist ==
    ASSUME NEW visit, NEW order, NEW ids, NEW m \in Nat
    PROVE  \E upto : TurnsBy(upto, visit, order, ids, m)
<1> DEFINE Bad == {n \in Nat : ~\E upto : TurnsBy(upto, visit, order, ids, n)}
<1>1. SUFFICES ASSUME Bad # {} PROVE FALSE
    OBVIOUS
<1>2. PICK n \in Bad : \A k \in Bad : n <= k
    BY <1>1, Least
<1>3. n # 0
  <2> DEFINE none == [k \in 0 .. 0 |-> order]
  <2>1. none = [k \in 0 .. 0 |-> IF k = 0 THEN order ELSE visit[ids[k]][none[k - 1]]]
    OBVIOUS
  <2>2. TurnsBy(none, visit, order, ids, 0)
    BY <2>1 DEF TurnsBy
  <2> QED
    BY <2>2
<1>4. n - 1 \in Nat /\ n - 1 \notin Bad
    BY <1>2, <1>3
<1>5. PICK upto : TurnsBy(upto, visit, order, ids, n - 1)
    BY <1>4
<1> DEFINE more == [k \in 0 .. n |-> IF k = n THEN visit[ids[n]][upto[n - 1]] ELSE upto[k]]
<1>6. \A k \in 0 .. n - 1 : more[k] = upto[k]
    BY <1>4
<1>7. \A k \in 0 .. n : more[k] = IF k = 0 THEN order ELSE visit[ids[k]][more[k - 1]]
  <2> TAKE k \in 0 .. n
  <2>1. CASE k = n
    BY <2>1, <1>3, <1>4, <1>6
  <2>2. CASE k # n
    <3>1. k \in 0 .. n - 1 /\ (k # 0 => k - 1 \in 0 .. n - 1)
        BY <2>2, <1>4
    <3>2. upto[k] = IF k = 0 THEN order ELSE visit[ids[k]][upto[k - 1]]
        BY <3>1, <1>5 DEF TurnsBy
    <3> QED
        BY <3>1, <3>2, <1>6
  <2> QED
    BY <2>1, <2>2
<1>8. TurnsBy(more, visit, order, ids, n)
    BY <1>7 DEF TurnsBy
<1> QED
    BY <1>8

LEMMA InTurnIs ==
    ASSUME NEW visit, NEW order, NEW ids, Len(ids) \in Nat
    PROVE  \E upto : /\ InTurn(visit, order, ids) = upto[Len(ids)]
                     /\ upto[0] = order
                     /\ \A n \in 1 .. Len(ids) : upto[n] = visit[ids[n]][upto[n - 1]]
<1>1. PICK upto : /\ TurnsBy(upto, visit, order, ids, Len(ids))
                  /\ InTurn(visit, order, ids) = upto[Len(ids)]
  <2>1. \E upto : TurnsBy(upto, visit, order, ids, Len(ids))
    BY TurnsExist
  <2> QED
    BY <2>1 DEF InTurn, TurnsBy
<1>2. \A n \in 0 .. Len(ids) :
        upto[n] = IF n = 0 THEN order ELSE visit[ids[n]][upto[n - 1]]
    BY <1>1 DEF TurnsBy
<1> QED
    BY <1>1, <1>2

(* Only what is visited matters.                                              *)
LEMMA InTurnSame ==
    ASSUME NEW visit, NEW other, NEW order, NEW ids, Len(ids) \in Nat,
           \A k \in 1 .. Len(ids) : visit[ids[k]] = other[ids[k]]
    PROVE  InTurn(visit, order, ids) = InTurn(other, order, ids)
<1>1. PICK u : /\ InTurn(visit, order, ids) = u[Len(ids)] /\ u[0] = order
               /\ \A n \in 1 .. Len(ids) : u[n] = visit[ids[n]][u[n - 1]]
    BY InTurnIs
<1>2. PICK w : /\ InTurn(other, order, ids) = w[Len(ids)] /\ w[0] = order
               /\ \A n \in 1 .. Len(ids) : w[n] = other[ids[n]][w[n - 1]]
    BY InTurnIs
<1> DEFINE Bad == {n \in 0 .. Len(ids) : u[n] # w[n]}
<1>3. SUFFICES ASSUME Bad # {} PROVE FALSE
    BY <1>1, <1>2
<1>4. PICK n \in Bad : \A k \in Bad : n <= k
  <2>1. Bad \in SUBSET Nat
    OBVIOUS
  <2> QED
    BY <2>1, <1>3, Least
<1>5. n # 0
    BY <1>1, <1>2
<1>6. n \in 1 .. Len(ids) /\ n - 1 \in 0 .. Len(ids) /\ n - 1 \notin Bad
    BY <1>4, <1>5
<1>7. u[n - 1] = w[n - 1]
    BY <1>6
<1>8. u[n] = w[n]
    BY <1>1, <1>2, <1>6, <1>7
<1> QED
    BY <1>8

(* Without a cycle all components can be reached from those that require       *)
(* nothing: what holds of no component, and of one more once it holds of what *)
(* that one requires, holds of all.                                           *)
LEMMA GrowsToAll ==
    ASSUME NEW needs \in [Components -> SUBSET Components], Acyclic(needs),
           NEW G \in SUBSET SUBSET Components, {} \in G,
           \A D \in G : \A c \in Components \ D : needs[c] \subseteq D => D \cup {c} \in G
    PROVE  Components \in G
<1> DEFINE Left(D) == Cardinality(Components \ D)
           Sizes == {Left(D) : D \in G}
<1>1. IsFiniteSet(Components)
    BY InstallAssumption, FS_Subset DEF Items
<1>2. \A D \in G : IsFiniteSet(Components \ D) /\ Left(D) \in Nat
    BY <1>1, FS_Difference, FS_CardinalityType
<1>3. Sizes \in SUBSET Nat /\ Sizes # {}
    BY <1>2
<1> HIDE DEF Left
<1>4. PICK n \in Sizes : \A m \in Sizes : n <= m
    BY <1>3, Least
<1>5. PICK D \in G : n = Left(D)
    BY <1>4
<1>6. SUFFICES ASSUME Components \ D # {} PROVE FALSE
  <2>1. Components \ D = {} => D = Components
    BY <1>5
  <2> QED
    BY <2>1
<1>7. PICK c \in Components \ D : needs[c] \cap (Components \ D) = {}
    BY <1>6 DEF Acyclic
<1>8. needs[c] \subseteq D
    BY <1>7
<1>9. D \cup {c} \in G
    BY <1>7, <1>8
<1>10. Left(D \cup {c}) = Left(D) - 1
  <2>1. Components \ (D \cup {c}) = (Components \ D) \ {c}
    OBVIOUS
  <2>2. IsFiniteSet(Components \ D) /\ c \in Components \ D
    BY <1>2, <1>7
  <2>3. Cardinality((Components \ D) \ {c}) = Cardinality(Components \ D) - 1
    BY <2>2, FS_RemoveElement
  <2> QED
    BY <2>1, <2>3 DEF Left
<1>11. Left(D) \in Nat /\ Left(D \cup {c}) \in Sizes
    BY <1>2, <1>9
<1>12. n <= Left(D \cup {c})
    BY <1>4, <1>11
<1> QED
    BY <1>5, <1>10, <1>11, <1>12

(* The visit of each of some components.                                      *)
Visits(visit, needs, wanted, D) ==
    visit = [c \in D |-> [order \in Seq(Components) |->
                IF Contains(order, c) THEN order
                ELSE Append(InTurn(visit, order, SetToSeq(needs[c] \cap wanted)), c)]]

LEMMA ListsOfNeeds ==
    ASSUME NEW needs \in [Components -> SUBSET Components], NEW wanted, NEW c \in Components
    PROVE  Lists(SetToSeq(needs[c] \cap wanted), needs[c] \cap wanted)
<1>1. IsFiniteSet(needs[c] \cap wanted)
  <2>1. IsFiniteSet(Items) /\ needs[c] \cap wanted \in SUBSET Items
    BY InstallAssumption DEF Items
  <2> QED
    BY <2>1, FS_Subset
<1> QED
    BY <1>1, SetToSeqLists

LEMMA VisitExists ==
    ASSUME NEW needs \in [Components -> SUBSET Components], Acyclic(needs), NEW wanted
    PROVE  \E visit : Visits(visit, needs, wanted, Components)
<1> DEFINE G == {D \in SUBSET Components :
                    /\ \A c \in D : needs[c] \subseteq D
                    /\ \E visit : Visits(visit, needs, wanted, D)}
           Visited(visit, c) == [order \in Seq(Components) |->
                IF Contains(order, c) THEN order
                ELSE Append(InTurn(visit, order, SetToSeq(needs[c] \cap wanted)), c)]
<1>1. {} \in G
  <2>1. Visits([c \in {} |-> 0], needs, wanted, {})
    BY DEF Visits
  <2> QED
    BY <2>1
<1>2. ASSUME NEW D \in G, NEW c \in Components \ D, needs[c] \subseteq D
      PROVE  D \cup {c} \in G
  <2>1. PICK visit : Visits(visit, needs, wanted, D)
    OBVIOUS
  <2>2. \A d \in D : visit[d] = Visited(visit, d)
    BY <2>1 DEF Visits
  <2> DEFINE more == [d \in D \cup {c} |-> IF d = c THEN Visited(visit, c) ELSE visit[d]]
  <2>3. \A d \in D : more[d] = visit[d]
    OBVIOUS
  <2> HIDE DEF more
  <2>4. ASSUME NEW d \in D \cup {c}, NEW order
        PROVE  InTurn(more, order, SetToSeq(needs[d] \cap wanted))
                 = InTurn(visit, order, SetToSeq(needs[d] \cap wanted))
    <3> DEFINE ids == SetToSeq(needs[d] \cap wanted)
    <3>1. d \in Components /\ needs[d] \subseteq D
        BY <1>2
    <3>2. ids \in Seq(needs[d] \cap wanted)
        BY <3>1, ListsOfNeeds DEF Lists
    <3> HIDE DEF ids
    <3>3. Len(ids) \in Nat /\ \A k \in 1 .. Len(ids) : ids[k] \in D
        BY <3>1, <3>2
    <3>4. \A k \in 1 .. Len(ids) : more[ids[k]] = visit[ids[k]]
        BY <2>3, <3>3
    <3>5. InTurn(more, order, ids) = InTurn(visit, order, ids)
        BY <3>3, <3>4, InTurnSame
    <3> QED
        BY <3>5 DEF ids
  <2>5. \A d \in D \cup {c} : Visited(more, d) = Visited(visit, d)
    BY <2>4
  <2>6. \A d \in D \cup {c} : more[d] = Visited(visit, d)
    BY <2>2, <1>2 DEF more
  <2> HIDE DEF Visited
  <2>7. more = [d \in D \cup {c} |-> Visited(more, d)]
    BY <2>5, <2>6 DEF more
  <2>8. Visits(more, needs, wanted, D \cup {c})
    BY <2>7 DEF Visits, Visited
  <2>9. \A d \in D \cup {c} : needs[d] \subseteq D \cup {c}
    BY <1>2
  <2> QED
    BY <1>2, <2>8, <2>9
<1>3. G \in SUBSET SUBSET Components
    OBVIOUS
<1> HIDE DEF G
<1>4. Components \in G
    BY <1>1, <1>2, <1>3, GrowsToAll
<1> QED
    BY <1>4 DEF G

(* An order so far: each component once, and after what it requires.          *)
OrderSoFar(order, needs, wanted) ==
    /\ order \in Seq(wanted)
    /\ \A j, k \in 1 .. Len(order) : order[j] = order[k] => j = k
    /\ \A k \in 1 .. Len(order) : \A r \in needs[order[k]] \cap wanted :
          \E j \in 1 .. k - 1 : order[j] = r

(* What a visit makes of it: an order that has more, and no more than D.      *)
GoesOnIn(D, before, after, needs, wanted) ==
    /\ OrderSoFar(after, needs, wanted)
    /\ \A c : Contains(before, c) => Contains(after, c)
    /\ \A c : Contains(after, c) => Contains(before, c) \/ c \in D

VisitsWell(visit, needs, wanted, D) ==
    \A c \in D \cap wanted : \A order : OrderSoFar(order, needs, wanted) =>
        /\ GoesOnIn(D, order, visit[c][order], needs, wanted)
        /\ Contains(visit[c][order], c)

LEMMA TurnsWell ==
    ASSUME NEW visit, NEW needs, NEW wanted, NEW D, VisitsWell(visit, needs, wanted, D),
           NEW ids \in Seq(D \cap wanted), NEW order, OrderSoFar(order, needs, wanted)
    PROVE  /\ GoesOnIn(D, order, InTurn(visit, order, ids), needs, wanted)
           /\ \A k \in 1 .. Len(ids) : Contains(InTurn(visit, order, ids), ids[k])
<1>1. Len(ids) \in Nat /\ \A k \in 1 .. Len(ids) : ids[k] \in D \cap wanted
    OBVIOUS
<1>2. PICK u : /\ InTurn(visit, order, ids) = u[Len(ids)] /\ u[0] = order
               /\ \A n \in 1 .. Len(ids) : u[n] = visit[ids[n]][u[n - 1]]
    BY <1>1, InTurnIs
<1> DEFINE Well(n) == /\ GoesOnIn(D, order, u[n], needs, wanted)
                      /\ \A k \in 1 .. n : Contains(u[n], ids[k])
           Bad == {n \in 0 .. Len(ids) : ~Well(n)}
<1>3. SUFFICES ASSUME Bad # {} PROVE FALSE
    BY <1>1, <1>2
<1>4. PICK n \in Bad : \A k \in Bad : n <= k
  <2>1. Bad \in SUBSET Nat
    OBVIOUS
  <2> QED
    BY <2>1, <1>3, Least
<1>5. n # 0
  <2>1. Well(0)
    BY <1>2 DEF GoesOnIn
  <2> QED
    BY <2>1, <1>4
<1>6. n \in 1 .. Len(ids) /\ n - 1 \in 0 .. Len(ids) /\ n - 1 \notin Bad
    BY <1>4, <1>5
<1>7. Well(n - 1)
    BY <1>6
<1>8. /\ GoesOnIn(D, u[n - 1], u[n], needs, wanted)
      /\ Contains(u[n], ids[n])
  <2>1. OrderSoFar(u[n - 1], needs, wanted) /\ ids[n] \in D \cap wanted
    BY <1>1, <1>6, <1>7 DEF GoesOnIn
  <2>2. u[n] = visit[ids[n]][u[n - 1]]
    BY <1>2, <1>6
  <2> QED
    BY <2>1, <2>2 DEF VisitsWell
<1>9. Well(n)
  <2>1. GoesOnIn(D, order, u[n], needs, wanted)
    BY <1>7, <1>8 DEF GoesOnIn
  <2>2. ASSUME NEW k \in 1 .. n PROVE Contains(u[n], ids[k])
    <3>1. CASE k = n
        BY <3>1, <1>8
    <3>2. CASE k # n
      <4>1. k \in 1 .. n - 1
        BY <3>2, <1>6
      <4>2. Contains(u[n - 1], ids[k])
        BY <4>1, <1>7
      <4> QED
        BY <4>2, <1>8 DEF GoesOnIn
    <3> QED
        BY <3>1, <3>2
  <2> QED
    BY <2>1, <2>2
<1> QED
    BY <1>4, <1>9

(* A component whose requirements were visited well is visited well.          *)
LEMMA VisitsOneMore ==
    ASSUME NEW needs \in [Components -> SUBSET Components],
           NEW wanted \in SUBSET Components, NEW visit,
           Visits(visit, needs, wanted, Components),
           NEW D \in SUBSET Components, VisitsWell(visit, needs, wanted, D),
           NEW c \in Components \ D, needs[c] \subseteq D
    PROVE  VisitsWell(visit, needs, wanted, D \cup {c})
<1>1. ASSUME NEW d \in D \cap wanted, NEW order, OrderSoFar(order, needs, wanted)
      PROVE  /\ GoesOnIn(D \cup {c}, order, visit[d][order], needs, wanted)
             /\ Contains(visit[d][order], d)
    BY <1>1 DEF VisitsWell, GoesOnIn
<1>2. ASSUME c \in wanted, NEW order, OrderSoFar(order, needs, wanted)
      PROVE  /\ GoesOnIn(D \cup {c}, order, visit[c][order], needs, wanted)
             /\ Contains(visit[c][order], c)
  <2> DEFINE ids == SetToSeq(needs[c] \cap wanted)
             before == InTurn(visit, order, ids)
  <2>1. order \in Seq(Components)
    BY <1>2 DEF OrderSoFar
  <2>2. visit[c][order] = IF Contains(order, c) THEN order ELSE Append(before, c)
    <3> DEFINE Visited(d) == [earlier \in Seq(Components) |->
                IF Contains(earlier, d) THEN earlier
                ELSE Append(InTurn(visit, earlier, SetToSeq(needs[d] \cap wanted)), d)]
    <3> HIDE DEF Visited
    <3>1. visit = [d \in Components |-> Visited(d)]
        BY DEF Visits, Visited
    <3>2. visit[c] = Visited(c)
        BY <3>1
    <3> QED
        BY <2>1, <3>2 DEF Visited
  <2>3. Lists(ids, needs[c] \cap wanted)
    BY ListsOfNeeds
  <2>4. ids \in Seq(D \cap wanted) /\ Len(ids) \in Nat
    BY <2>3 DEF Lists
  <2> HIDE DEF ids
  <2>5. /\ GoesOnIn(D, order, before, needs, wanted)
        /\ \A k \in 1 .. Len(ids) : Contains(before, ids[k])
    BY <2>4, <1>2, TurnsWell
  <2>6. \A r \in needs[c] \cap wanted : Contains(before, r)
    BY <2>3, <2>5 DEF Lists
  <2> HIDE DEF before
  <2>7. CASE Contains(order, c)
    BY <2>2, <2>7, <1>2 DEF GoesOnIn
  <2>8. CASE ~Contains(order, c)
    <3> DEFINE after == Append(before, c)
               n == Len(before)
    <3>1. ~Contains(before, c)
        BY <2>5, <2>8 DEF GoesOnIn
    <3>2. before \in Seq(wanted) /\ OrderSoFar(before, needs, wanted)
        BY <2>5 DEF GoesOnIn, OrderSoFar
    <3>3. /\ after \in Seq(wanted) /\ n \in Nat /\ Len(after) = n + 1
          /\ \A i \in 1 .. n : after[i] = before[i]
          /\ after[n + 1] = c
        BY <3>2, <1>2
    <3> HIDE DEF after, n
    <3>4. \A i \in 1 .. n : before[i] # c
        BY <3>1 DEF Contains, n
    <3>5. \A j, k \in 1 .. n : before[j] = before[k] => j = k
        BY <3>2 DEF OrderSoFar, n
    <3>6. \A j, k \in 1 .. Len(after) : after[j] = after[k] => j = k
        BY <3>3, <3>4, <3>5
    <3>7. ASSUME NEW k \in 1 .. Len(after), NEW r \in needs[after[k]] \cap wanted
          PROVE  \E j \in 1 .. k - 1 : after[j] = r
      <4>1. CASE k = n + 1
        <5>1. Contains(before, r)
            BY <4>1, <3>3, <2>6
        <5>2. PICK j \in 1 .. n : before[j] = r
            BY <5>1 DEF Contains, n
        <5> QED
            BY <5>2, <4>1, <3>3
      <4>2. CASE k # n + 1
        <5>1. k \in 1 .. n
            BY <4>2, <3>3
        <5>2. PICK j \in 1 .. k - 1 : before[j] = r
            BY <5>1, <3>2, <3>3 DEF OrderSoFar, n
        <5>3. j \in 1 .. n
            BY <5>1, <3>3
        <5> QED
            BY <5>2, <5>3, <3>3
      <4> QED
        BY <4>1, <4>2
    <3>8. OrderSoFar(after, needs, wanted)
        BY <3>3, <3>6, <3>7 DEF OrderSoFar
    <3>9. \A d : Contains(after, d) <=> Contains(before, d) \/ d = c
        BY <3>3 DEF Contains, n
    <3>10. visit[c][order] = after
        BY <2>2, <2>8 DEF after
    <3> QED
        BY <3>8, <3>9, <3>10, <2>5 DEF GoesOnIn
  <2> QED
    BY <2>7, <2>8
<1> QED
    BY <1>1, <1>2 DEF VisitsWell

(* What is wanted is ordered, each once and after what it requires.           *)
LEMMA OrderedIs ==
    ASSUME NEW needs \in [Components -> SUBSET Components], Acyclic(needs),
           NEW wanted \in SUBSET Components
    PROVE  /\ OrderSoFar(Ordered(needs, wanted), needs, wanted)
           /\ \A c \in wanted : Contains(Ordered(needs, wanted), c)
<1>1. PICK visit : /\ Visits(visit, needs, wanted, Components)
                   /\ Ordered(needs, wanted) = InTurn(visit, <<>>, Sorted(wanted))
  <2>1. \E visit : Visits(visit, needs, wanted, Components)
    BY VisitExists
  <2> QED
    BY <2>1 DEF Ordered, Visits
<1> DEFINE G == {D \in SUBSET Components : VisitsWell(visit, needs, wanted, D)}
<1>2. {} \in G
    BY DEF VisitsWell
<1>3. \A D \in G : \A c \in Components \ D : needs[c] \subseteq D => D \cup {c} \in G
    BY <1>1, VisitsOneMore
<1>4. Components \in G
  <2>1. G \in SUBSET SUBSET Components
    OBVIOUS
  <2> HIDE DEF G
  <2> QED
    BY <1>2, <1>3, <2>1, GrowsToAll
<1>5. VisitsWell(visit, needs, wanted, Components)
    BY <1>4
<1>6. Lists(Sorted(wanted), wanted)
  <2>1. wanted \in SUBSET Nat /\ IsFiniteSet(wanted)
    BY InstallAssumption, FS_Subset DEF Items
  <2> QED
    BY <2>1, SortedLists
<1>7. Sorted(wanted) \in Seq(Components \cap wanted)
  <2>1. Components \cap wanted = wanted
    OBVIOUS
  <2> QED
    BY <2>1, <1>6 DEF Lists
<1>8. OrderSoFar(<<>>, needs, wanted)
    BY DEF OrderSoFar
<1>9. /\ GoesOnIn(Components, <<>>, Ordered(needs, wanted), needs, wanted)
      /\ \A k \in 1 .. Len(Sorted(wanted)) : Contains(Ordered(needs, wanted), Sorted(wanted)[k])
    BY <1>1, <1>5, <1>7, <1>8, TurnsWell
<1> QED
    BY <1>6, <1>9 DEF Lists, GoesOnIn

(* Requirements come first (dependency_order, requirements_come_first).       *)
LEMMA OrderIsSound ==
    ASSUME requires \in [Components -> SUBSET Components], Acyclic(requires)
    PROVE  OrdersAreSound
<1> SUFFICES ASSUME NEW S \in Selections PROVE IsOrder(DependencyOrder(S), S)
    BY DEF OrdersAreSound
<1> DEFINE order == DependencyOrder(S)
<1>1. S \in SUBSET Components /\ \A c \in S : requires[c] \subseteq S
    BY DEF Selections
<1>2. OrderSoFar(order, requires, S) /\ \A c \in S : Contains(order, c)
    BY <1>1, OrderedIs DEF DependencyOrder
<1> HIDE DEF order
<1>3. order \in Seq(S) /\ Len(order) \in Nat /\ DOMAIN order = 1 .. Len(order)
    BY <1>2 DEF OrderSoFar
<1>4. \A j, k \in 1 .. Len(order) : order[j] = order[k] => j = k
    BY <1>2 DEF OrderSoFar
<1>5. ASSUME NEW j \in 1 .. Len(order), NEW k \in 1 .. Len(order), order[j] \in requires[order[k]]
      PROVE  j < k
  <2>1. order[j] \in requires[order[k]] \cap S
    BY <1>3, <1>5
  <2>2. PICK i \in 1 .. k - 1 : order[i] = order[j]
    BY <1>2, <2>1 DEF OrderSoFar
  <2>3. i \in 1 .. Len(order) /\ i < k
    BY <1>3
  <2> QED
    BY <2>2, <2>3, <1>4
<1>6. \A c \in S : \E k \in 1 .. Len(order) : order[k] = c
    BY <1>2 DEF Contains
<1> QED
    BY <1>3, <1>4, <1>5, <1>6 DEF IsOrder, order

-----------------------------------------------------------------------------
(* The records that are kept.                                                 *)

KeptBy(kept, s, gone, m) ==
    kept = [n \in 0 .. m |->
               IF n = 0 THEN <<>>
               ELSE IF s[n] \in gone THEN kept[n - 1]
               ELSE Append(kept[n - 1], s[n])]

LEMMA KeptExists ==
    ASSUME NEW s \in Seq(Records), NEW gone, NEW m \in Nat
    PROVE  \E kept : KeptBy(kept, s, gone, m)
<1> DEFINE Bad == {n \in Nat : ~\E kept : KeptBy(kept, s, gone, n)}
<1>1. SUFFICES Bad = {}
    OBVIOUS
<1>2. SUFFICES ASSUME Bad # {} PROVE FALSE
    OBVIOUS
<1>3. PICK n \in Bad : \A k \in Bad : n <= k
    BY <1>2, Least
<1>4. n # 0
  <2> DEFINE none == [k \in 0 .. 0 |-> <<>>]
  <2>1. none = [k \in 0 .. 0 |->
               IF k = 0 THEN <<>>
               ELSE IF s[k] \in gone THEN none[k - 1]
               ELSE Append(none[k - 1], s[k])]
    OBVIOUS
  <2>2. KeptBy(none, s, gone, 0)
    BY <2>1 DEF KeptBy
  <2> QED
    BY <2>2
<1>5. n - 1 \in Nat /\ n - 1 \notin Bad
    BY <1>3, <1>4
<1>6. PICK kept : KeptBy(kept, s, gone, n - 1)
    BY <1>5
<1> DEFINE last == IF s[n] \in gone THEN kept[n - 1] ELSE Append(kept[n - 1], s[n])
           more == [k \in 0 .. n |-> IF k = n THEN last ELSE kept[k]]
<1>7. \A k \in 0 .. n - 1 : more[k] = kept[k]
    BY <1>5
<1>8. \A k \in 0 .. n :
        more[k] = IF k = 0 THEN <<>>
                  ELSE IF s[k] \in gone THEN more[k - 1]
                  ELSE Append(more[k - 1], s[k])
  <2> TAKE k \in 0 .. n
  <2>1. CASE k = n
    BY <2>1, <1>4, <1>5, <1>7
  <2>2. CASE k # n
    <3>1. k \in 0 .. n - 1 /\ (k # 0 => k - 1 \in 0 .. n - 1)
        BY <2>2, <1>5
    <3>2. kept[k] = IF k = 0 THEN <<>>
                    ELSE IF s[k] \in gone THEN kept[k - 1]
                    ELSE Append(kept[k - 1], s[k])
        BY <3>1, <1>6 DEF KeptBy
    <3> QED
        BY <3>1, <3>2, <1>7
  <2> QED
    BY <2>1, <2>2
<1>9. KeptBy(more, s, gone, n)
    BY <1>8 DEF KeptBy
<1> QED
    BY <1>9

LEMMA WithoutKept ==
    ASSUME NEW s \in Seq(Records), NEW gone
    PROVE  \E kept : KeptBy(kept, s, gone, Len(s)) /\ Without(s, gone) = kept[Len(s)]
<1>1. Len(s) \in Nat
    OBVIOUS
<1>2. \E kept : KeptBy(kept, s, gone, Len(s))
    BY <1>1, KeptExists
<1> QED
    BY <1>2 DEF Without, KeptBy

(* What is left of a record has just what is not gone, in as many places.     *)
OneEach(s) == \A j, k \in DOMAIN s : s[j].id = s[k].id => j = k

LEMMA WithoutIs ==
    ASSUME NEW s \in Seq(Records), NEW gone
    PROVE  /\ Without(s, gone) \in Seq(Records)
           /\ \A r : (\E k \in DOMAIN Without(s, gone) : Without(s, gone)[k] = r)
                        <=> r \notin gone /\ \E k \in DOMAIN s : s[k] = r
           /\ OneEach(s) => OneEach(Without(s, gone))
<1>1. PICK kept : KeptBy(kept, s, gone, Len(s)) /\ Without(s, gone) = kept[Len(s)]
    BY WithoutKept
<1> DEFINE P(n) == /\ kept[n] \in Seq(Records)
                   /\ \A r : (\E k \in 1 .. Len(kept[n]) : kept[n][k] = r)
                                <=> r \notin gone /\ \E k \in 1 .. n : s[k] = r
                   /\ OneEach(s) => OneEach(kept[n])
           Bad == {n \in 0 .. Len(s) : ~P(n)}
<1> HIDE DEF P
<1>2. SUFFICES Bad = {}
  <2>1. Len(s) \in 0 .. Len(s) /\ DOMAIN s = 1 .. Len(s)
    OBVIOUS
  <2>2. P(Len(s))
    BY <2>1, <1>2
  <2>3. DOMAIN kept[Len(s)] = 1 .. Len(kept[Len(s)])
    BY <2>2 DEF P
  <2> DEFINE left == kept[Len(s)]
  <2>4. /\ left \in Seq(Records) /\ DOMAIN left = 1 .. Len(left)
        /\ \A r : (\E k \in 1 .. Len(left) : left[k] = r)
                    <=> r \notin gone /\ \E k \in 1 .. Len(s) : s[k] = r
        /\ OneEach(s) => OneEach(left)
    BY <2>2, <2>3 DEF P
  <2>5. Without(s, gone) = left
    BY <1>1
  <2> HIDE DEF left
  <2> QED
    BY <2>1, <2>4, <2>5
<1>3. SUFFICES ASSUME Bad # {} PROVE FALSE
    OBVIOUS
<1>4. PICK n \in Bad : \A k \in Bad : n <= k
  <2>1. Bad \in SUBSET Nat
    OBVIOUS
  <2> QED
    BY <2>1, <1>3, Least
<1>5. \A k \in 0 .. Len(s) :
        kept[k] = IF k = 0 THEN <<>>
                  ELSE IF s[k] \in gone THEN kept[k - 1]
                  ELSE Append(kept[k - 1], s[k])
    BY <1>1 DEF KeptBy
<1>6. n # 0
  <2>1. kept[0] = <<>>
    BY <1>5
  <2>2. P(0)
    BY <2>1 DEF OneEach, P
  <2> QED
    BY <2>2
<1>7. n \in 1 .. Len(s) /\ n - 1 \in 0 .. Len(s)
    BY <1>6
<1>8. P(n - 1)
    BY <1>4, <1>7
<1> DEFINE before == kept[n - 1]
<1>9. before \in Seq(Records) /\ s[n] \in Records
    BY <1>8, <1>7 DEF P
<1>10. CASE s[n] \in gone
  <2>1. kept[n] = before
    BY <1>10, <1>5, <1>7
  <2>2. \A r : r \notin gone => ((\E k \in 1 .. n : s[k] = r) <=> \E k \in 1 .. n - 1 : s[k] = r)
    BY <1>10, <1>7
  <2>3. P(n)
    BY <2>1, <2>2, <1>8 DEF P
  <2> QED
    BY <2>3
<1>11. CASE s[n] \notin gone
  <2> DEFINE after == Append(before, s[n])
  <2>1. kept[n] = after
    <3>1. n \in 0 .. Len(s)
        BY <1>7
    <3> QED
        BY <3>1, <1>11, <1>5, <1>6
  <2>2. /\ after \in Seq(Records) /\ Len(before) \in Nat
        /\ Len(after) = Len(before) + 1
        /\ DOMAIN before = 1 .. Len(before)
        /\ DOMAIN after = 1 .. Len(before) + 1
        /\ \A k \in 1 .. Len(before) : after[k] = before[k]
        /\ after[Len(before) + 1] = s[n]
    BY <1>9, Joined
  <2> HIDE DEF after
  <2>3. \A r : (\E k \in 1 .. Len(after) : after[k] = r)
                  <=> (\E k \in 1 .. Len(before) : before[k] = r) \/ s[n] = r
    <3> HIDE DEF before
    <3> QED
        BY <2>2
  <2>4. \A r : (\E k \in 1 .. n : s[k] = r) <=> (\E k \in 1 .. n - 1 : s[k] = r) \/ s[n] = r
    BY <1>7
  <2>5. \A r : (\E k \in 1 .. Len(after) : after[k] = r)
                  <=> r \notin gone /\ \E k \in 1 .. n : s[k] = r
    BY <2>3, <2>4, <1>8, <1>11 DEF P
  <2>6. OneEach(s) => OneEach(after)
    <3> SUFFICES ASSUME OneEach(s), NEW j \in 1 .. Len(before) + 1,
                        NEW k \in 1 .. Len(before) + 1, after[j].id = after[k].id
                 PROVE  j = k
      <4> HIDE DEF before
      <4> QED
        BY <2>2 DEF OneEach
    <3>1. \A i \in 1 .. Len(before) : before[i].id # s[n].id
      <4> SUFFICES ASSUME NEW i \in 1 .. Len(before), before[i].id = s[n].id PROVE FALSE
        OBVIOUS
      <4>1. PICK l \in 1 .. n - 1 : s[l] = before[i]
        BY <1>8 DEF P
      <4>2. l \in DOMAIN s /\ n \in DOMAIN s /\ l # n
        BY <1>7
      <4> QED
        BY <4>1, <4>2 DEF OneEach
    <3>2. \A i, l \in 1 .. Len(before) : before[i].id = before[l].id => i = l
        BY <1>8, <2>2 DEF OneEach, P
    <3> HIDE DEF before
    <3> QED
        BY <3>1, <3>2, <2>2
  <2>7. P(n)
    BY <2>1, <2>2, <2>5, <2>6 DEF P
  <2> QED
    BY <2>7
<1> QED
    BY <1>10, <1>11

(* An item's record in s. *)
In(s, r) == \E k \in DOMAIN s : s[k] = r
VersionIn(s, i) ==
    s[CHOOSE k \in DOMAIN s : s[k].id = i /\ \A j \in 1 .. k - 1 : s[j].id # i].version

LEMMA InIs ==
    ASSUME NEW s \in Seq(Records), OneEach(s)
    PROVE  /\ \A k \in DOMAIN s : s[k] \in Records /\ s[k] = Record(s[k].id, s[k].version)
           /\ \A i : (\E k \in DOMAIN s : s[k].id = i)
                    => /\ i \in Items /\ VersionIn(s, i) \in Versions
                       /\ In(s, Record(i, VersionIn(s, i)))
           /\ \A i, v : In(s, Record(i, v))
                    => /\ \E k \in DOMAIN s : s[k].id = i
                       /\ VersionIn(s, i) = v
<1>1. DOMAIN s = 1 .. Len(s) /\ Len(s) \in Nat
    OBVIOUS
<1>2. \A k \in DOMAIN s : s[k] \in Records /\ s[k] = Record(s[k].id, s[k].version)
  <2>1. \A k \in DOMAIN s : s[k] \in Records
    BY <1>1
  <2>2. \A r \in Records : r = Record(r.id, r.version)
    BY DEF Records, Record
  <2> QED
    BY <2>1, <2>2
<1>3. ASSUME NEW k \in DOMAIN s
      PROVE  VersionIn(s, s[k].id) = s[k].version
  <2> DEFINE IsIt(l) == s[l].id = s[k].id /\ \A j \in 1 .. l - 1 : s[j].id # s[k].id
  <2>1. \A l \in DOMAIN s : IsIt(l) => l = k
    BY DEF OneEach
  <2>2. IsIt(k)
    BY <1>1 DEF OneEach
  <2>3. (CHOOSE l \in DOMAIN s : IsIt(l)) = k
    BY <2>1, <2>2
  <2> QED
    BY <2>3 DEF VersionIn
<1>4. \A k \in DOMAIN s : s[k].id \in Items /\ s[k].version \in Versions
    BY <1>2 DEF Records
<1>5. \A i, v : Record(i, v).id = i /\ Record(i, v).version = v
    BY DEF Record
<1>6. ASSUME NEW i, NEW k \in DOMAIN s, s[k].id = i
      PROVE  /\ i \in Items /\ VersionIn(s, i) \in Versions
             /\ In(s, Record(i, VersionIn(s, i)))
  <2>1. VersionIn(s, i) = s[k].version /\ s[k] = Record(i, s[k].version)
    BY <1>3, <1>2, <1>6
  <2> QED
    BY <2>1, <1>4, <1>6 DEF In
<1>7. ASSUME NEW i, NEW v, In(s, Record(i, v))
      PROVE  (\E k \in DOMAIN s : s[k].id = i) /\ VersionIn(s, i) = v
  <2>1. PICK k \in DOMAIN s : s[k] = Record(i, v)
    BY <1>7 DEF In
  <2> QED
    BY <2>1, <1>3, <1>5
<1> QED
    BY <1>2, <1>6, <1>7

(* A change forgets all there is of its item, and may put one record of it.   *)
LEMMA ForgetIs ==
    ASSUME NEW s \in Seq(Records), OneEach(s), NEW i, NEW from, NEW to,
           \A k \in DOMAIN s : s[k].id = i => s[k] = Record(i, from)
    PROVE  LET others == Without(s, {Record(i, from), Record(i, to)})
           IN  /\ others \in Seq(Records) /\ OneEach(others)
               /\ \A k \in DOMAIN others : others[k].id # i
               /\ \A j, v : j # i => (In(others, Record(j, v)) <=> In(s, Record(j, v)))
<1> DEFINE gone == {Record(i, from), Record(i, to)}
           others == Without(s, gone)
<1>1. /\ others \in Seq(Records) /\ OneEach(others)
      /\ \A r : In(others, r) <=> r \notin gone /\ In(s, r)
  <2> HIDE DEF gone
  <2> QED
    BY WithoutIs DEF In
<1>2. ASSUME NEW k \in DOMAIN others, others[k].id = i PROVE FALSE
  <2>1. others[k] \notin gone /\ In(s, others[k])
    BY <1>1 DEF In
  <2>2. PICK l \in DOMAIN s : s[l] = others[k]
    BY <2>1 DEF In
  <2>3. s[l] = Record(i, from)
    BY <2>2, <1>2
  <2> QED
    BY <2>1, <2>2, <2>3
<1>3. \A j, v : j # i => Record(j, v) \notin gone
    BY DEF Record
<1> QED
    BY <1>1, <1>2, <1>3

LEMMA PutIs ==
    ASSUME NEW s \in Seq(Records), OneEach(s), NEW i \in Items, NEW v \in Versions,
           \A k \in DOMAIN s : s[k].id # i
    PROVE  LET more == Append(s, Record(i, v))
           IN  /\ more \in Seq(Records) /\ OneEach(more)
               /\ In(more, Record(i, v))
               /\ \A j, w : j # i => (In(more, Record(j, w)) <=> In(s, Record(j, w)))
<1> DEFINE more == Append(s, Record(i, v))
<1>1. Record(i, v) \in Records /\ Record(i, v).id = i
    BY DEF Record, Records
<1>2. /\ more \in Seq(Records) /\ Len(s) \in Nat
      /\ DOMAIN s = 1 .. Len(s)
      /\ DOMAIN more = 1 .. Len(s) + 1
      /\ \A k \in 1 .. Len(s) : more[k] = s[k]
      /\ more[Len(s) + 1] = Record(i, v)
    BY <1>1, Joined
<1> HIDE DEF more
<1>3. OneEach(more)
    BY <1>1, <1>2 DEF OneEach
<1>4. \A r : In(more, r) <=> In(s, r) \/ r = Record(i, v)
    BY <1>2 DEF In
<1>5. \A j, w : j # i => Record(j, w) # Record(i, v)
    BY DEF Record
<1> QED
    BY <1>2, <1>3, <1>4, <1>5 DEF more

-----------------------------------------------------------------------------
(* The changes of a plan, gathered one item after the other.                  *)

GatheredBy(upto, d, m) ==
    upto = [n \in 0 .. m |-> IF n = 0 THEN <<>> ELSE upto[n - 1] \o d[n]]

LEMMA GatheredExists ==
    ASSUME NEW d, NEW m \in Nat
    PROVE  \E upto : GatheredBy(upto, d, m)
<1> DEFINE Bad == {n \in Nat : ~\E upto : GatheredBy(upto, d, n)}
<1>1. SUFFICES ASSUME Bad # {} PROVE FALSE
    OBVIOUS
<1>2. PICK n \in Bad : \A k \in Bad : n <= k
    BY <1>1, Least
<1>3. n # 0
  <2> DEFINE none == [k \in 0 .. 0 |-> <<>>]
  <2>1. none = [k \in 0 .. 0 |-> IF k = 0 THEN <<>> ELSE none[k - 1] \o d[k]]
    OBVIOUS
  <2>2. GatheredBy(none, d, 0)
    BY <2>1 DEF GatheredBy
  <2> QED
    BY <2>2
<1>4. n - 1 \in Nat /\ n - 1 \notin Bad
    BY <1>2, <1>3
<1>5. PICK upto : GatheredBy(upto, d, n - 1)
    BY <1>4
<1> DEFINE more == [k \in 0 .. n |-> IF k = n THEN upto[n - 1] \o d[n] ELSE upto[k]]
<1>6. \A k \in 0 .. n - 1 : more[k] = upto[k]
    BY <1>4
<1>7. \A k \in 0 .. n : more[k] = IF k = 0 THEN <<>> ELSE more[k - 1] \o d[k]
  <2> TAKE k \in 0 .. n
  <2>1. CASE k = n
    BY <2>1, <1>3, <1>4, <1>6
  <2>2. CASE k # n
    <3>1. k \in 0 .. n - 1 /\ (k # 0 => k - 1 \in 0 .. n - 1)
        BY <2>2, <1>4
    <3>2. upto[k] = IF k = 0 THEN <<>> ELSE upto[k - 1] \o d[k]
        BY <3>1, <1>5 DEF GatheredBy
    <3> QED
        BY <3>1, <3>2, <1>6
  <2> QED
    BY <2>1, <2>2
<1>8. GatheredBy(more, d, n)
    BY <1>7 DEF GatheredBy
<1> QED
    BY <1>8

(* Where the changes of u come from: each is one of those in d, in the order   *)
(* they have there, and none is left out.                                     *)
ComeFrom(at, u, d, m) ==
    /\ at \in [1 .. Len(u) -> 1 .. m]
    /\ \A k \in 1 .. Len(u) : d[at[k]] = <<u[k]>>
    /\ \A k, l \in 1 .. Len(u) : k < l => at[k] < at[l]
    /\ \A j \in 1 .. m : d[j] # <<>> => \E k \in 1 .. Len(u) : at[k] = j

LEMMA GatheredIs ==
    ASSUME NEW m \in Nat, NEW d, NEW upto, GatheredBy(upto, d, m),
           \A n \in 1 .. m : d[n] = <<>> \/ \E c \in Changes : d[n] = <<c>>
    PROVE  upto[m] \in Seq(Changes) /\ \E at : ComeFrom(at, upto[m], d, m)
<1> DEFINE P(n) == upto[n] \in Seq(Changes) /\ \E at : ComeFrom(at, upto[n], d, n)
           Bad == {n \in 0 .. m : ~P(n)}
<1> HIDE DEF P
<1>1. SUFFICES Bad = {}
    BY DEF P
<1>2. SUFFICES ASSUME Bad # {} PROVE FALSE
    OBVIOUS
<1>3. PICK n \in Bad : \A k \in Bad : n <= k
  <2>1. Bad \in SUBSET Nat
    OBVIOUS
  <2> QED
    BY <2>1, <1>2, Least
<1>4. \A k \in 0 .. m : upto[k] = IF k = 0 THEN <<>> ELSE upto[k - 1] \o d[k]
    BY DEF GatheredBy
<1>5. n # 0
  <2>1. upto[0] = <<>>
    BY <1>4
  <2>2. ComeFrom([k \in 1 .. Len(upto[0]) |-> 0], upto[0], d, 0)
    BY <2>1 DEF ComeFrom
  <2>3. P(0)
    BY <2>1, <2>2 DEF P
  <2> QED
    BY <2>3
<1>6. n \in 1 .. m /\ n - 1 \in 0 .. m
    BY <1>5
<1>7. P(n - 1)
    BY <1>3, <1>6
<1> DEFINE before == upto[n - 1]
<1>8. before \in Seq(Changes)
    BY <1>7 DEF P
<1>9. PICK at : ComeFrom(at, before, d, n - 1)
    BY <1>7 DEF P
<1>10. upto[n] = before \o d[n]
    BY <1>4, <1>5, <1>6
<1> HIDE DEF before
<1>11. CASE d[n] = <<>>
  <2>1. upto[n] = before
    BY <1>10, <1>11, <1>8, ConcatEmptySeq
  <2>2. ComeFrom(at, before, d, n)
    BY <1>9, <1>11, <1>6 DEF ComeFrom
  <2>3. P(n)
    BY <2>1, <2>2, <1>8 DEF P
  <2> QED
    BY <2>3
<1>12. ASSUME NEW c \in Changes, d[n] = <<c>> PROVE FALSE
  <2> DEFINE after == Append(before, c)
             last == Len(before) + 1
             then == [k \in 1 .. last |-> IF k = last THEN n ELSE at[k]]
  <2>1. upto[n] = after
    BY <1>10, <1>12, <1>8, AppendIsConcat
  <2>2. /\ after \in Seq(Changes) /\ Len(before) \in Nat
        /\ Len(after) = last
        /\ \A k \in 1 .. Len(before) : after[k] = before[k]
        /\ after[last] = c
    BY <1>8, Joined
  <2> HIDE DEF after
  <2>3. \A k \in 1 .. last : then[k] = IF k = last THEN n ELSE at[k]
    OBVIOUS
  <2>4. at \in [1 .. Len(before) -> 1 .. n - 1]
    BY <1>9 DEF ComeFrom
  <2>5. then \in [1 .. last -> 1 .. n]
    BY <2>2, <2>4, <1>6
  <2> HIDE DEF then
  <2>6. \A k \in 1 .. last : d[then[k]] = <<after[k]>>
    BY <2>2, <2>3, <1>9, <1>12 DEF ComeFrom
  <2>7. \A k, l \in 1 .. last : k < l => then[k] < then[l]
    <3>1. \A k, l \in 1 .. Len(before) : k < l => at[k] < at[l]
        BY <1>9 DEF ComeFrom
    <3>2. \A k \in 1 .. Len(before) : at[k] \in Nat /\ at[k] < n
        BY <2>4, <1>6
    <3>3. SUFFICES ASSUME NEW k \in 1 .. last, NEW l \in 1 .. last, k < l
                   PROVE  then[k] < then[l]
        OBVIOUS
    <3>4. k \in 1 .. Len(before) /\ then[k] = at[k]
        BY <2>2, <2>3, <3>3
    <3>5. CASE l = last
        BY <3>2, <3>4, <3>5, <2>3
    <3>6. CASE l # last
      <4>1. l \in 1 .. Len(before) /\ then[l] = at[l]
        BY <3>6, <2>2, <2>3
      <4> QED
        BY <3>1, <3>3, <3>4, <4>1
    <3> QED
        BY <3>5, <3>6
  <2>8. \A j \in 1 .. n : d[j] # <<>> => \E k \in 1 .. last : then[k] = j
    <3> SUFFICES ASSUME NEW j \in 1 .. n, d[j] # <<>>
                 PROVE  \E k \in 1 .. last : then[k] = j
        OBVIOUS
    <3>1. CASE j = n
        BY <3>1, <2>2, <2>3
    <3>2. CASE j # n
      <4>1. PICK k \in 1 .. Len(before) : at[k] = j
        BY <3>2, <1>9, <1>6 DEF ComeFrom
      <4> QED
        BY <4>1, <2>2, <2>3
    <3> QED
        BY <3>1, <3>2
  <2>9. ComeFrom(then, after, d, n)
    BY <2>2, <2>5, <2>6, <2>7, <2>8 DEF ComeFrom
  <2>10. P(n)
    BY <2>1, <2>2, <2>9 DEF P
  <2> QED
    BY <2>10
<1> QED
    BY <1>6, <1>11, <1>12

-----------------------------------------------------------------------------
(* What a plan of the record is.                                              *)

LEMMA RecordFacts ==
    ASSUME TypeOK, OneRecord
    PROVE  /\ \A i : Recorded(i) => /\ i \in Items /\ VersionOf(i) \in Versions
                                    /\ HasRecord(i, VersionOf(i))
           /\ \A i, v : HasRecord(i, v) => /\ Recorded(i) /\ VersionOf(i) = v
                                           /\ i \in Items /\ v \in Versions
<1>1. stored \in Seq(Records) /\ OneEach(stored)
    BY DEF TypeOK, OneRecord, OneEach
<1>2. \A i : VersionOf(i) = VersionIn(stored, i)
    BY DEF VersionOf, VersionIn, IsFirst
<1>3. \A i, v : HasRecord(i, v) <=> In(stored, Record(i, v))
    BY DEF HasRecord, In
<1>4. \A i : Recorded(i) <=> \E k \in DOMAIN stored : stored[k].id = i
    BY DEF Recorded
<1> QED
    BY <1>1, <1>2, <1>3, <1>4, InIs

(* The changes of an item that is not up to date, and what it is when there   *)
(* are none.                                                                  *)
LEMMA DerivedIs ==
    ASSUME TypeOK, OneRecord, NEW i \in Items
    PROVE  \/ /\ DeriveItem(i) = <<>>
              /\ \/ published[i] = 0
                 \/ IF Recorded(i) THEN VersionOf(i) >= published[i] ELSE i \in system
           \/ \E c \in Changes : /\ DeriveItem(i) = <<c>>
                                 /\ c.id = i /\ c.op # "remove" /\ Fits(c)
<1>1. published[i] \in 0 .. MaxVersion /\ MaxVersion \in Nat /\ Versions = 1 .. MaxVersion
    BY InstallAssumption DEF TypeOK, Versions
<1>2. CASE Recorded(i)
  <2>1. VersionOf(i) \in Versions /\ HasRecord(i, VersionOf(i))
    BY <1>2, RecordFacts
  <2>2. CASE published[i] > VersionOf(i)
    <3> DEFINE c == Change("update", i, VersionOf(i), published[i])
    <3>1. c \in Changes /\ DeriveItem(i) = <<c>>
        BY <1>1, <1>2, <2>1, <2>2 DEF Changes, Change, DeriveItem
    <3>2. /\ c.id = i /\ c.op = "update"
          /\ c.from = VersionOf(i) /\ c.to = published[i]
        BY DEF Change
    <3> HIDE DEF c
    <3>3. Fits(c)
        BY <1>1, <2>1, <2>2, <3>2 DEF Fits
    <3> QED
        BY <3>1, <3>2, <3>3
  <2>3. CASE ~(published[i] > VersionOf(i))
    BY <1>1, <1>2, <2>1, <2>3 DEF DeriveItem
  <2> QED
    BY <2>2, <2>3
<1>3. CASE ~Recorded(i)
  <2>1. CASE i \in system \/ published[i] = 0
    BY <1>3, <2>1 DEF DeriveItem
  <2>2. CASE ~(i \in system \/ published[i] = 0)
    <3> DEFINE c == Change("install", i, 0, published[i])
    <3>1. c \in Changes /\ DeriveItem(i) = <<c>>
        BY <1>1, <1>3, <2>2 DEF Changes, Change, DeriveItem
    <3>2. /\ c.id = i /\ c.op = "install" /\ c.to = published[i]
        BY DEF Change
    <3> HIDE DEF c
    <3>3. Fits(c)
        BY <1>1, <1>3, <2>2, <3>2 DEF Fits
    <3> QED
        BY <3>1, <3>2, <3>3
  <2> QED
    BY <2>1, <2>2
<1> QED
    BY <1>2, <1>3

LEMMA RemovalsAre ==
    ASSUME TypeOK, OneRecord, NEW items
    PROVE  LET p == RemovalsOf(items)
           IN  /\ p \in Seq(Changes)
               /\ \A k \in DOMAIN p : /\ p[k].op = "remove" /\ p[k].id \in items
                                      /\ p[k].id \in Items
                                      /\ Fits(p[k])
               /\ \A j, k \in DOMAIN p : p[j].id = p[k].id => j = k
               /\ \A i \in items : Recorded(i) => \E k \in DOMAIN p : p[k].id = i
<1> DEFINE others == {r \in Records : r.id \notin items}
           going == Without(stored, others)
           p == [k \in DOMAIN going |-> Change("remove", going[k].id, going[k].version, 0)]
<1>1. RemovalsOf(items) = p
    BY DEF RemovalsOf
<1>2. stored \in Seq(Records) /\ OneEach(stored)
    BY DEF TypeOK, OneRecord, OneEach
<1>3. /\ going \in Seq(Records) /\ OneEach(going)
      /\ \A r : (\E k \in DOMAIN going : going[k] = r)
                  <=> r \notin others /\ \E k \in DOMAIN stored : stored[k] = r
  <2> HIDE DEF others
  <2> QED
    BY <1>2, WithoutIs
<1> HIDE DEF going
<1>4. /\ DOMAIN going = 1 .. Len(going) /\ Len(going) \in Nat
      /\ \A k \in DOMAIN going : going[k] \in Records
    BY <1>3
<1>5. \A k \in DOMAIN going : /\ going[k].id \in Items /\ going[k].version \in 1 .. MaxVersion
                              /\ going[k] = Record(going[k].id, going[k].version)
                              /\ Change("remove", going[k].id, going[k].version, 0) \in Changes
  <2>0. \A i \in Items, v \in 1 .. MaxVersion : Change("remove", i, v, 0) \in Changes
    BY DEF Change, Changes, Versions
  <2>1. \A r \in Records : /\ r.id \in Items /\ r.version \in 1 .. MaxVersion
                           /\ r = Record(r.id, r.version)
    BY DEF Records, Record, Versions
  <2>2. \A k \in DOMAIN going :
          going[k].id \in Items /\ going[k].version \in 1 .. MaxVersion
    BY <2>1, <1>4
  <2> QED
    BY <2>0, <2>1, <2>2, <1>4
<1>6. \A k \in DOMAIN going :
        /\ p[k].op = "remove" /\ p[k].id = going[k].id
        /\ p[k].from = going[k].version /\ p[k].to = 0
        /\ p[k] = Change("remove", going[k].id, going[k].version, 0)
    BY <1>5 DEF Change
<1>7. p \in Seq(Changes) /\ DOMAIN p = DOMAIN going
  <2>1. \A k \in 1 .. Len(going) : p[k] \in Changes
    BY <1>4, <1>5, <1>6
  <2>2. p \in [1 .. Len(going) -> Changes]
    BY <1>4, <2>1
  <2> QED
    BY <2>2, <1>4
<1> HIDE DEF p
<1>8. \A k \in DOMAIN going : going[k] \notin others /\ \E l \in DOMAIN stored : stored[l] = going[k]
    BY <1>3
<1>9. \A k \in DOMAIN p : p[k].id \in items /\ Fits(p[k])
  <2> TAKE k \in DOMAIN p
  <2>1. going[k].id \in items
    BY <1>4, <1>7, <1>8
  <2>2. HasRecord(going[k].id, going[k].version)
    BY <1>5, <1>7, <1>8 DEF HasRecord
  <2> QED
    BY <2>1, <2>2, <1>6, <1>7 DEF Fits
<1>10. \A j, k \in DOMAIN p : p[j].id = p[k].id => j = k
    BY <1>3, <1>6, <1>7 DEF OneEach
<1>11. \A i \in items : Recorded(i) => \E k \in DOMAIN p : p[k].id = i
  <2> SUFFICES ASSUME NEW i \in items, Recorded(i) PROVE \E k \in DOMAIN p : p[k].id = i
    OBVIOUS
  <2>1. PICK l \in DOMAIN stored : stored[l].id = i
    BY DEF Recorded
  <2>2. PICK k \in DOMAIN going : going[k] = stored[l]
    BY <1>3, <2>1
  <2> QED
    BY <2>1, <2>2, <1>6, <1>7
<1> QED
    BY <1>1, <1>5, <1>6, <1>7, <1>9, <1>10, <1>11

LEMMA UpdatesAre ==
    ASSUME TypeOK, OneRecord, NEW S \in SUBSET Components, NEW order, IsOrder(order, S)
    PROVE  LET p == UpdatesOf(order)
           IN  /\ p \in Seq(Changes)
               /\ \A k \in DOMAIN p : p[k].id \in S /\ p[k].op # "remove" /\ Fits(p[k])
               /\ \A j, k \in DOMAIN p : p[j].id = p[k].id => j = k
               /\ \A j, k \in DOMAIN p : p[j].id \in requires[p[k].id] => j < k
               /\ \A c \in S : DeriveItem(c) = <<>> \/ \E k \in DOMAIN p : p[k].id = c
<1> DEFINE m == Len(order)
           d == [n \in 1 .. m |-> DeriveItem(order[n])]
<1>1. m \in Nat /\ DOMAIN order = 1 .. m /\ \A n \in 1 .. m : order[n] \in S
    BY DEF IsOrder
<1>2. /\ \A c \in S : \E n \in 1 .. m : order[n] = c
      /\ \A j, k \in 1 .. m : /\ order[j] = order[k] => j = k
                              /\ order[j] \in requires[order[k]] => j < k
    BY <1>1 DEF IsOrder
<1>3. \A n \in 1 .. m :
        d[n] = <<>> \/ \E c \in Changes : /\ d[n] = <<c>> /\ c.id = order[n]
                                         /\ c.op # "remove" /\ Fits(c)
  <2> TAKE n \in 1 .. m
  <2>1. order[n] \in Items /\ d[n] = DeriveItem(order[n])
    BY <1>1 DEF Items
  <2> QED
    BY <2>1, DerivedIs
<1>4. PICK upto : GatheredBy(upto, d, m)
    BY <1>1, GatheredExists
<1>5. UpdatesOf(order)
        = LET f[n \in 0 .. m] == IF n = 0 THEN <<>> ELSE f[n - 1] \o DeriveItem(order[n])
          IN  f[m]
    BY DEF UpdatesOf
<1>6. \A f : f = [n \in 0 .. m |-> IF n = 0 THEN <<>> ELSE f[n - 1] \o DeriveItem(order[n])]
               <=> GatheredBy(f, d, m)
  <2> TAKE f
  <2>1. \A n \in 0 .. m : n # 0 => d[n] = DeriveItem(order[n])
    BY <1>1
  <2>2. [n \in 0 .. m |-> IF n = 0 THEN <<>> ELSE f[n - 1] \o DeriveItem(order[n])]
        = [n \in 0 .. m |-> IF n = 0 THEN <<>> ELSE f[n - 1] \o d[n]]
    BY <2>1
  <2> QED
    BY <2>2 DEF GatheredBy
<1> HIDE DEF d
<1>7. PICK f : GatheredBy(f, d, m) /\ UpdatesOf(order) = f[m]
    BY <1>4, <1>5, <1>6
<1> DEFINE p == UpdatesOf(order)
<1>8. p \in Seq(Changes) /\ \E at : ComeFrom(at, p, d, m)
    BY <1>1, <1>3, <1>7, GatheredIs
<1>9. PICK at : ComeFrom(at, p, d, m)
    BY <1>8
<1> HIDE DEF p, m
<1>10. DOMAIN p = 1 .. Len(p) /\ at \in [1 .. Len(p) -> 1 .. m] /\ Len(p) \in Nat
    BY <1>8, <1>9 DEF ComeFrom
<1>11. \A k \in 1 .. Len(p) : p[k].id = order[at[k]] /\ p[k].op # "remove" /\ Fits(p[k])
  <2> TAKE k \in 1 .. Len(p)
  <2>1. at[k] \in 1 .. m /\ d[at[k]] = <<p[k]>>
    BY <1>9, <1>10 DEF ComeFrom
  <2>2. PICK c \in Changes : /\ d[at[k]] = <<c>> /\ c.id = order[at[k]]
                             /\ c.op # "remove" /\ Fits(c)
    BY <2>1, <1>3
  <2>3. p[k] = c
    BY <2>1, <2>2
  <2> QED
    BY <2>2, <2>3
<1>12. \A j, k \in 1 .. Len(p) : j < k => at[j] < at[k]
    BY <1>9 DEF ComeFrom
<1>13. ASSUME NEW j \in 1 .. Len(p), NEW k \in 1 .. Len(p)
       PROVE  /\ p[j].id = p[k].id => j = k
              /\ p[j].id \in requires[p[k].id] => j < k
  <2>1. at[j] \in 1 .. m /\ at[k] \in 1 .. m
    BY <1>10
  <2>2. p[j].id = order[at[j]] /\ p[k].id = order[at[k]]
    BY <1>11
  <2>3. p[j].id = p[k].id => at[j] = at[k]
    <3>1. order[at[j]] = order[at[k]] => at[j] = at[k]
        BY <2>1, <1>2
    <3> QED
        BY <3>1, <2>2
  <2>4. p[j].id \in requires[p[k].id] => at[j] < at[k]
    <3>1. order[at[j]] \in requires[order[at[k]]] => at[j] < at[k]
        BY <2>1, <1>2
    <3> QED
        BY <3>1, <2>2
  <2>5. (j < k => at[j] < at[k]) /\ (k < j => at[k] < at[j])
    BY <1>12
  <2>6. m \in Nat
    BY <1>1
  <2> QED
    BY <2>1, <2>3, <2>4, <2>5, <2>6, <1>10
<1>14. ASSUME NEW c \in S
       PROVE  DeriveItem(c) = <<>> \/ \E k \in 1 .. Len(p) : p[k].id = c
  <2>1. PICK n \in 1 .. m : order[n] = c
    BY <1>2
  <2>2. d[n] = DeriveItem(c)
    BY <2>1 DEF d
  <2>3. CASE d[n] # <<>>
    <3>1. PICK k \in 1 .. Len(p) : at[k] = n
        BY <2>3, <1>9 DEF ComeFrom
    <3> QED
        BY <3>1, <2>1, <1>11
  <2> QED
    BY <2>2, <2>3
<1>15. \A k \in 1 .. Len(p) : p[k].id \in S
    BY <1>1, <1>10, <1>11
<1> QED
    BY <1>8, <1>10, <1>11, <1>13, <1>14, <1>15 DEF p

(* What the plan p is of the goal g, as the record is.                        *)
Suits(p, g) ==
    /\ p \in Seq(Changes)
    /\ \A j, k \in DOMAIN p : p[j].id = p[k].id => j = k
    /\ \A k \in DOMAIN p : Fits(p[k])
    /\ IF g.kind = "selection"
       THEN /\ g.of \in Selections
            /\ \A k \in DOMAIN p :
                  p[k].id \in IF p[k].op = "remove" THEN Components \ g.of ELSE g.of
            /\ \A c \in g.of : Settled(c) \/ \E k \in DOMAIN p : p[k].id = c
            /\ \A c \in Components \ g.of : Recorded(c) => \E k \in DOMAIN p : p[k].id = c
            /\ \A k \in DOMAIN p : p[k].op = "install" =>
                  \A r \in requires[p[k].id] :
                      published[r] = 0 \/ Present(r) \/ \E j \in 1 .. k - 1 : p[j].id = r
       ELSE \A k \in DOMAIN p : p[k].op = "install" => p[k].id \in Programs

LEMMA SelectionPlan ==
    ASSUME TypeOK, OneRecord, OrdersAreSound, NEW S \in Selections
    PROVE  Suits(Derive(S), [kind |-> "selection", of |-> S])
<1> DEFINE g == [kind |-> "selection", of |-> S]
           us == UpdatesOf(DependencyOrder(S))
           rs == RemovalsOf(Components \ S)
           p == us \o rs
<1>1. Derive(S) = p
    BY DEF Derive
<1>2. S \in SUBSET Components /\ \A c \in S : requires[c] \subseteq S
    BY DEF Selections
<1>3. IsOrder(DependencyOrder(S), S)
    BY DEF OrdersAreSound
<1>4. /\ us \in Seq(Changes)
      /\ \A k \in DOMAIN us : us[k].id \in S /\ us[k].op # "remove" /\ Fits(us[k])
      /\ \A j, k \in DOMAIN us : us[j].id = us[k].id => j = k
      /\ \A j, k \in DOMAIN us : us[j].id \in requires[us[k].id] => j < k
      /\ \A c \in S : DeriveItem(c) = <<>> \/ \E k \in DOMAIN us : us[k].id = c
  <2> HIDE DEF us
  <2> QED
    BY <1>2, <1>3, UpdatesAre DEF us
<1>5. /\ rs \in Seq(Changes)
      /\ \A k \in DOMAIN rs : /\ rs[k].op = "remove" /\ rs[k].id \in Components \ S
                             /\ Fits(rs[k])
      /\ \A j, k \in DOMAIN rs : rs[j].id = rs[k].id => j = k
      /\ \A i \in Components \ S : Recorded(i) => \E k \in DOMAIN rs : rs[k].id = i
  <2> HIDE DEF rs
  <2> QED
    BY RemovalsAre DEF rs
<1> DEFINE m == Len(us)
           n == Len(rs)
<1>6. /\ p \in Seq(Changes) /\ m \in Nat /\ n \in Nat
      /\ DOMAIN us = 1 .. m /\ DOMAIN rs = 1 .. n /\ DOMAIN p = 1 .. m + n
      /\ \A k \in 1 .. m : k \in DOMAIN p /\ p[k] = us[k]
      /\ \A k \in 1 .. n : m + k \in DOMAIN p /\ p[m + k] = rs[k]
  <2> HIDE DEF us, rs
  <2>1. /\ p \in Seq(Changes) /\ Len(p) = m + n
        /\ \A k \in 1 .. m + n : p[k] = IF k <= m THEN us[k] ELSE rs[k - m]
    BY <1>4, <1>5, ConcatProperties
  <2>2. m \in Nat /\ n \in Nat /\ DOMAIN us = 1 .. m /\ DOMAIN rs = 1 .. n
    BY <1>4, <1>5
  <2> HIDE DEF p, m, n
  <2>3. DOMAIN p = 1 .. m + n
    BY <2>1
  <2>4. \A k \in 1 .. m : k \in 1 .. m + n /\ p[k] = us[k]
    BY <2>1, <2>2
  <2>5. \A k \in 1 .. n : m + k \in 1 .. m + n /\ p[m + k] = rs[k]
    BY <2>1, <2>2
  <2> QED
    BY <2>1, <2>2, <2>3, <2>4, <2>5
<1> HIDE DEF p, us, rs, m, n
<1>7. \A k \in DOMAIN p : \/ k \in 1 .. m
                          \/ k - m \in 1 .. n /\ p[k] = rs[k - m]
  <2>1. \A k \in 1 .. m + n : k \in 1 .. m \/ (k - m \in 1 .. n /\ k = m + (k - m))
    BY <1>6
  <2> QED
    BY <2>1, <1>6
<1>8. \A k \in DOMAIN p :
        \/ /\ k \in 1 .. m /\ p[k] = us[k]
           /\ p[k].id \in S /\ p[k].op # "remove" /\ Fits(p[k])
        \/ /\ k - m \in 1 .. n /\ p[k] = rs[k - m]
           /\ p[k].id \in Components \ S /\ p[k].op = "remove" /\ Fits(p[k])
    BY <1>4, <1>5, <1>6, <1>7
<1>9. \A j, k \in DOMAIN p : p[j].id = p[k].id => j = k
  <2> SUFFICES ASSUME NEW j \in DOMAIN p, NEW k \in DOMAIN p, p[j].id = p[k].id PROVE j = k
    OBVIOUS
  <2>1. CASE j \in 1 .. m /\ k \in 1 .. m
    BY <2>1, <1>4, <1>6
  <2>2. CASE j - m \in 1 .. n /\ p[j] = rs[j - m] /\ k - m \in 1 .. n /\ p[k] = rs[k - m]
    <3>1. j - m = k - m
        BY <2>2, <1>5, <1>6
    <3> QED
        BY <3>1, <1>6
  <2> QED
    BY <2>1, <2>2, <1>8
<1>10. ASSUME NEW c \in S PROVE Settled(c) \/ \E k \in DOMAIN p : p[k].id = c
  <2>1. c \in Items
    BY <1>2 DEF Items
  <2>2. CASE DeriveItem(c) = <<>>
    BY <2>1, <2>2, DerivedIs DEF Settled
  <2>3. CASE \E k \in DOMAIN us : us[k].id = c
    BY <2>3, <1>6
  <2> QED
    BY <2>2, <2>3, <1>4
<1>11. ASSUME NEW c \in Components \ S, Recorded(c) PROVE \E k \in DOMAIN p : p[k].id = c
  <2>1. PICK k \in 1 .. n : rs[k].id = c
    BY <1>5, <1>6, <1>11
  <2>2. m + k \in DOMAIN p /\ p[m + k] = rs[k]
    BY <1>6
  <2> QED
    BY <2>1, <2>2
<1>12. ASSUME NEW k \in DOMAIN p, p[k].op = "install", NEW r \in requires[p[k].id]
       PROVE  published[r] = 0 \/ Present(r) \/ \E j \in 1 .. k - 1 : p[j].id = r
  <2>1. k \in 1 .. m /\ p[k] = us[k] /\ p[k].id \in S
    BY <1>8, <1>12
  <2>2. r \in S /\ r \in Items
    BY <2>1, <1>2 DEF Items
  <2>3. CASE DeriveItem(r) = <<>>
    BY <2>2, <2>3, DerivedIs DEF Present
  <2>4. CASE \E j \in DOMAIN us : us[j].id = r
    <3>1. PICK j \in 1 .. m : us[j].id = r
        BY <2>4, <1>6
    <3>2. j < k
        BY <3>1, <2>1, <1>4, <1>6, <1>12
    <3> QED
        BY <3>1, <3>2, <2>1, <1>6
  <2> QED
    BY <2>2, <2>3, <2>4, <1>4
<1>13. g.kind = "selection" /\ g.of = S
    OBVIOUS
<1> HIDE DEF g
<1>14. Suits(p, g)
    BY <1>6, <1>8, <1>9, <1>10, <1>11, <1>12, <1>13 DEF Suits
<1> QED
    BY <1>1, <1>14 DEF g

LEMMA ProgramPlan ==
    ASSUME TypeOK, OneRecord, NEW i \in Programs
    PROVE  Suits(DeriveItem(i), [kind |-> "program", of |-> {i}])
<1>1. i \in Items
    BY DEF Items
<1>2. CASE DeriveItem(i) = <<>>
    BY <1>2 DEF Suits
<1>3. ASSUME NEW c \in Changes, DeriveItem(i) = <<c>>, c.id = i, Fits(c)
      PROVE  Suits(DeriveItem(i), [kind |-> "program", of |-> {i}])
  <2>1. DeriveItem(i) \in Seq(Changes) /\ DOMAIN DeriveItem(i) = {1} /\ DeriveItem(i)[1] = c
    BY <1>3
  <2> QED
    BY <2>1, <1>3 DEF Suits
<1> QED
    BY <1>1, <1>2, <1>3, DerivedIs

LEMMA RemovalPlan ==
    ASSUME TypeOK, OneRecord, NEW items
    PROVE  Suits(RemovalsOf(items), [kind |-> "removal", of |-> items])
    BY RemovalsAre DEF Suits

-----------------------------------------------------------------------------
(* What a step leaves as it is.                                               *)

LEMMA CurrentIs ==
    ASSUME TypeOK, OneRecord, PlanFits, StepsFit, AtChange
    PROVE  /\ index \in DOMAIN plan /\ index \in Nat /\ index \in Ahead
           /\ Current \in Changes /\ Current.id \in Items /\ Fits(Current)
           /\ Current.op # "remove" =>
                 /\ Current.to \in Versions /\ Place \in Places
                 /\ Current.to = published[Current.id]
           /\ Current.op = "install" => ~Recorded(Current.id)
           /\ Current.op = "update" =>
                 /\ Recorded(Current.id) /\ VersionOf(Current.id) = Current.from
                 /\ Current.from \in Versions /\ Old \in Places
                 /\ Current.from < Current.to
           /\ Current.op = "remove" =>
                 /\ Recorded(Current.id) /\ VersionOf(Current.id) = Current.from
                 /\ Current.from \in Versions /\ Old \in Places
<1>1. index <= Len(plan) /\ index \in Nat /\ index >= 1 /\ Len(plan) \in Nat
      /\ DOMAIN plan = 1 .. Len(plan)
    BY DEF StepsFit, TypeOK
<1>2. index \in DOMAIN plan /\ index \in Ahead
    BY <1>1 DEF Ahead
<1>3. Current \in Changes
    BY <1>2 DEF Current, TypeOK
<1>4. /\ Current.id \in Items /\ Current.op \in {"install", "update", "remove"}
      /\ Current.op = "remove" => Current.from \in Versions
      /\ Current.op # "remove" => Current.to \in Versions
    BY <1>3 DEF Changes
<1>5. Fits(Current)
    BY <1>2 DEF PlanFits, AtChange, Current
<1>6. Versions = 1 .. MaxVersion /\ MaxVersion \in Nat
    BY InstallAssumption DEF Versions
<1>7. /\ Current.op = "update" =>
            /\ Recorded(Current.id) /\ VersionOf(Current.id) = Current.from
            /\ Current.from \in Versions /\ Current.from < Current.to
            /\ Current.to = published[Current.id]
      /\ Current.op = "remove" =>
            /\ Recorded(Current.id) /\ VersionOf(Current.id) = Current.from
            /\ Current.from \in Versions
    BY <1>5, RecordFacts DEF Fits
<1>8. /\ Current.op = "install" => /\ ~Recorded(Current.id)
                                  /\ Current.to \in Versions
                                  /\ Current.to = published[Current.id]
    BY <1>5 DEF Fits
<1>9. Current.op = "update" => Current.to \in Versions
    BY <1>4
<1>10. /\ Current.from \in Versions => Old \in Places
       /\ Current.to \in Versions => Place \in Places
    BY <1>4 DEF Old, Place, Places
<1> QED
    BY <1>1, <1>2, <1>3, <1>4, <1>5, <1>7, <1>8, <1>9, <1>10

(* Nothing is cut short any less.                                             *)
CutGrows ==
    /\ cut' \in [{"crashed", "failed", "cancelled"} -> Nat]
    /\ \A how \in {"crashed", "failed", "cancelled"} : cut[how] <= cut'[how]

LEMMA SurvivedBefore ==
    ASSUME TypeOK, CutGrows, NEW i
    PROVE  /\ Survives(i)' => Survives(i)
           /\ Untroubled(i)' => Untroubled(i)
<1>1. \A how \in {"crashed", "failed", "cancelled"} : cut[how] \in Nat /\ cut'[how] \in Nat
    BY InstallAssumption DEF TypeOK, CutGrows
<1> QED
    BY <1>1 DEF CutGrows, Survives, Untroubled

LEMMA ItemStays ==
    ASSUME TypeOK, OneRecord, NEW i \in Items, ItemHolds(i), CutGrows,
           ~Replaced(i), ~InHand(i),
           Recorded(i)' <=> Recorded(i),
           Recorded(i) => VersionOf(i)' = VersionOf(i),
           published'[i] \in Nat, published[i] <= published'[i],
           i \in condemned => i \in condemned',
           \A v \in Versions : disk'[<<i, v>>] = disk[<<i, v>>]
    PROVE  ItemHolds(i)'
<1> SUFFICES ASSUME Recorded(i)', (i \notin condemned)' PROVE ItemHolds(i)'
    BY DEF ItemHolds
<1>1. VersionOf(i) \in Versions /\ VersionOf(i)' = VersionOf(i)
    BY RecordFacts
<1>2. AsRecorded(i)' <=> AsRecorded(i)
    BY <1>1 DEF AsRecorded
<1>3. Whole(i)' <=> Whole(i)
    BY DEF Whole
<1>4. (VersionOf(i) >= published[i])' => VersionOf(i) >= published[i]
  <2>1. VersionOf(i) \in Nat /\ published[i] \in Nat
    BY <1>1, InstallAssumption DEF Versions, TypeOK
  <2> QED
    BY <2>1, <1>1
<1> QED
    BY <1>2, <1>3, <1>4, SurvivedBefore DEF ItemHolds

LEMMA RecordStays ==
    ASSUME TypeOK, OneRecord, PlanFits, GoalAhead,
           UNCHANGED <<requires, system, published, stored, goal, plan, index>>,
           condemned \subseteq condemned', pc' # "idle" => pc # "idle"
    PROVE  /\ OneRecord' /\ PlanFits' /\ GoalAhead'
           /\ \A i : /\ Recorded(i)' <=> Recorded(i)
                    /\ VersionOf(i)' = VersionOf(i)
<1>1. OneRecord'
    BY DEF OneRecord
<1>2. \A i : /\ Recorded(i)' <=> Recorded(i)
             /\ VersionOf(i)' = VersionOf(i)
             /\ \A v : HasRecord(i, v)' <=> HasRecord(i, v)
    BY DEF Recorded, VersionOf, IsFirst, HasRecord
<1>3. \A c : Fits(c)' <=> Fits(c)
    BY <1>2 DEF Fits
<1>4. PlanFits'
  <2>1. Ahead' = Ahead
    BY DEF Ahead
  <2> QED
    BY <1>3, <2>1 DEF PlanFits
<1>5. SelectionAhead => SelectionAhead'
  <2>1. Ahead' = Ahead
    BY DEF Ahead
  <2>2. \A c : Settled(c) => Settled(c)'
    BY <1>2 DEF Settled
  <2>3. \A r : Present(r)' <=> Present(r)
    BY <1>2 DEF Present
  <2>4. \A r, k : ComesBefore(r, k)' <=> ComesBefore(r, k)
    BY DEF ComesBefore
  <2> QED
    BY <1>2, <2>1, <2>2, <2>3, <2>4 DEF SelectionAhead
<1>6. OtherGoalAhead' <=> OtherGoalAhead
    BY DEF OtherGoalAhead, Ahead
<1>7. GoalAhead'
    BY <1>5, <1>6 DEF GoalAhead, Selections
<1> QED
    BY <1>1, <1>2, <1>4, <1>7

(* The files of other items than the current one stay.                        *)
OthersStay ==
    \A p \in Places : p[1] # Current.id => disk'[p] = disk[p]

LEMMA DoneStays ==
    ASSUME TypeOK, OneRecord, PlanFits, StepsFit, AtChange, DoneStaysDone,
           UNCHANGED <<stored, plan, index>>, OthersStay
    PROVE  DoneStaysDone'
<1>1. index \in DOMAIN plan /\ index \in Nat
    BY CurrentIs
<1>2. SUFFICES ASSUME NEW k \in 1 .. index - 1 PROVE Done(plan[k])'
    BY DEF DoneStaysDone
<1>3. k \in DOMAIN plan /\ k # index /\ Done(plan[k])
    BY <1>1 DEF TypeOK, DoneStaysDone
<1>4. plan[k].id # Current.id
    BY <1>1, <1>3 DEF PlanFits, Current
<1>5. PICK c \in Changes : plan[k] = c /\ plan'[k] = c
    BY <1>3 DEF TypeOK
<1>6. /\ c.op = "remove" => <<c.id, c.from>> \in Places
      /\ c.op # "remove" => <<c.id, c.to>> \in Places
    BY <1>5 DEF Changes, Places
<1>7. /\ c.op = "remove" => disk'[<<c.id, c.from>>] = disk[<<c.id, c.from>>]
      /\ c.op # "remove" => disk'[<<c.id, c.to>>] = disk[<<c.id, c.to>>]
    BY <1>4, <1>5, <1>6 DEF OthersStay
<1>8. Recorded(c.id)' <=> Recorded(c.id)
    BY DEF Recorded
<1>9. Done(c)
    BY <1>3, <1>5
<1> QED
    BY <1>5, <1>7, <1>8, <1>9 DEF Done

(* A step at a change that goes on: what is left to show of it is what it has *)
(* in its places and of its own item.                                         *)
GoesOn ==
    /\ AtChange /\ pc' # "idle"
    /\ UNCHANGED <<catalog, stored, asked, index, cut>>
    /\ condemned \subseteq condemned'
    /\ OthersStay

LEMMA GoingOn ==
    ASSUME Inv, GoesOn
    PROVE  /\ OneRecord' /\ CutsCounted' /\ PlanFits' /\ GoalAhead' /\ DoneStaysDone'
           /\ SelectionIsInstalled'
           /\ \A i \in Items : i # Current.id => ItemHolds(i)'
           /\ \A i : /\ Recorded(i)' <=> Recorded(i)
                    /\ VersionOf(i)' = VersionOf(i)
<1>1. pc # "idle"
    BY DEF GoesOn, AtChange
<1>2. /\ OneRecord' /\ PlanFits' /\ GoalAhead'
      /\ \A i : /\ Recorded(i)' <=> Recorded(i)
               /\ VersionOf(i)' = VersionOf(i)
    BY <1>1, RecordStays DEF Inv, GoesOn, catalog, asked
<1>3. CutsCounted'
  <2>1. runs' = runs /\ cut' = cut
    BY DEF GoesOn, asked
  <2> QED
    BY <1>1, <2>1 DEF Inv, CutsCounted, GoesOn
<1>4. DoneStaysDone'
    BY DoneStays DEF Inv, GoesOn, asked
<1>5. SelectionIsInstalled'
    BY DEF SelectionIsInstalled, Completed, GoesOn
<1>6. ASSUME NEW i \in Items, i # Current.id PROVE ItemHolds(i)'
  <2>1. CutGrows
    <3>1. cut' = cut /\ \A how \in {"crashed", "failed", "cancelled"} : cut[how] \in 0 .. runs
        BY DEF Inv, GoesOn, TypeOK
    <3>2. cut \in [{"crashed", "failed", "cancelled"} -> Nat] /\ runs \in Nat
        BY InstallAssumption DEF Inv, TypeOK
    <3> QED
        BY <3>1, <3>2 DEF CutGrows
  <2>2. published'[i] = published[i] /\ published[i] \in Nat
    BY InstallAssumption DEF Inv, GoesOn, catalog, TypeOK
  <2>3. \A v \in Versions : disk'[<<i, v>>] = disk[<<i, v>>]
    BY <1>6 DEF GoesOn, OthersStay, Places
  <2>4. ~Replaced(i) /\ ~InHand(i)
    BY <1>6 DEF Replaced, InHand
  <2>5. ItemHolds(i) /\ (i \in condemned => i \in condemned')
    BY DEF Inv, ItemsHold, GoesOn
  <2> QED
    BY <1>2, <2>1, <2>2, <2>3, <2>4, <2>5, ItemStays DEF Inv
<1> QED
    BY <1>2, <1>3, <1>4, <1>5, <1>6

(* A run that is cut short: what is left to show is the item it was at.       *)
IsCut ==
    /\ pc # "idle" /\ pc' = "idle"
    /\ outcome' # "completed"
    /\ UNCHANGED <<catalog, stored, asked, index>>
    /\ \E how \in {"crashed", "failed", "cancelled"} : cut' = [cut EXCEPT ![how] = @ + 1]
    /\ condemned \subseteq condemned'

LEMMA CuttingShort ==
    ASSUME Inv, IsCut
    PROVE  /\ CutGrows /\ CutsCounted'
           /\ cut' \in [{"crashed", "failed", "cancelled"} -> 0 .. runs']
           /\ OneRecord' /\ PlanFits' /\ GoalAhead' /\ StepsFit' /\ PlacesFit'
           /\ SelectionIsInstalled'
           /\ \A i : /\ Recorded(i)' <=> Recorded(i)
                    /\ VersionOf(i)' = VersionOf(i)
<1>1. /\ OneRecord' /\ PlanFits' /\ GoalAhead'
      /\ \A i : /\ Recorded(i)' <=> Recorded(i)
               /\ VersionOf(i)' = VersionOf(i)
    BY RecordStays DEF Inv, IsCut, catalog, asked
<1>2. StepsFit' /\ PlacesFit' /\ SelectionIsInstalled'
    BY DEF StepsFit, PlacesFit, AtChange, SelectionIsInstalled, Completed, IsCut
<1>3. PICK how \in {"crashed", "failed", "cancelled"} : cut' = [cut EXCEPT ![how] = @ + 1]
    BY DEF IsCut
<1>4. /\ cut \in [{"crashed", "failed", "cancelled"} -> Nat]
      /\ cut["crashed"] \in Nat /\ cut["failed"] \in Nat /\ cut["cancelled"] \in Nat
      /\ runs \in Nat /\ runs' = runs
    BY InstallAssumption DEF Inv, TypeOK, IsCut, asked
<1>5. cut["crashed"] + cut["failed"] + cut["cancelled"] + 1 <= runs
    BY DEF Inv, CutsCounted, IsCut
<1>6. /\ cut'["crashed"] = IF how = "crashed" THEN cut["crashed"] + 1 ELSE cut["crashed"]
      /\ cut'["failed"] = IF how = "failed" THEN cut["failed"] + 1 ELSE cut["failed"]
      /\ cut'["cancelled"] = IF how = "cancelled" THEN cut["cancelled"] + 1 ELSE cut["cancelled"]
      /\ DOMAIN cut' = {"crashed", "failed", "cancelled"}
      /\ cut' = [h \in {"crashed", "failed", "cancelled"} |-> cut'[h]]
    BY <1>3, <1>4
<1>7. CutGrows
    BY <1>4, <1>6 DEF CutGrows
<1>8. \A h \in {"crashed", "failed", "cancelled"} : cut'[h] \in 0 .. runs'
    BY <1>4, <1>5, <1>6
<1>9. CutsCounted'
    BY <1>3, <1>4, <1>5, <1>6 DEF CutsCounted, IsCut
<1> QED
    BY <1>1, <1>2, <1>6, <1>7, <1>8, <1>9

-----------------------------------------------------------------------------
(* The steps on the files.                                                    *)

LEMMA SameCurrent ==
    ASSUME UNCHANGED <<plan, index>>
    PROVE  Current' = Current /\ Place' = Place /\ Old' = Old /\ Ahead' = Ahead
    BY DEF Current, Place, Old, Ahead

LEMMA FileStep ==
    ASSUME Inv, GoesOn, TypeOK', StepsFit', PlacesFit', Current.op # "remove",
           Current.op = "update" =>
              /\ \/ pc' \in {"forget", "write"}
                 \/ pc \notin {"forget", "write"} /\ disk'[Old] = disk[Old]
              /\ Whole(Current.id) \/ InHand(Current.id)
                    => Whole(Current.id)' \/ InHand(Current.id)'
    PROVE  Inv'
<1>1. Current' = Current /\ Place' = Place /\ Old' = Old
    BY SameCurrent DEF GoesOn, asked
<1>2. SUFFICES ASSUME NEW i \in Items, i = Current.id, Recorded(i)', i \notin condemned'
               PROVE  ItemHolds(i)'
  <2>1. \A i \in Items : ItemHolds(i)'
    BY <1>2, GoingOn DEF ItemHolds
  <2> QED
    BY <2>1, GoingOn DEF Inv, ItemsHold
<1>3. Recorded(i) /\ VersionOf(i)' = VersionOf(i)
    BY <1>2, GoingOn
<1>4. /\ Current.op = "update" /\ VersionOf(i) = Current.from
      /\ Current.from < published[i] /\ Current.from \in Versions
  <2>1. Current.op \in {"install", "update", "remove"}
    BY CurrentIs DEF Inv, GoesOn, Fits
  <2> QED
    BY <2>1, <1>2, <1>3, CurrentIs DEF Inv, GoesOn
<1>5. published' = published /\ cut' = cut /\ AtChange /\ pc' # "idle"
    BY DEF GoesOn, catalog
<1>6. ~(VersionOf(i) >= published[i])'
  <2>1. published[i] \in Nat /\ Current.from \in Nat
    <3>1. published \in [Items -> 0 .. MaxVersion] /\ MaxVersion \in Nat
        BY InstallAssumption DEF Inv, TypeOK
    <3> QED
        BY <3>1, <1>4 DEF Versions
  <2> QED
    BY <2>1, <1>3, <1>4, <1>5
<1>7. ItemHolds(i) /\ i \notin condemned
    BY <1>2 DEF Inv, ItemsHold, GoesOn
<1>8. Old = <<i, VersionOf(i)>>
    BY <1>2, <1>4 DEF Old
<1>9. Untroubled(i)' => AsRecorded(i)' \/ Replaced(i)'
  <2>1. Untroubled(i)' => AsRecorded(i) \/ Replaced(i)
    BY <1>3, <1>5, <1>7 DEF Untroubled, ItemHolds
  <2>2. CASE pc' \in {"forget", "write"}
    BY <2>2, <1>1, <1>2, <1>4 DEF Replaced
  <2>3. CASE pc \notin {"forget", "write"} /\ disk'[Old] = disk[Old]
    BY <2>1, <2>3, <1>3, <1>8 DEF Replaced, AsRecorded
  <2> QED
    BY <2>2, <2>3, <1>4
<1>10. Survives(i)' => Whole(i)' \/ InHand(i)'
  <2>1. Survives(i)' => Whole(i) \/ InHand(i)
    BY <1>3, <1>5, <1>7 DEF Survives, ItemHolds
  <2>2. Whole(Current.id)' <=> Whole(i)'
    BY <1>1, <1>2 DEF Whole
  <2>3. InHand(Current.id)' <=> InHand(i)'
    BY <1>1, <1>2 DEF InHand
  <2> QED
    BY <2>1, <2>2, <2>3, <1>2, <1>4
<1> QED
    BY <1>6, <1>9, <1>10 DEF ItemHolds

(* An update puts its version where the version on record is not.              *)
LEMMA UpdatedElsewhere ==
    ASSUME TypeOK, OneRecord, PlanFits, StepsFit, AtChange, Current.op = "update"
    PROVE  /\ Old \in Places /\ Place \in Places /\ Old # Place
           /\ Old = <<Current.id, VersionOf(Current.id)>>
<1>1. /\ Old \in Places /\ Place \in Places
      /\ VersionOf(Current.id) = Current.from
      /\ Current.from \in Versions /\ Current.to \in Versions /\ Current.from < Current.to
    BY CurrentIs
<1>2. Current.from # Current.to
    BY <1>1, InstallAssumption DEF Versions
<1> QED
    BY <1>1, <1>2 DEF Old, Place

LEMMA UnpackKeeps == Inv /\ Unpack => Inv'
<1> SUFFICES ASSUME Inv, Unpack PROVE Inv'
    OBVIOUS
<1> USE DEF Goto
<1>1. AtChange /\ Current.op # "remove" /\ Current.id \in Components /\ Place \in Places
    BY CurrentIs DEF Inv, StepsFit, AtChange, Unpack
<1>2. GoesOn
    BY <1>1 DEF GoesOn, Unpack, OthersStay
<1>3. Current' = Current /\ Place' = Place
    BY SameCurrent DEF Unpack, asked
<1>4. TypeOK'
    BY <1>1 DEF Inv, TypeOK, Unpack, catalog, asked, Contents, Steps
<1>5. StepsFit'
    BY <1>1, <1>3 DEF Inv, StepsFit, AtChange, Unpack, asked
<1>6. PlacesFit'
  <2>1. staging'[Place] = "whole"
    BY <1>1 DEF Unpack, Inv, TypeOK
  <2> QED
    BY <2>1, <1>3 DEF PlacesFit, Unpack
<1>7. disk' = disk
    BY DEF Unpack
<1>8. Whole(Current.id) \/ InHand(Current.id) => Whole(Current.id)'
    BY <1>3, <1>7 DEF Whole, InHand, Unpack
<1> QED
    BY <1>1, <1>2, <1>4, <1>5, <1>6, <1>7, <1>8, FileStep DEF Unpack

LEMMA ClearAsideKeeps == Inv /\ ClearAside => Inv'
<1> SUFFICES ASSUME Inv, ClearAside PROVE Inv'
    OBVIOUS
<1> USE DEF Goto
<1>1. AtChange /\ Current.op # "remove" /\ Current.id \in Components /\ Place \in Places
    BY CurrentIs DEF Inv, StepsFit, AtChange, ClearAside
<1>2. GoesOn
    BY <1>1 DEF GoesOn, ClearAside, OthersStay
<1>3. Current' = Current /\ Place' = Place
    BY SameCurrent DEF ClearAside, asked
<1>4. TypeOK'
    BY <1>1 DEF Inv, TypeOK, ClearAside, catalog, asked, Contents, Steps
<1>5. StepsFit'
    BY <1>1, <1>3 DEF Inv, StepsFit, AtChange, ClearAside, asked
<1>6. PlacesFit'
    BY <1>3 DEF Inv, PlacesFit, ClearAside
<1>7. disk' = disk
    BY DEF ClearAside
<1>8. Whole(Current.id) \/ InHand(Current.id) => Whole(Current.id)'
    BY <1>3, <1>7 DEF Whole, InHand, ClearAside
<1> QED
    BY <1>1, <1>2, <1>4, <1>5, <1>6, <1>7, <1>8, FileStep DEF ClearAside

LEMMA SetAsideKeeps == Inv /\ SetAside => Inv'
<1> SUFFICES ASSUME Inv, SetAside PROVE Inv'
    OBVIOUS
<1> USE DEF Goto
<1>1. AtChange /\ Current.op # "remove" /\ Current.id \in Components /\ Place \in Places
    BY CurrentIs DEF Inv, StepsFit, AtChange, SetAside
<1>2. GoesOn
  <2>1. Place[1] = Current.id
    BY DEF Place
  <2>2. \A p \in Places : p # Place => disk'[p] = disk[p]
    BY DEF SetAside, Inv, TypeOK
  <2>3. OthersStay
    BY <2>1, <2>2 DEF OthersStay
  <2> QED
    BY <1>1, <2>3 DEF GoesOn, SetAside
<1>3. Current' = Current /\ Place' = Place
    BY SameCurrent DEF SetAside, asked
<1>4. TypeOK'
    BY <1>1 DEF Inv, TypeOK, SetAside, catalog, asked, Contents, Steps
<1>5. StepsFit'
    BY <1>1, <1>3 DEF Inv, StepsFit, AtChange, SetAside, asked
<1>6. /\ \A p \in Places : p # Place => disk'[p] = disk[p]
      /\ disk'[Place] = "none" /\ aside'[Place] = disk[Place]
    BY <1>1 DEF SetAside, Inv, TypeOK
<1>7. PlacesFit'
    BY <1>3, <1>6 DEF Inv, PlacesFit, SetAside
<1>8. Current.op = "update" => disk'[Old] = disk[Old]
  <2> SUFFICES ASSUME Current.op = "update" PROVE disk'[Old] = disk[Old]
    OBVIOUS
  <2>1. Old \in Places /\ Old # Place
    BY <1>1, UpdatedElsewhere DEF Inv
  <2> QED
    BY <2>1, <1>6
<1>9. Whole(Current.id) \/ InHand(Current.id) => Whole(Current.id)' \/ InHand(Current.id)'
  <2> SUFFICES ASSUME Whole(Current.id) \/ InHand(Current.id)
               PROVE  Whole(Current.id)' \/ InHand(Current.id)'
    OBVIOUS
  <2>1. PICK v \in Versions : disk[<<Current.id, v>>] = "whole"
    BY DEF Whole, InHand, SetAside
  <2>2. CASE <<Current.id, v>> = Place
    BY <2>1, <2>2, <1>1, <1>3, <1>6 DEF InHand, AtChange, SetAside
  <2>3. CASE <<Current.id, v>> # Place
    <3>1. <<Current.id, v>> \in Places
        BY <1>1 DEF Places, Items
    <3> QED
        BY <2>1, <2>3, <3>1, <1>3, <1>6 DEF Whole
  <2> QED
    BY <2>2, <2>3
<1> QED
    BY <1>1, <1>2, <1>4, <1>5, <1>7, <1>8, <1>9, FileStep DEF SetAside

LEMMA MoveKeeps == Inv /\ Move => Inv'
<1> SUFFICES ASSUME Inv, Move PROVE Inv'
    OBVIOUS
<1> USE DEF Goto
<1>1. AtChange /\ Current.op # "remove" /\ Current.id \in Components /\ Place \in Places
    BY CurrentIs DEF Inv, StepsFit, AtChange, Move
<1>2. GoesOn
  <2>1. Place[1] = Current.id
    BY DEF Place
  <2>2. \A p \in Places : p # Place => disk'[p] = disk[p]
    BY DEF Move, Inv, TypeOK
  <2>3. OthersStay
    BY <2>1, <2>2 DEF OthersStay
  <2> QED
    BY <1>1, <2>3 DEF GoesOn, Move
<1>3. Current' = Current /\ Place' = Place
    BY SameCurrent DEF Move, asked
<1>4. TypeOK'
    BY <1>1 DEF Inv, TypeOK, Move, catalog, asked, files, Contents, Steps
<1>5. StepsFit'
    BY <1>1, <1>3 DEF Inv, StepsFit, AtChange, Move, asked
<1>6. /\ \A p \in Places : p # Place => disk'[p] = disk[p]
      /\ disk'[Place] = "whole"
  <2>1. staging[Place] = "whole"
    BY DEF Inv, PlacesFit, Move
  <2> QED
    BY <2>1, <1>1 DEF Move, Inv, TypeOK
<1>7. PlacesFit'
    BY <1>3, <1>6 DEF PlacesFit, Move
<1>8. Current.op = "update" => disk'[Old] = disk[Old]
  <2> SUFFICES ASSUME Current.op = "update" PROVE disk'[Old] = disk[Old]
    OBVIOUS
  <2>1. Old \in Places /\ Old # Place
    BY <1>1, UpdatedElsewhere DEF Inv
  <2> QED
    BY <2>1, <1>6
<1>9. Whole(Current.id)'
    BY <1>1, <1>3, <1>6, CurrentIs DEF Whole, Place, Inv
<1> QED
    BY <1>1, <1>2, <1>4, <1>5, <1>7, <1>8, <1>9, FileStep DEF Move

LEMMA DropAsideKeeps == Inv /\ DropAside => Inv'
<1> SUFFICES ASSUME Inv, DropAside PROVE Inv'
    OBVIOUS
<1> USE DEF Goto
<1>1. AtChange /\ Current.op # "remove" /\ Current.id \in Components /\ Place \in Places
    BY CurrentIs DEF Inv, StepsFit, AtChange, DropAside
<1>2. GoesOn
    BY <1>1 DEF GoesOn, DropAside, OthersStay, Placed
<1>3. Current' = Current /\ Place' = Place
    BY SameCurrent DEF DropAside, asked
<1>4. TypeOK'
    BY <1>1 DEF Inv, TypeOK, DropAside, catalog, asked, files, Contents, Steps, Placed
<1>5. StepsFit'
    BY <1>1, <1>3 DEF Inv, StepsFit, AtChange, DropAside, asked, Placed
<1>6. disk' = disk /\ disk[Place] = "whole"
    BY DEF Inv, PlacesFit, DropAside
<1>7. PlacesFit'
    BY <1>1, <1>3, <1>6 DEF PlacesFit, DropAside, Placed
<1>8. Whole(Current.id)'
    BY <1>1, <1>3, <1>6, CurrentIs DEF Whole, Place, Inv
<1>9. pc \notin {"forget", "write"}
    BY DEF DropAside
<1> QED
    BY <1>1, <1>2, <1>4, <1>5, <1>6, <1>7, <1>8, <1>9, FileStep

LEMMA ClearPlaceKeeps == Inv /\ ClearPlace => Inv'
<1> SUFFICES ASSUME Inv, ClearPlace PROVE Inv'
    OBVIOUS
<1> USE DEF Goto
<1>1. AtChange /\ Current.op # "remove" /\ Current.id \in Programs /\ Place \in Places
    BY CurrentIs DEF Inv, StepsFit, AtChange, ClearPlace
<1>2. GoesOn
  <2>1. Place[1] = Current.id
    BY DEF Place
  <2>2. \A p \in Places : p # Place => disk'[p] = disk[p]
    BY DEF ClearPlace, Inv, TypeOK
  <2>3. OthersStay
    BY <2>1, <2>2 DEF OthersStay
  <2> QED
    BY <1>1, <2>3 DEF GoesOn, ClearPlace
<1>3. Current' = Current /\ Place' = Place
    BY SameCurrent DEF ClearPlace, asked
<1>4. TypeOK'
    BY <1>1 DEF Inv, TypeOK, ClearPlace, catalog, asked, files, Contents, Steps
<1>5. StepsFit'
    BY <1>1, <1>3 DEF Inv, StepsFit, AtChange, ClearPlace, asked
<1>6. \A p \in Places : p # Place => disk'[p] = disk[p]
    BY DEF ClearPlace, Inv, TypeOK
<1>7. PlacesFit'
    BY DEF PlacesFit, ClearPlace
<1>8. Current.op = "update" => disk'[Old] = disk[Old]
  <2> SUFFICES ASSUME Current.op = "update" PROVE disk'[Old] = disk[Old]
    OBVIOUS
  <2>1. Old \in Places /\ Old # Place
    BY <1>1, UpdatedElsewhere DEF Inv
  <2> QED
    BY <2>1, <1>6
<1>9. InHand(Current.id)'
    BY <1>3 DEF InHand, AtChange, ClearPlace
<1> QED
    BY <1>1, <1>2, <1>4, <1>5, <1>7, <1>8, <1>9, FileStep DEF ClearPlace

LEMMA FillKeeps == Inv /\ Fill => Inv'
<1> SUFFICES ASSUME Inv, Fill PROVE Inv'
    OBVIOUS
<1> USE DEF Goto
<1>1. AtChange /\ Current.op # "remove" /\ Current.id \in Programs /\ Place \in Places
    BY CurrentIs DEF Inv, StepsFit, AtChange, Fill
<1>2. GoesOn
  <2>1. Place[1] = Current.id
    BY DEF Place
  <2>2. \A p \in Places : p # Place => disk'[p] = disk[p]
    BY DEF Fill, Inv, TypeOK
  <2>3. OthersStay
    BY <2>1, <2>2 DEF OthersStay
  <2> QED
    BY <1>1, <2>3 DEF GoesOn, Fill
<1>3. Current' = Current /\ Place' = Place
    BY SameCurrent DEF Fill, asked
<1>4. TypeOK'
    BY <1>1 DEF Inv, TypeOK, Fill, catalog, asked, files, Contents, Steps
<1>5. StepsFit'
    BY <1>1, <1>3 DEF Inv, StepsFit, AtChange, Fill, asked
<1>6. /\ \A p \in Places : p # Place => disk'[p] = disk[p]
      /\ disk'[Place] = "whole"
    BY <1>1 DEF Fill, Inv, TypeOK
<1>7. PlacesFit'
    BY <1>3, <1>6 DEF PlacesFit, Fill
<1>8. Current.op = "update" => disk'[Old] = disk[Old]
  <2> SUFFICES ASSUME Current.op = "update" PROVE disk'[Old] = disk[Old]
    OBVIOUS
  <2>1. Old \in Places /\ Old # Place
    BY <1>1, UpdatedElsewhere DEF Inv
  <2> QED
    BY <2>1, <1>6
<1>9. Whole(Current.id)'
    BY <1>1, <1>3, <1>6, CurrentIs DEF Whole, Place, Inv
<1> QED
    BY <1>1, <1>2, <1>4, <1>5, <1>7, <1>8, <1>9, FileStep DEF Fill

LEMMA ListProgramKeeps == Inv /\ ListProgram => Inv'
<1> SUFFICES ASSUME Inv, ListProgram PROVE Inv'
    OBVIOUS
<1> USE DEF Goto
<1>1. AtChange /\ Current.op # "remove" /\ Current.id \in Programs /\ Place \in Places
    BY CurrentIs DEF Inv, StepsFit, AtChange, ListProgram
<1>2. GoesOn
    BY <1>1 DEF GoesOn, ListProgram, OthersStay, files, Placed
<1>3. Current' = Current /\ Place' = Place
    BY SameCurrent DEF ListProgram, asked
<1>4. TypeOK'
    BY <1>1 DEF Inv, TypeOK, ListProgram, catalog, asked, files, Contents, Steps, Placed
<1>5. StepsFit'
    BY <1>1, <1>3 DEF Inv, StepsFit, AtChange, ListProgram, asked, Placed
<1>6. disk' = disk /\ disk[Place] = "whole"
    BY DEF Inv, PlacesFit, ListProgram, files
<1>7. PlacesFit'
    BY <1>1, <1>3, <1>6 DEF PlacesFit, ListProgram, Placed
<1>8. Whole(Current.id)'
    BY <1>1, <1>3, <1>6, CurrentIs DEF Whole, Place, Inv
<1>9. pc \notin {"forget", "write"}
    BY DEF ListProgram
<1> QED
    BY <1>1, <1>2, <1>4, <1>5, <1>6, <1>7, <1>8, <1>9, FileStep

LEMMA ReplaceOldKeeps == Inv /\ ReplaceOld => Inv'
<1> SUFFICES ASSUME Inv, ReplaceOld PROVE Inv'
    OBVIOUS
<1> USE DEF Goto
<1>1. AtChange /\ Current.op = "update"
    BY DEF Inv, StepsFit, AtChange, ReplaceOld
<1>2. Old \in Places /\ Place \in Places /\ Old # Place
    BY <1>1, UpdatedElsewhere DEF Inv
<1>3. \A p \in Places : p # Old => disk'[p] = disk[p]
    BY DEF ReplaceOld, Inv, TypeOK
<1>4. disk'[Place] = "whole"
    BY <1>2, <1>3 DEF Inv, PlacesFit, ReplaceOld
<1>5. GoesOn
  <2>1. OthersStay
    BY <1>3 DEF OthersStay, Old
  <2> QED
    BY <1>1, <2>1 DEF GoesOn, ReplaceOld
<1>6. Current' = Current /\ Place' = Place
    BY SameCurrent DEF ReplaceOld, asked
<1>7. TypeOK'
    BY DEF Inv, TypeOK, ReplaceOld, catalog, asked, Contents, Steps
<1>8. StepsFit'
    BY <1>1, <1>6 DEF Inv, StepsFit, AtChange, ReplaceOld, asked
<1>9. PlacesFit'
    BY <1>1, <1>4, <1>6 DEF PlacesFit, ReplaceOld
<1>10. Whole(Current.id)'
    BY <1>1, <1>4, <1>6, CurrentIs DEF Whole, Place, Inv
<1> QED
    BY <1>1, <1>5, <1>7, <1>8, <1>9, <1>10, FileStep DEF ReplaceOld

LEMMA ForgetOthersKeeps == Inv /\ ForgetOthers => Inv'
<1> SUFFICES ASSUME Inv, ForgetOthers PROVE Inv'
    OBVIOUS
<1> USE DEF Goto
<1>1. AtChange /\ Current.op = "update" /\ Place \in Places
    BY UpdatedElsewhere DEF Inv, StepsFit, AtChange, ForgetOthers
<1>2. Place \notin OtherVersions /\ \A p \in OtherVersions : p[1] = Current.id
    BY DEF OtherVersions, Place
<1>3. \A p \in Places : p \notin OtherVersions => disk'[p] = disk[p]
    BY DEF ForgetOthers
<1>4. disk'[Place] = "whole"
    BY <1>1, <1>2, <1>3 DEF Inv, PlacesFit, ForgetOthers
<1>5. GoesOn
  <2>1. OthersStay
    BY <1>2, <1>3 DEF OthersStay
  <2> QED
    BY <1>1, <2>1 DEF GoesOn, ForgetOthers
<1>6. Current' = Current /\ Place' = Place
    BY SameCurrent DEF ForgetOthers, asked
<1>7. TypeOK'
    BY DEF Inv, TypeOK, ForgetOthers, catalog, asked, Contents, Steps
<1>8. StepsFit'
    BY <1>6 DEF Inv, StepsFit, AtChange, ForgetOthers, asked
<1>9. PlacesFit'
    BY <1>1, <1>4, <1>6 DEF PlacesFit, ForgetOthers
<1>10. Whole(Current.id)'
    BY <1>1, <1>4, <1>6, CurrentIs DEF Whole, Place, Inv
<1> QED
    BY <1>1, <1>5, <1>7, <1>8, <1>9, <1>10, FileStep DEF ForgetOthers

(* A removal begun is one that was asked for: nothing is said of the item.    *)
LEMMA RemoveFilesKeeps == Inv /\ RemoveFiles => Inv'
<1> SUFFICES ASSUME Inv, RemoveFiles PROVE Inv'
    OBVIOUS
<1> USE DEF Goto
<1>1. AtChange /\ Current.op = "remove" /\ Old \in Places /\ Current.id \in Items
    BY CurrentIs DEF Inv, StepsFit, AtChange, RemoveFiles
<1>2. \A p \in Places : p # Old => disk'[p] = disk[p]
    BY DEF RemoveFiles, Inv, TypeOK
<1>3. disk'[Old] = "none"
    BY <1>1 DEF Inv, TypeOK, RemoveFiles
<1>4. GoesOn
  <2>1. OthersStay
    BY <1>2 DEF OthersStay, Old
  <2> QED
    BY <1>1, <2>1 DEF GoesOn, RemoveFiles
<1>5. Current' = Current /\ Place' = Place /\ Old' = Old
    BY SameCurrent DEF RemoveFiles, asked
<1>6. TypeOK'
    BY <1>1 DEF Inv, TypeOK, RemoveFiles, catalog, asked, Contents, Steps
<1>7. StepsFit'
    BY <1>1, <1>5 DEF Inv, StepsFit, AtChange, RemoveFiles, asked
<1>8. PlacesFit'
    BY <1>1, <1>3, <1>5 DEF PlacesFit, RemoveFiles
<1>9. \A i \in Items : ItemHolds(i)'
  <2>1. \A i \in Items : i = Current.id => i \in condemned'
    BY DEF RemoveFiles
  <2> QED
    BY <1>4, <2>1, GoingOn DEF ItemHolds
<1> QED
    BY <1>4, <1>6, <1>7, <1>8, <1>9, GoingOn DEF Inv, ItemsHold

-----------------------------------------------------------------------------
(* The record is written.                                                     *)

LEMMA RecordIsAfter ==
    ASSUME Inv, AtChange, stored' = RecordAfter
    PROVE  /\ stored' \in Seq(Records) /\ OneRecord'
           /\ \A i : i = Current.id =>
                 IF Current.op = "remove" THEN ~Recorded(i)'
                 ELSE Recorded(i)' /\ VersionOf(i)' = Current.to
           /\ \A i : i # Current.id =>
                 /\ Recorded(i)' <=> Recorded(i)
                 /\ Recorded(i) => VersionOf(i)' = VersionOf(i)
                 /\ \A v : HasRecord(i, v)' <=> HasRecord(i, v)
<1> DEFINE c == Current.id
           from == Current.from
           to == Current.to
           others == Without(stored, {Record(c, from), Record(c, to)})
<1>1. stored \in Seq(Records) /\ OneEach(stored)
    BY DEF Inv, TypeOK, OneRecord, OneEach
<1>2. /\ c \in Items /\ Current.op \in {"install", "update", "remove"}
      /\ Current.op # "remove" => to \in Versions
    BY CurrentIs DEF Inv, Fits
<1>3. \A k \in DOMAIN stored : stored[k].id = c => stored[k] = Record(c, from)
  <2> SUFFICES ASSUME NEW k \in DOMAIN stored, stored[k].id = c PROVE stored[k] = Record(c, from)
    OBVIOUS
  <2>1. Recorded(c)
    BY DEF Recorded
  <2>2. VersionOf(c) = from
    BY <1>2, <2>1, CurrentIs DEF Inv
  <2>3. HasRecord(c, from)
    BY <2>1, <2>2, RecordFacts DEF Inv
  <2>4. PICK l \in DOMAIN stored : stored[l] = Record(c, from)
    BY <2>3 DEF HasRecord
  <2>5. stored[l].id = c
    BY <2>4 DEF Record
  <2> QED
    BY <2>4, <2>5, <1>1 DEF OneEach
<1>4. /\ others \in Seq(Records) /\ OneEach(others)
      /\ \A k \in DOMAIN others : others[k].id # c
      /\ \A j, v : j # c => (In(others, Record(j, v)) <=> In(stored, Record(j, v)))
  <2> HIDE DEF c, from, to
  <2> QED
    BY <1>1, <1>3, ForgetIs
<1>5. stored' = IF Current.op = "remove" THEN others ELSE Append(others, Record(c, to))
    BY DEF RecordAfter
<1> HIDE DEF others, c, from, to
<1>6. /\ stored' \in Seq(Records) /\ OneEach(stored')
      /\ \A j, v : j # c => (In(stored', Record(j, v)) <=> In(stored, Record(j, v)))
      /\ IF Current.op = "remove" THEN \A k \in DOMAIN stored' : stored'[k].id # c
         ELSE In(stored', Record(c, to))
  <2>1. CASE Current.op = "remove"
    BY <2>1, <1>4, <1>5
  <2>2. CASE Current.op # "remove"
    <3> DEFINE more == Append(others, Record(c, to))
    <3>1. /\ more \in Seq(Records) /\ OneEach(more)
          /\ In(more, Record(c, to))
          /\ \A j, w : j # c => (In(more, Record(j, w)) <=> In(others, Record(j, w)))
        BY <2>2, <1>2, <1>4, PutIs
    <3>2. stored' = more
        BY <2>2, <1>5
    <3> QED
        BY <2>2, <3>1, <3>2, <1>4
  <2> QED
    BY <2>1, <2>2
<1>7. OneRecord'
    BY <1>6 DEF OneRecord, OneEach
<1>8. /\ \A i : Recorded(i)' <=> \E k \in DOMAIN stored' : stored'[k].id = i
      /\ \A i : Recorded(i) <=> \E k \in DOMAIN stored : stored[k].id = i
      /\ \A i : VersionOf(i)' = VersionIn(stored', i)
      /\ \A i : VersionOf(i) = VersionIn(stored, i)
      /\ \A i, v : HasRecord(i, v)' <=> In(stored', Record(i, v))
      /\ \A i, v : HasRecord(i, v) <=> In(stored, Record(i, v))
    BY DEF Recorded, VersionOf, VersionIn, IsFirst, HasRecord, In
<1>9. /\ \A i : Recorded(i) => In(stored, Record(i, VersionOf(i)))
      /\ \A i, v : In(stored, Record(i, v)) => Recorded(i) /\ VersionOf(i) = v
      /\ \A i : Recorded(i)' => In(stored', Record(i, VersionOf(i)'))
      /\ \A i, v : In(stored', Record(i, v)) => Recorded(i)' /\ VersionOf(i)' = v
    BY <1>1, <1>6, <1>8, InIs
<1>10. ASSUME NEW i, i # c
       PROVE  /\ Recorded(i)' <=> Recorded(i)
              /\ Recorded(i) => VersionOf(i)' = VersionOf(i)
              /\ \A v : HasRecord(i, v)' <=> HasRecord(i, v)
  <2>1. \A v : In(stored', Record(i, v)) <=> In(stored, Record(i, v))
    BY <1>6, <1>10
  <2> QED
    BY <2>1, <1>8, <1>9
<1>11. ASSUME NEW i, i = c
       PROVE  IF Current.op = "remove" THEN ~Recorded(i)'
              ELSE Recorded(i)' /\ VersionOf(i)' = to
  <2>1. CASE Current.op = "remove"
    BY <2>1, <1>6, <1>8, <1>11
  <2>2. CASE Current.op # "remove"
    BY <2>2, <1>6, <1>9, <1>11
  <2> QED
    BY <2>1, <2>2
<1> QED
    BY <1>6, <1>7, <1>10, <1>11 DEF c, to

(* What a selection has ahead of it is still right when a change of it is     *)
(* recorded: what was wanted is settled, what was not wanted is gone, and     *)
(* what comes after the change finds it there.                                *)
LEMMA AheadOfWrite ==
    ASSUME Inv, Write, goal.kind = "selection"
    PROVE  SelectionAhead'
<1> DEFINE c == Current.id
<1>1. AtChange /\ pc # "idle"
    BY DEF AtChange, Write
<1>2. /\ index \in DOMAIN plan /\ index \in Nat /\ index \in Ahead
      /\ Current.op \in {"install", "update", "remove"}
      /\ Current.op # "remove" => Current.to = published[c] /\ Current.to \in Versions
    BY <1>1, CurrentIs DEF Inv, Fits
<1>3. /\ \A i : i = c => IF Current.op = "remove" THEN ~Recorded(i)'
                         ELSE Recorded(i)' /\ VersionOf(i)' = Current.to
      /\ \A i : i # c => /\ Recorded(i)' <=> Recorded(i)
                         /\ Recorded(i) => VersionOf(i)' = VersionOf(i)
    BY <1>1, RecordIsAfter DEF Write
<1>4. SelectionAhead /\ goal.of \in Selections
    BY <1>1 DEF Inv, GoalAhead
<1>5. /\ UNCHANGED <<requires, system, published, goal, plan>>
      /\ index' = index + 1 /\ condemned' = condemned \ {c}
    BY DEF Write, catalog, asked
<1>6. /\ Ahead' = Ahead \ {index}
      /\ Ahead \subseteq DOMAIN plan
  <2>1. Len(plan) \in Nat /\ DOMAIN plan = 1 .. Len(plan) /\ index \in 1 .. Len(plan)
    BY <1>2 DEF Inv, TypeOK
  <2> QED
    BY <2>1, <1>5 DEF Ahead
<1>7. \A k \in Ahead : plan[k].id = c => k = index
    BY <1>2, <1>6 DEF Inv, PlanFits, Current
<1>8. c \in IF Current.op = "remove" THEN Components \ goal.of ELSE goal.of
    BY <1>2, <1>4 DEF SelectionAhead, Current
<1> HIDE DEF c
<1>9. \A k \in Ahead' : plan'[k].id \in IF plan'[k].op = "remove" THEN Components \ goal'.of
                                       ELSE goal'.of
    BY <1>4, <1>5, <1>6 DEF SelectionAhead
<1>10. ASSUME NEW i \in goal.of
       PROVE  Settled(i)' \/ \E k \in Ahead' : plan'[k].id = i
  <2>1. CASE i = c
    <3>1. Current.op # "remove"
        BY <2>1, <1>8
    <3>2. Recorded(i)' /\ VersionOf(i)' = published[i] /\ published[i] \in Nat
        BY <2>1, <3>1, <1>2, <1>3, InstallAssumption DEF Versions
    <3>3. (VersionOf(i) >= published[i])'
        BY <3>2, <1>5
    <3> QED
        BY <3>2, <3>3 DEF Settled
  <2>2. CASE i # c
    <3>1. Settled(i) \/ \E k \in Ahead : plan[k].id = i
        BY <1>4 DEF SelectionAhead
    <3>2. CASE Settled(i)
      <4>1. /\ Recorded(i)' <=> Recorded(i)
            /\ Recorded(i) => VersionOf(i)' = VersionOf(i)
            /\ i \in condemned' <=> i \in condemned
            /\ published' = published /\ system' = system
        BY <2>2, <1>3, <1>5
      <4> QED
        BY <3>2, <4>1 DEF Settled
    <3>3. CASE \E k \in Ahead : plan[k].id = i
      <4>1. PICK k \in Ahead : plan[k].id = i
        BY <3>3
      <4>2. k # index
        BY <2>2, <4>1 DEF c, Current
      <4> QED
        BY <4>1, <4>2, <1>5, <1>6
    <3> QED
        BY <3>1, <3>2, <3>3
  <2> QED
    BY <2>1, <2>2
<1>11. ASSUME NEW i \in Components \ goal.of, Recorded(i)'
       PROVE  \E k \in Ahead' : plan'[k].id = i
  <2>1. i # c
    BY <1>3, <1>8, <1>11
  <2>2. PICK k \in Ahead : plan[k].id = i
    BY <2>1, <1>3, <1>4, <1>11 DEF SelectionAhead
  <2>3. k # index
    BY <2>1, <2>2 DEF c, Current
  <2> QED
    BY <2>2, <2>3, <1>5, <1>6
<1>12. ASSUME NEW k \in Ahead', plan[k].op = "install", NEW r \in requires[plan[k].id]
       PROVE  published[r] = 0 \/ Present(r)' \/ ComesBefore(r, k)'
  <2>1. k \in Ahead /\ k # index
    BY <1>6
  <2>2. plan[k].id \in goal.of /\ r \in goal.of
    BY <2>1, <1>4, <1>12 DEF SelectionAhead, Selections
  <2>3. published[r] = 0 \/ Present(r) \/ ComesBefore(r, k)
    BY <2>1, <1>4, <1>12 DEF SelectionAhead
  <2>4. r = c => Recorded(r)'
    BY <2>2, <1>3, <1>8
  <2>5. CASE Present(r)
    <3>1. r # c => (Recorded(r)' <=> Recorded(r))
        BY <1>3
    <3> QED
        BY <2>4, <2>5, <3>1, <1>5 DEF Present
  <2>6. CASE ComesBefore(r, k)
    <3>1. PICK j \in index .. k - 1 : plan[j].id = r
        BY <2>6 DEF ComesBefore
    <3>2. CASE j = index
        BY <3>1, <3>2, <2>4 DEF Present, c, Current
    <3>3. CASE j # index
      <4>1. j \in index + 1 .. k - 1
        BY <3>1, <3>3, <1>2
      <4> QED
        BY <3>1, <4>1, <1>5 DEF ComesBefore
    <3> QED
        BY <3>2, <3>3
  <2> QED
    BY <2>3, <2>5, <2>6
<1> QED
    BY <1>5, <1>9, <1>10, <1>11, <1>12 DEF SelectionAhead

LEMMA DoneAfterWrite ==
    ASSUME Inv, Write
    PROVE  DoneStaysDone'
<1>1. AtChange /\ disk' = disk /\ plan' = plan /\ index' = index + 1
    BY DEF AtChange, Write, files, asked
<1>2. index \in DOMAIN plan /\ index \in Nat /\ Current \in Changes
    BY <1>1, CurrentIs DEF Inv
<1>3. /\ \A i : i = Current.id => IF Current.op = "remove" THEN ~Recorded(i)'
                                  ELSE Recorded(i)' /\ VersionOf(i)' = Current.to
      /\ \A i : i # Current.id => /\ Recorded(i)' <=> Recorded(i)
                                  /\ Recorded(i) => VersionOf(i)' = VersionOf(i)
      /\ stored' \in Seq(Records) /\ OneRecord'
    BY <1>1, RecordIsAfter DEF Write
<1>4. /\ \A i : \A k \in DOMAIN stored' : stored'[k].id = i =>
            Recorded(i)' /\ VersionOf(i)' = stored'[k].version
      /\ \A i : \A k \in DOMAIN stored : stored[k].id = i =>
            Recorded(i) /\ VersionOf(i) = stored[k].version
  <2>1. OneEach(stored') /\ OneEach(stored) /\ stored \in Seq(Records)
    BY <1>3 DEF OneEach, OneRecord, Inv, TypeOK
  <2>2. /\ \A k \in DOMAIN stored' : VersionIn(stored', stored'[k].id) = stored'[k].version
        /\ \A k \in DOMAIN stored : VersionIn(stored, stored[k].id) = stored[k].version
    <3>1. ASSUME NEW s \in Seq(Records), OneEach(s), NEW k \in DOMAIN s
          PROVE  VersionIn(s, s[k].id) = s[k].version
      <4>1. s[k] = Record(s[k].id, s[k].version)
        BY <3>1, InIs
      <4> QED
        BY <3>1, <4>1, InIs DEF In
    <3> QED
        BY <3>1, <2>1, <1>3
  <2>3. /\ \A i : VersionOf(i)' = VersionIn(stored', i)
        /\ \A i : VersionOf(i) = VersionIn(stored, i)
    BY DEF VersionOf, VersionIn, IsFirst
  <2> QED
    BY <2>2, <2>3 DEF Recorded
<1>5. SUFFICES ASSUME NEW k \in 1 .. index PROVE Done(plan[k])'
    BY <1>1, <1>2 DEF DoneStaysDone
<1>6. k \in DOMAIN plan
    BY <1>2 DEF Inv, TypeOK
<1>7. PICK c \in Changes : plan[k] = c /\ plan'[k] = c
    BY <1>1, <1>6 DEF Inv, TypeOK
<1>8. CASE k = index
  <2>1. c = Current
    BY <1>7, <1>8 DEF Current
  <2>2. IF c.op = "remove" THEN ~Recorded(c.id)'
        ELSE Recorded(c.id)' /\ VersionOf(c.id)' = c.to
    BY <2>1, <1>3
  <2>3. IF c.op = "remove" THEN disk[<<c.id, c.from>>] = "none"
        ELSE disk[<<c.id, c.to>>] = "whole"
    BY <2>1 DEF Inv, PlacesFit, Write, Old, Place
  <2>4. \A l \in DOMAIN stored' :
          stored'[l].id = c.id => c.op # "remove" /\ stored'[l].version = c.to
    BY <2>2, <1>4
  <2>5. Done(c)'
    BY <2>2, <2>3, <2>4, <1>1 DEF Done
  <2> QED
    BY <2>5, <1>7 DEF Done
<1>9. CASE k # index
  <2>1. Done(c) /\ c.id # Current.id
    BY <1>2, <1>6, <1>7, <1>9 DEF Inv, DoneStaysDone, PlanFits, Current
  <2>2. Recorded(c.id)' <=> Recorded(c.id)
    BY <2>1, <1>3
  <2>3. \A l \in DOMAIN stored' :
          stored'[l].id = c.id => c.op # "remove" /\ stored'[l].version = c.to
    <3> SUFFICES ASSUME NEW l \in DOMAIN stored', stored'[l].id = c.id
                 PROVE  c.op # "remove" /\ stored'[l].version = c.to
        OBVIOUS
    <3>1. Recorded(c.id)' /\ VersionOf(c.id)' = stored'[l].version
        BY <1>4
    <3>2. Recorded(c.id) /\ VersionOf(c.id) = stored'[l].version
        BY <3>1, <2>1, <1>3
    <3>3. PICK j \in DOMAIN stored : stored[j].id = c.id
        BY <3>2 DEF Recorded
    <3> QED
        BY <3>2, <3>3, <2>1, <1>4 DEF Done
  <2>4. Done(c)'
    BY <2>1, <2>2, <2>3, <1>1 DEF Done
  <2> QED
    BY <2>4, <1>7 DEF Done
<1> QED
    BY <1>8, <1>9

LEMMA WriteKeeps == Inv /\ Write => Inv'
<1> SUFFICES ASSUME Inv, Write PROVE Inv'
    OBVIOUS
<1> USE DEF Goto
<1>1. AtChange /\ pc # "idle" /\ pc' = "next"
    BY DEF AtChange, Write
<1>2. /\ index \in DOMAIN plan /\ index \in Nat /\ Current.id \in Items
      /\ Current.op \in {"install", "update", "remove"}
    BY <1>1, CurrentIs DEF Inv, Fits
<1>3. /\ stored' \in Seq(Records) /\ OneRecord'
      /\ \A i : i = Current.id => IF Current.op = "remove" THEN ~Recorded(i)'
                                  ELSE Recorded(i)' /\ VersionOf(i)' = Current.to
      /\ \A i : i # Current.id => /\ Recorded(i)' <=> Recorded(i)
                                  /\ Recorded(i) => VersionOf(i)' = VersionOf(i)
                                  /\ \A v : HasRecord(i, v)' <=> HasRecord(i, v)
    BY <1>1, RecordIsAfter DEF Write
<1>4. /\ UNCHANGED <<requires, system, published, disk, aside, staging, goal, plan, runs, cut>>
      /\ index' = index + 1 /\ condemned' = condemned \ {Current.id}
    BY DEF Write, catalog, asked, files
<1>5. /\ Len(plan) \in Nat /\ DOMAIN plan = 1 .. Len(plan)
      /\ Ahead' = Ahead \ {index} /\ Ahead \subseteq DOMAIN plan
  <2>1. Len(plan) \in Nat /\ DOMAIN plan = 1 .. Len(plan)
    BY DEF Inv, TypeOK
  <2> QED
    BY <2>1, <1>2, <1>4 DEF Ahead
<1>6. TypeOK'
  <2>1. index' \in 1 .. Len(plan') + 1
    BY <1>2, <1>4, <1>5
  <2>2. outcome' = outcome /\ pc' \in Steps
    BY DEF Write, Steps
  <2>3. condemned' \subseteq Items
    BY <1>4 DEF Inv, TypeOK
  <2> QED
    BY <2>1, <2>2, <2>3, <1>3, <1>4 DEF Inv, TypeOK
<1>7. CutsCounted'
    BY <1>1, <1>4 DEF Inv, CutsCounted
<1>8. PlanFits'
  <2>1. ASSUME NEW k \in Ahead' PROVE Fits(plan[k])'
    <3>1. k \in Ahead /\ k \in DOMAIN plan /\ k # index
        BY <1>5
    <3>2. PICK c : c = plan[k]
        OBVIOUS
    <3>3. Fits(c) /\ c.id # Current.id
        BY <3>1, <3>2, <1>1, <1>2 DEF Inv, PlanFits, Current
    <3>4. Fits(c)'
        BY <3>3, <1>3, <1>4 DEF Fits
    <3> QED
        BY <3>2, <3>4, <1>4 DEF Fits
  <2> QED
    BY <2>1, <1>4 DEF Inv, PlanFits
<1>9. StepsFit' /\ PlacesFit'
    BY <1>1 DEF StepsFit, PlacesFit, AtChange
<1>10. ASSUME NEW i \in Items PROVE ItemHolds(i)'
  <2>1. CASE i # Current.id
    <3>1. CutGrows
      <4>1. cut' = cut /\ cut \in [{"crashed", "failed", "cancelled"} -> Nat]
        BY <1>4, InstallAssumption DEF Inv, TypeOK
      <4> QED
        BY <4>1 DEF CutGrows
    <3>2. published'[i] = published[i] /\ published[i] \in Nat
        BY <1>4, InstallAssumption DEF Inv, TypeOK
    <3>3. ~Replaced(i) /\ ~InHand(i)
        BY <2>1 DEF Replaced, InHand
    <3>4. ItemHolds(i)
        BY DEF Inv, ItemsHold
    <3> QED
        BY <2>1, <3>1, <3>2, <3>3, <3>4, <1>3, <1>4, ItemStays DEF Inv
  <2>2. CASE i = Current.id /\ Current.op = "remove"
    BY <2>2, <1>3 DEF ItemHolds
  <2>3. CASE i = Current.id /\ Current.op # "remove"
    <3>1. disk[Place] = "whole" /\ Place = <<i, Current.to>> /\ Current.to \in Versions
        BY <2>3, <1>1, CurrentIs DEF Inv, PlacesFit, Place, Write
    <3>2. AsRecorded(i)'
        BY <2>3, <3>1, <1>3, <1>4 DEF AsRecorded
    <3>3. Whole(i)'
        BY <3>1, <1>4 DEF Whole
    <3> QED
        BY <3>2, <3>3 DEF ItemHolds
  <2> QED
    BY <2>1, <2>2, <2>3
<1>11. GoalAhead'
  <2>1. goal.kind = "selection" => goal.of \in Selections /\ SelectionAhead'
    BY <1>1, AheadOfWrite DEF Inv, GoalAhead
  <2>2. goal.kind # "selection" => OtherGoalAhead'
    BY <1>1, <1>4, <1>5 DEF Inv, GoalAhead, OtherGoalAhead
  <2> QED
    BY <2>1, <2>2, <1>4 DEF GoalAhead, Selections
<1>12. SelectionIsInstalled'
    BY <1>1 DEF SelectionIsInstalled, Completed
<1> QED
    BY <1>3, <1>6, <1>7, <1>8, <1>9, <1>10, <1>11, <1>12, DoneAfterWrite DEF Inv, ItemsHold

-----------------------------------------------------------------------------
(* Between the changes and between the runs.                                  *)

(* As long as no files change, what is there of each item stays.              *)
LEMMA ItemsStay ==
    ASSUME Inv, CutGrows, pc \in {"idle", "next"}, stored' = stored, disk' = disk,
           \A i \in Items : published'[i] \in Nat /\ published[i] <= published'[i],
           condemned \subseteq condemned'
    PROVE  ItemsHold'
<1>1. ASSUME NEW i \in Items PROVE ItemHolds(i)'
  <2>1. ItemHolds(i) /\ ~Replaced(i) /\ ~InHand(i)
    BY DEF Inv, ItemsHold, Replaced, InHand, AtChange
  <2>2. (Recorded(i)' <=> Recorded(i)) /\ VersionOf(i)' = VersionOf(i)
    BY DEF Recorded, VersionOf, IsFirst
  <2>3. \A v \in Versions : disk'[<<i, v>>] = disk[<<i, v>>]
    OBVIOUS
  <2> QED
    BY <2>1, <2>2, <2>3, ItemStays DEF Inv
<1> QED
    BY <1>1 DEF ItemsHold

LEMMA SameCuts ==
    ASSUME Inv, cut' = cut
    PROVE  CutGrows
<1>1. cut \in [{"crashed", "failed", "cancelled"} -> Nat]
    BY InstallAssumption DEF Inv, TypeOK
<1> QED
    BY <1>1 DEF CutGrows

LEMMA StartRunPlan ==
    ASSUME Inv, OrdersAreSound, StartRun
    PROVE  goal' \in Goals /\ Suits(plan', goal')
<1>1. TypeOK /\ OneRecord
    BY DEF Inv
<1>2. CASE \E S \in Selections : goal' = [kind |-> "selection", of |-> S]
  <2>1. PICK S \in Selections : goal' = [kind |-> "selection", of |-> S]
    BY <1>2
  <2>2. plan' = Derive(S)
    BY <2>1 DEF StartRun, PlanOf
  <2>3. S \in SUBSET Items
    BY DEF Selections, Items
  <2> QED
    BY <2>1, <2>2, <2>3, <1>1, SelectionPlan DEF Goals
<1>3. CASE \E i \in Programs : goal' = [kind |-> "program", of |-> {i}]
  <2>1. PICK i \in Programs : goal' = [kind |-> "program", of |-> {i}]
    BY <1>3
  <2>2. (CHOOSE j \in {i} : TRUE) = i
    OBVIOUS
  <2>3. plan' = DeriveItem(i)
    BY <2>1, <2>2 DEF StartRun, PlanOf
  <2>4. {i} \in SUBSET Items
    BY DEF Items
  <2> QED
    BY <2>1, <2>3, <2>4, <1>1, ProgramPlan DEF Goals
<1>4. CASE \E i \in Items : goal' = [kind |-> "removal", of |-> {i}]
  <2>1. PICK i \in Items : goal' = [kind |-> "removal", of |-> {i}]
    BY <1>4
  <2>2. plan' = RemovalsOf({i})
    BY <2>1 DEF StartRun, PlanOf
  <2> QED
    BY <2>1, <2>2, <1>1, RemovalPlan DEF Goals
<1> QED
    BY <1>2, <1>3, <1>4 DEF StartRun

LEMMA StartRunKeeps == Inv /\ OrdersAreSound /\ StartRun => Inv'
<1> SUFFICES ASSUME Inv, OrdersAreSound, StartRun PROVE Inv'
    OBVIOUS
<1>1. goal' \in Goals /\ Suits(plan', goal')
    BY StartRunPlan
<1>2. /\ UNCHANGED <<requires, system, published, stored, disk, aside, staging, cut, condemned>>
      /\ pc = "idle" /\ pc' = "next" /\ index' = 1 /\ runs' = runs + 1 /\ outcome' = "none"
      /\ runs < MaxRuns
    BY DEF StartRun, catalog, files
<1>3. plan' \in Seq(Changes) /\ Len(plan') \in Nat /\ DOMAIN plan' = 1 .. Len(plan')
      /\ Ahead' = DOMAIN plan'
  <2>1. plan' \in Seq(Changes)
    BY <1>1 DEF Suits
  <2> QED
    BY <2>1, <1>2 DEF Ahead
<1>4. runs \in Nat /\ runs' \in 0 .. MaxRuns
      /\ cut' \in [{"crashed", "failed", "cancelled"} -> 0 .. runs']
  <2>1. runs \in 0 .. MaxRuns /\ MaxRuns \in Nat
        /\ cut \in [{"crashed", "failed", "cancelled"} -> 0 .. runs]
    BY InstallAssumption DEF Inv, TypeOK
  <2>2. runs' \in 0 .. MaxRuns /\ 0 .. runs \subseteq 0 .. runs'
    BY <2>1, <1>2
  <2> QED
    BY <2>1, <2>2, <1>2
<1>5. TypeOK'
    BY <1>1, <1>2, <1>3, <1>4 DEF Inv, TypeOK, Steps
<1>6. OneRecord' /\ StepsFit' /\ PlacesFit' /\ SelectionIsInstalled'
    BY <1>2 DEF Inv, OneRecord, StepsFit, PlacesFit, AtChange, SelectionIsInstalled, Completed
<1>7. CutsCounted'
  <2>1. cut["crashed"] \in Nat /\ cut["failed"] \in Nat /\ cut["cancelled"] \in Nat
    BY InstallAssumption DEF Inv, TypeOK
  <2> QED
    BY <2>1, <1>2, <1>4 DEF Inv, CutsCounted
<1>8. \A i : /\ Recorded(i)' <=> Recorded(i)
             /\ VersionOf(i)' = VersionOf(i)
             /\ \A v : HasRecord(i, v)' <=> HasRecord(i, v)
    BY <1>2 DEF Recorded, VersionOf, IsFirst, HasRecord
<1>9. PlanFits'
  <2>1. \A k \in DOMAIN plan' : Fits(plan'[k])
    BY <1>1 DEF Suits
  <2>2. \A c : Fits(c) <=> Fits(c)'
    BY <1>2, <1>8 DEF Fits
  <2>3. ASSUME NEW k \in DOMAIN plan' PROVE Fits(plan[k])'
    <3>1. PICK c : c = plan'[k]
        OBVIOUS
    <3>2. Fits(c)'
        BY <3>1, <2>1, <2>2
    <3> QED
        BY <3>1, <3>2 DEF Fits
  <2>4. \A j, k \in DOMAIN plan' : plan'[j].id = plan'[k].id => j = k
    BY <1>1 DEF Suits
  <2> QED
    BY <2>3, <2>4, <1>3 DEF PlanFits
<1>10. ItemsHold'
  <2>1. \A i \in Items : published'[i] = published[i] /\ published[i] \in Nat
    BY <1>2, InstallAssumption DEF Inv, TypeOK
  <2> QED
    BY <2>1, <1>2, SameCuts, ItemsStay
<1>11. DoneStaysDone'
    BY <1>2 DEF DoneStaysDone
<1>12. GoalAhead'
  <2>1. CASE goal'.kind = "selection"
    <3>1. /\ goal'.of \in Selections
          /\ \A k \in DOMAIN plan' :
                plan'[k].id \in IF plan'[k].op = "remove" THEN Components \ goal'.of ELSE goal'.of
          /\ \A c \in goal'.of : Settled(c) \/ \E k \in DOMAIN plan' : plan'[k].id = c
          /\ \A c \in Components \ goal'.of :
                Recorded(c) => \E k \in DOMAIN plan' : plan'[k].id = c
          /\ \A k \in DOMAIN plan' : plan'[k].op = "install" =>
                \A r \in requires[plan'[k].id] :
                  published[r] = 0 \/ Present(r) \/ \E j \in 1 .. k - 1 : plan'[j].id = r
        BY <2>1, <1>1 DEF Suits
    <3>2. \A c : (Settled(c)' <=> Settled(c)) /\ (Present(c)' <=> Present(c))
        BY <1>2, <1>8 DEF Settled, Present
    <3>3. \A r, k : ComesBefore(r, k)' <=> \E j \in 1 .. k - 1 : plan'[j].id = r
        BY <1>2 DEF ComesBefore
    <3>4. SelectionAhead'
        BY <3>1, <3>2, <3>3, <1>2, <1>3, <1>8 DEF SelectionAhead
    <3>5. (goal.of \in Selections)'
        BY <3>1, <1>2 DEF Selections
    <3> QED
        BY <2>1, <3>4, <3>5 DEF GoalAhead
  <2>2. CASE goal'.kind # "selection"
    <3>1. OtherGoalAhead'
        BY <2>2, <1>1, <1>3 DEF Suits, OtherGoalAhead
    <3> QED
        BY <2>2, <3>1 DEF GoalAhead
  <2> QED
    BY <2>1, <2>2
<1> QED
    BY <1>5, <1>6, <1>7, <1>9, <1>10, <1>11, <1>12 DEF Inv

(* When a run has no change left, its selection is made.                      *)
LEMMA CompletedIsInstalled ==
    ASSUME Inv, pc = "next", index > Len(plan), goal.kind = "selection",
           NEW c \in Components
    PROVE  /\ c \in goal.of \ condemned /\ published[c] # 0 => InPlace(c)
           /\ Recorded(c) => c \in goal.of
<1>1. SelectionAhead /\ Ahead = {}
  <2>1. index \in Nat /\ Len(plan) \in Nat
    BY DEF Inv, TypeOK
  <2> QED
    BY <2>1 DEF Inv, GoalAhead, Ahead
<1>2. Recorded(c) => c \in goal.of
    BY <1>1 DEF SelectionAhead
<1>3. ASSUME c \in goal.of \ condemned, published[c] # 0 PROVE InPlace(c)
  <2>1. Settled(c)
    BY <1>1, <1>3 DEF SelectionAhead
  <2>2. ItemHolds(c)
    BY DEF Inv, ItemsHold, Items
  <2> QED
    BY <2>1, <2>2, <1>3 DEF Settled, ItemHolds, AsRecorded, InPlace
<1> QED
    BY <1>2, <1>3

LEMMA NextChangeKeeps == Inv /\ NextChange => Inv'
<1> SUFFICES ASSUME Inv, NextChange PROVE Inv'
    OBVIOUS
<1>1. /\ UNCHANGED <<requires, system, published, stored, disk, aside, staging, goal, plan,
                    index, runs, cut, condemned>>
      /\ pc = "next"
    BY DEF NextChange, catalog, files, asked
<1>2. /\ OneRecord' /\ PlanFits' /\ GoalAhead'
      /\ \A i : /\ Recorded(i)' <=> Recorded(i)
               /\ VersionOf(i)' = VersionOf(i)
    BY <1>1, RecordStays DEF Inv
<1>3. ItemsHold'
  <2>1. \A i \in Items : published'[i] = published[i] /\ published[i] \in Nat
    BY <1>1, InstallAssumption DEF Inv, TypeOK
  <2> QED
    BY <2>1, <1>1, SameCuts, ItemsStay
<1>4. DoneStaysDone'
    BY <1>1 DEF Inv, DoneStaysDone, Done, Recorded
<1>5. TypeOK'
    BY <1>1 DEF Inv, TypeOK, NextChange, Ends, Goto, Steps
<1>6. CutsCounted'
  <2>1. cut["crashed"] \in Nat /\ cut["failed"] \in Nat /\ cut["cancelled"] \in Nat /\ runs \in Nat
    BY InstallAssumption DEF Inv, TypeOK
  <2> QED
    BY <2>1, <1>1 DEF Inv, CutsCounted
<1>7. CASE index > Len(plan) /\ Ends("completed")
  <2>1. pc' = "idle"
    BY <1>7 DEF Ends
  <2>2. StepsFit' /\ PlacesFit'
    BY <2>1 DEF StepsFit, PlacesFit, AtChange
  <2>3. SelectionIsInstalled'
    <3>1. \A c : InPlace(c)' <=> InPlace(c)
        BY <1>1, <1>2 DEF InPlace
    <3>2. goal.kind = "selection" =>
            \A c \in Components :
              /\ c \in goal.of \ condemned /\ published[c] # 0 => InPlace(c)
              /\ Recorded(c) => c \in goal.of
        BY <1>1, <1>7, CompletedIsInstalled
    <3> QED
        BY <3>1, <3>2, <1>1, <1>2 DEF SelectionIsInstalled, Completed
  <2> QED
    BY <2>2, <2>3, <1>2, <1>3, <1>4, <1>5, <1>6 DEF Inv
<1>8. CASE /\ index <= Len(plan)
           /\ Goto(IF Current.op = "remove" THEN "remove"
                   ELSE IF Current.id \in Components THEN "unpack" ELSE "clear")
  <2>1. /\ pc' = IF Current.op = "remove" THEN "remove"
                 ELSE IF Current.id \in Components THEN "unpack" ELSE "clear"
    BY <1>8 DEF Goto
  <2>2. Current' = Current
    BY <1>1, SameCurrent
  <2>3. Current.id \in Items
    <3>1. index \in DOMAIN plan
        BY <1>8 DEF Inv, TypeOK
    <3>2. plan[index] \in Changes
        BY <3>1 DEF Inv, TypeOK
    <3> QED
        BY <3>2 DEF Changes, Current
  <2>4. StepsFit'
    BY <2>1, <2>2, <2>3, <1>1, <1>8 DEF StepsFit, AtChange, Items
  <2>5. PlacesFit'
    BY <2>1 DEF PlacesFit
  <2>6. SelectionIsInstalled'
    BY <2>1 DEF SelectionIsInstalled, Completed
  <2> QED
    BY <2>4, <2>5, <2>6, <1>2, <1>3, <1>4, <1>5, <1>6 DEF Inv
<1> QED
    BY <1>7, <1>8 DEF NextChange

LEMMA PublishKeeps == Inv /\ Publish => Inv'
<1> SUFFICES ASSUME Inv, Publish PROVE Inv'
    OBVIOUS
<1>1. /\ UNCHANGED <<requires, system, stored, disk, aside, staging, goal, plan,
                    index, runs, cut, condemned, pc>>
      /\ pc = "idle" /\ outcome' = "none"
    BY DEF Publish, files, asked
<1>2. PICK j \in Items : published[j] < MaxVersion /\ published' = [published EXCEPT ![j] = @ + 1]
    BY DEF Publish
<1>3. published \in [Items -> 0 .. MaxVersion] /\ MaxVersion \in Nat
    BY InstallAssumption DEF Inv, TypeOK
<1>4. /\ published' \in [Items -> 0 .. MaxVersion]
      /\ \A i \in Items : published'[i] \in Nat /\ published[i] <= published'[i]
  <2>1. published[j] + 1 \in 0 .. MaxVersion
    BY <1>2, <1>3
  <2> QED
    BY <2>1, <1>2, <1>3
<1>5. TypeOK'
    BY <1>1, <1>4 DEF Inv, TypeOK
<1>6. /\ OneRecord' /\ CutsCounted' /\ PlanFits' /\ StepsFit' /\ PlacesFit'
      /\ SelectionIsInstalled' /\ GoalAhead'
    BY <1>1 DEF Inv, OneRecord, CutsCounted, PlanFits, StepsFit, PlacesFit, AtChange,
                SelectionIsInstalled, Completed, GoalAhead, Selections
<1>7. DoneStaysDone'
    BY <1>1 DEF Inv, DoneStaysDone, Done, Recorded
<1>8. ItemsHold'
    BY <1>1, <1>4, SameCuts, ItemsStay
<1> QED
    BY <1>5, <1>6, <1>7, <1>8 DEF Inv

-----------------------------------------------------------------------------
(* A run is cut short.                                                        *)

LEMMA CutSurvivor ==
    ASSUME Inv, IsCut, NEW i, Survives(i)'
    PROVE  /\ Survives(i)
           /\ i \in Programs => Untroubled(i)
           /\ cut' = [cut EXCEPT !["crashed"] = @ + 1] => Untroubled(i)
<1>1. CutGrows
    BY CuttingShort
<1>2. Survives(i)
    BY <1>1, SurvivedBefore DEF Inv
<1>3. /\ cut \in [{"crashed", "failed", "cancelled"} -> Nat]
      /\ cut["crashed"] \in Nat /\ cut["failed"] \in Nat /\ cut["cancelled"] \in Nat
    BY InstallAssumption DEF Inv, TypeOK
<1>4. PICK how \in {"crashed", "failed", "cancelled"} : cut' = [cut EXCEPT ![how] = @ + 1]
    BY DEF IsCut
<1>5. /\ cut'["crashed"] = IF how = "crashed" THEN cut["crashed"] + 1 ELSE cut["crashed"]
      /\ cut'["failed"] = IF how = "failed" THEN cut["failed"] + 1 ELSE cut["failed"]
      /\ cut'["cancelled"] = IF how = "cancelled" THEN cut["cancelled"] + 1 ELSE cut["cancelled"]
    BY <1>3, <1>4
<1>6. \/ cut'["crashed"] + cut'["failed"] + cut'["cancelled"] <= 1
      \/ i \in Components /\ cut'["crashed"] = 0
      \/ i \in Components /\ cut'["crashed"] + cut'["failed"] <= 1
    BY DEF Survives
<1>7. \/ cut["crashed"] = 0 /\ cut["failed"] = 0 /\ cut["cancelled"] = 0
      \/ i \in Components
    BY <1>3, <1>4, <1>5, <1>6
<1>8. i \in Programs => Untroubled(i)
    BY <1>7, InstallAssumption DEF Untroubled
<1>9. cut' = [cut EXCEPT !["crashed"] = @ + 1] => Untroubled(i)
  <2> SUFFICES ASSUME cut' = [cut EXCEPT !["crashed"] = @ + 1] PROVE Untroubled(i)
    OBVIOUS
  <2>1. /\ cut'["crashed"] = cut["crashed"] + 1 /\ cut'["failed"] = cut["failed"]
        /\ cut'["cancelled"] = cut["cancelled"]
    BY <1>3
  <2>2. \/ cut["crashed"] = 0 /\ cut["failed"] = 0 /\ cut["cancelled"] = 0
        \/ i \in Components /\ cut["crashed"] = 0 /\ cut["failed"] = 0
    BY <2>1, <1>3, <1>6
  <2> QED
    BY <2>2 DEF Untroubled
<1> QED
    BY <1>2, <1>8, <1>9

LEMMA CutItem ==
    ASSUME Inv, IsCut, AtChange, NEW i, i = Current.id,
           i \in condemned' \/ Current.op # "remove" \/ disk' = disk,
           Untroubled(i)' => disk' = disk /\ pc \notin {"forget", "write"},
           Survives(i)' /\ Recorded(i) /\ i \notin condemned' => Whole(i)'
    PROVE  ItemHolds(i)'
<1> SUFFICES ASSUME Recorded(i)', (i \notin condemned)' PROVE ItemHolds(i)'
    BY DEF ItemHolds
<1>1. /\ Recorded(i) /\ VersionOf(i)' = VersionOf(i) /\ i \notin condemned
      /\ published' = published /\ CutGrows
    BY CuttingShort DEF IsCut, catalog
<1>2. ItemHolds(i) /\ i \in Items
    BY CurrentIs DEF Inv, ItemsHold
<1>3. (VersionOf(i) >= published[i])' => AsRecorded(i)'
  <2> SUFFICES ASSUME (VersionOf(i) >= published[i])' PROVE AsRecorded(i)'
    OBVIOUS
  <2>1. VersionOf(i) >= published[i]
    BY <1>1
  <2>2. Current.op # "install" /\ Current.op # "update"
    <3>1. Current.op = "update" => VersionOf(i) < published[i]
        BY CurrentIs DEF Inv
    <3>2. VersionOf(i) \in Nat /\ published[i] \in Nat
      <4>1. VersionOf(i) \in Versions
        BY <1>1, RecordFacts DEF Inv
      <4>2. published \in [Items -> 0 .. MaxVersion] /\ MaxVersion \in Nat
        BY InstallAssumption DEF Inv, TypeOK
      <4> QED
        BY <4>1, <4>2, <1>2 DEF Versions
    <3> QED
        BY <2>1, <3>1, <3>2, <1>1, CurrentIs DEF Inv
  <2>3. Current.op = "remove"
    BY <2>2, CurrentIs DEF Inv, Fits
  <2>4. disk' = disk
    BY <2>3
  <2> QED
    BY <2>1, <2>4, <1>1, <1>2 DEF ItemHolds, AsRecorded
<1>4. Untroubled(i)' => AsRecorded(i)'
  <2> SUFFICES ASSUME Untroubled(i)' PROVE AsRecorded(i)'
    OBVIOUS
  <2>1. Untroubled(i)
    BY <1>1, SurvivedBefore DEF Inv
  <2>2. ~Replaced(i) /\ disk' = disk
    BY DEF Replaced
  <2> QED
    BY <2>1, <2>2, <1>1, <1>2 DEF ItemHolds, AsRecorded
<1> QED
    BY <1>1, <1>3, <1>4 DEF ItemHolds

LEMMA CutKeeps ==
    ASSUME Inv, IsCut,
           disk' \in [Places -> Contents], aside' \in [Places -> Contents],
           staging' \in [Places -> Contents], condemned' \subseteq Items,
           outcome' \in {"crashed", "failed", "cancelled"},
           \/ pc = "next" /\ disk' = disk
           \/ AtChange /\ OthersStay /\ \A i : i = Current.id => ItemHolds(i)'
    PROVE  Inv'
<1>1. /\ CutGrows /\ CutsCounted'
      /\ cut' \in [{"crashed", "failed", "cancelled"} -> 0 .. runs']
      /\ OneRecord' /\ PlanFits' /\ GoalAhead' /\ StepsFit' /\ PlacesFit'
      /\ SelectionIsInstalled'
      /\ \A i : /\ Recorded(i)' <=> Recorded(i)
               /\ VersionOf(i)' = VersionOf(i)
    BY CuttingShort
<1>2. /\ UNCHANGED <<requires, system, published, stored, goal, plan, index, runs>>
      /\ pc' = "idle" /\ condemned \subseteq condemned'
    BY DEF IsCut, catalog, asked
<1>3. TypeOK'
    BY <1>1, <1>2 DEF Inv, TypeOK, Steps
<1>4. \A i \in Items : published'[i] \in Nat /\ published[i] <= published'[i]
    BY <1>2, InstallAssumption DEF Inv, TypeOK
<1>5. DoneStaysDone'
  <2>1. CASE disk' = disk
    BY <2>1, <1>2 DEF Inv, DoneStaysDone, Done, Recorded
  <2>2. CASE AtChange /\ OthersStay
    BY <2>2, <1>2, DoneStays DEF Inv
  <2> QED
    BY <2>1, <2>2
<1>6. ItemsHold'
  <2>1. CASE pc = "next" /\ disk' = disk
    BY <2>1, <1>1, <1>2, <1>4, ItemsStay
  <2>2. CASE AtChange /\ OthersStay /\ \A i : i = Current.id => ItemHolds(i)'
    <3>1. ASSUME NEW i \in Items, i # Current.id PROVE ItemHolds(i)'
      <4>1. ItemHolds(i) /\ ~Replaced(i) /\ ~InHand(i)
        BY <3>1 DEF Inv, ItemsHold, Replaced, InHand
      <4>2. \A v \in Versions : disk'[<<i, v>>] = disk[<<i, v>>]
        BY <2>2, <3>1 DEF OthersStay, Places
      <4> QED
        BY <4>1, <4>2, <1>1, <1>2, <1>4, ItemStays DEF Inv
    <3> QED
        BY <2>2, <3>1 DEF ItemsHold
  <2> QED
    BY <2>1, <2>2
<1> QED
    BY <1>1, <1>3, <1>5, <1>6 DEF Inv

(* What a torn step has done to the files.                                    *)
LEMMA TornFiles ==
    ASSUME Inv, pc # "idle", Torn
    PROVE  /\ disk' \in [Places -> Contents] /\ aside' \in [Places -> Contents]
           /\ staging' \in [Places -> Contents]
           /\ condemned \subseteq condemned' /\ condemned' \subseteq Items
           /\ ~AtChange => disk' = disk
           /\ AtChange => /\ OthersStay
                          /\ Current.op = "remove" =>
                                Current.id \in condemned' \/ disk' = disk
<1>1. /\ disk \in [Places -> Contents] /\ aside \in [Places -> Contents]
      /\ staging \in [Places -> Contents] /\ condemned \subseteq Items
    BY DEF Inv, TypeOK
<1>2. CASE UNCHANGED <<files, condemned>>
    BY <1>1, <1>2 DEF files, OthersStay
<1>3. CASE /\ pc = "unpack"
           /\ staging' = [staging EXCEPT ![Place] = "part"]
           /\ UNCHANGED <<disk, aside, condemned>>
    BY <1>1, <1>3 DEF OthersStay, Contents
<1>4. CASE /\ pc = "clear_aside"
           /\ aside' = [aside EXCEPT ![Place] = "part"]
           /\ UNCHANGED <<disk, staging, condemned>>
    BY <1>1, <1>4 DEF OthersStay, Contents
<1>5. ASSUME NEW places, \A p \in places : p[1] = Current.id, Tears(places)
      PROVE  /\ disk' \in [Places -> Contents] /\ aside' = aside /\ staging' = staging
             /\ OthersStay
  <2>1. PICK p \in places : disk' = [disk EXCEPT ![p] = "part"] /\ UNCHANGED <<aside, staging>>
    BY <1>5 DEF Tears
  <2>2. p[1] = Current.id
    BY <1>5
  <2> QED
    BY <2>1, <2>2, <1>1 DEF OthersStay, Contents
<1>6. /\ \A p \in {Place} : p[1] = Current.id
      /\ \A p \in {Old} : p[1] = Current.id
      /\ \A p \in OtherVersions : p[1] = Current.id
    BY DEF Place, Old, OtherVersions
<1>7. CASE pc \in {"clear", "fill"} /\ Tears({Place}) /\ UNCHANGED condemned
    BY <1>1, <1>5, <1>6, <1>7 DEF AtChange, Inv, StepsFit
<1>8. CASE pc = "replace" /\ Tears({Old}) /\ UNCHANGED condemned
    BY <1>1, <1>5, <1>6, <1>8 DEF AtChange, Inv, StepsFit
<1>9. CASE pc = "forget" /\ Tears(OtherVersions) /\ UNCHANGED condemned
    BY <1>1, <1>5, <1>6, <1>9 DEF AtChange, Inv, StepsFit
<1>10. CASE /\ pc = "remove"
            /\ Tears({Old})
            /\ condemned' = condemned \cup {Current.id}
  <2>1. AtChange
    BY <1>10 DEF AtChange
  <2>2. Current.id \in Items
    BY <2>1, CurrentIs DEF Inv
  <2> QED
    BY <1>1, <1>5, <1>6, <1>10, <2>1, <2>2
<1> QED
    BY <1>2, <1>3, <1>4, <1>7, <1>8, <1>9, <1>10 DEF Torn

(* What there was of the current item is still there, if it survives.         *)
LEMMA TornWhole ==
    ASSUME Inv, IsCut, AtChange, Torn, NEW i, i = Current.id,
           pc = "move" => cut' = [cut EXCEPT !["crashed"] = @ + 1],
           Survives(i)', Recorded(i), i \notin condemned'
    PROVE  Whole(i)'
<1>1. /\ Survives(i)
      /\ i \in Programs => Untroubled(i)
      /\ pc = "move" => Untroubled(i)
    BY CutSurvivor
<1>2. ItemHolds(i) /\ i \notin condemned /\ i \in Items
    BY CurrentIs DEF Inv, ItemsHold, IsCut
<1>3. /\ Whole(i) \/ InHand(i)
      /\ Untroubled(i) => AsRecorded(i) \/ Replaced(i)
    BY <1>1, <1>2 DEF ItemHolds
<1>4. VersionOf(i) \in Versions
    BY RecordFacts DEF Inv
<1>5. CASE disk' = disk
  <2>1. CASE Whole(i)
    BY <2>1, <1>5 DEF Whole
  <2>2. CASE InHand(i)
    <3>1. pc \in {"fill", "move"}
        BY <2>2 DEF InHand
    <3>2. Untroubled(i)
        BY <3>1, <1>1 DEF Inv, StepsFit
    <3>3. AsRecorded(i)
        BY <3>1, <3>2, <1>3 DEF Replaced
    <3> QED
        BY <3>3, <1>4, <1>5 DEF AsRecorded, Whole
  <2> QED
    BY <2>1, <2>2, <1>3
<1>6. Current.op # "remove" => Current.op = "update"
    BY CurrentIs DEF Inv, Fits
<1>7. CASE pc \in {"clear", "fill"} /\ Tears({Place})
  <2>1. Current.op = "update" /\ i \in Programs
    BY <1>6, <1>7 DEF Inv, StepsFit
  <2>2. /\ Old # Place /\ Old \in Places /\ Old = <<i, VersionOf(i)>>
    BY <2>1, UpdatedElsewhere DEF Inv
  <2>3. disk[Old] = "whole"
    BY <2>1, <2>2, <1>1, <1>3, <1>7 DEF AsRecorded, Replaced
  <2>4. disk'[Old] = "whole"
    BY <2>2, <2>3, <1>7 DEF Tears, Inv, TypeOK
  <2> QED
    BY <2>2, <2>4, <1>4 DEF Whole
<1>8. ASSUME NEW places, Tears(places), Place \notin places, pc \in {"replace", "forget"}
      PROVE  Whole(i)'
  <2>1. Current.op = "update" /\ disk[Place] = "whole"
    BY <1>8 DEF Inv, StepsFit, PlacesFit
  <2>2. Place = <<i, Current.to>> /\ Current.to \in Versions /\ Place \in Places
    BY <2>1, CurrentIs DEF Inv, Place
  <2>3. disk'[Place] = "whole"
    BY <2>1, <2>2, <1>8 DEF Tears, Inv, TypeOK
  <2> QED
    BY <2>2, <2>3 DEF Whole
<1>9. CASE pc = "replace" /\ Tears({Old})
  <2>1. Current.op = "update"
    BY <1>9 DEF Inv, StepsFit
  <2>2. Place \notin {Old}
    BY <2>1, UpdatedElsewhere DEF Inv
  <2> QED
    BY <2>2, <1>8, <1>9
<1>10. CASE pc = "forget" /\ Tears(OtherVersions)
  <2>1. Place \notin OtherVersions
    BY DEF Place, OtherVersions
  <2> QED
    BY <2>1, <1>8, <1>10
<1>11. \/ disk' = disk
       \/ pc \in {"clear", "fill"} /\ Tears({Place})
       \/ pc = "replace" /\ Tears({Old})
       \/ pc = "forget" /\ Tears(OtherVersions)
    BY DEF Torn, files
<1> QED
    BY <1>5, <1>7, <1>9, <1>10, <1>11

LEMMA CrashKeeps == Inv /\ Crash => Inv'
<1> SUFFICES ASSUME Inv, Crash PROVE Inv'
    OBVIOUS
<1>1. pc # "idle" /\ Torn /\ pc' = "idle" /\ outcome' = "crashed"
      /\ cut' = [cut EXCEPT !["crashed"] = @ + 1]
    BY DEF Crash, CutShort, Ends
<1>2. /\ disk' \in [Places -> Contents] /\ aside' \in [Places -> Contents]
      /\ staging' \in [Places -> Contents]
      /\ condemned \subseteq condemned' /\ condemned' \subseteq Items
      /\ ~AtChange => disk' = disk
      /\ AtChange => /\ OthersStay
                     /\ Current.op = "remove" => Current.id \in condemned' \/ disk' = disk
    BY <1>1, TornFiles
<1>3. IsCut
    BY <1>1, <1>2 DEF IsCut, Crash, CutShort
<1>4. ASSUME AtChange, NEW i, i = Current.id PROVE ItemHolds(i)'
  <2>1. ~Untroubled(i)'
    BY <1>1, InstallAssumption DEF Inv, TypeOK, Untroubled
  <2>2. Survives(i)' /\ Recorded(i) /\ i \notin condemned' => Whole(i)'
    BY <1>1, <1>3, <1>4, TornWhole
  <2> QED
    BY <2>1, <2>2, <1>2, <1>3, <1>4, CutItem
<1>5. AtChange \/ pc = "next"
    BY <1>1 DEF AtChange
<1> QED
    BY <1>1, <1>2, <1>3, <1>4, <1>5, CutKeeps DEF AtChange

LEMMA FailKeeps == Inv /\ Fail => Inv'
<1> SUFFICES ASSUME Inv, Fail PROVE Inv'
    OBVIOUS
<1>1. pc # "idle" /\ pc' = "idle" /\ outcome' = "failed"
      /\ cut' = [cut EXCEPT !["failed"] = @ + 1]
    BY DEF Fail, CutShort, Ends
<1>2. \A i : ~Untroubled(i)'
    BY <1>1, InstallAssumption DEF Inv, TypeOK, Untroubled
<1>3. AtChange \/ pc = "next"
    BY <1>1 DEF AtChange
<1>4. CASE pc # "move"
  <2>1. Torn
    BY <1>4 DEF Fail
  <2>2. /\ disk' \in [Places -> Contents] /\ aside' \in [Places -> Contents]
        /\ staging' \in [Places -> Contents]
        /\ condemned \subseteq condemned' /\ condemned' \subseteq Items
        /\ ~AtChange => disk' = disk
        /\ AtChange => /\ OthersStay
                       /\ Current.op = "remove" => Current.id \in condemned' \/ disk' = disk
    BY <1>1, <2>1, TornFiles
  <2>3. IsCut
    BY <1>1, <2>2 DEF IsCut, Fail, CutShort
  <2>4. ASSUME AtChange, NEW i, i = Current.id PROVE ItemHolds(i)'
    <3>1. Survives(i)' /\ Recorded(i) /\ i \notin condemned' => Whole(i)'
        BY <1>4, <2>1, <2>3, <2>4, TornWhole
    <3> QED
        BY <3>1, <1>2, <2>2, <2>3, <2>4, CutItem
  <2> QED
    BY <1>1, <1>3, <2>2, <2>3, <2>4, CutKeeps DEF AtChange
<1>5. CASE pc = "move"
  <2>1. /\ disk' = [disk EXCEPT ![Place] = aside[Place]]
        /\ aside' = [aside EXCEPT ![Place] = "none"]
        /\ UNCHANGED <<staging, condemned>>
    BY <1>5 DEF Fail, PutBack
  <2>2. AtChange /\ Current.op # "remove" /\ Place \in Places /\ Place[1] = Current.id
    BY <1>5, CurrentIs DEF AtChange, Inv, StepsFit, Place
  <2>3. /\ disk' \in [Places -> Contents] /\ aside' \in [Places -> Contents]
        /\ staging' \in [Places -> Contents] /\ condemned' \subseteq Items
    BY <2>1, <2>2 DEF Inv, TypeOK, Contents
  <2>4. /\ \A p \in Places : p # Place => disk'[p] = disk[p]
        /\ disk'[Place] = aside[Place]
    BY <2>1, <2>2 DEF Inv, TypeOK
  <2>5. OthersStay
    BY <2>2, <2>4 DEF OthersStay
  <2>6. IsCut
    BY <1>1, <2>1 DEF IsCut, Fail, CutShort
  <2>7. ASSUME NEW i, i = Current.id PROVE ItemHolds(i)'
    <3>1. ASSUME Survives(i)', Recorded(i), i \notin condemned' PROVE Whole(i)'
      <4>1. Whole(i) \/ InHand(i)
        <5>1. Survives(i)
            BY <2>6, <3>1, CutSurvivor
        <5>2. ItemHolds(i) /\ i \notin condemned
            BY <2>1, <2>2, <2>7, <3>1, CurrentIs DEF Inv, ItemsHold
        <5> QED
            BY <3>1, <5>1, <5>2 DEF ItemHolds
      <4>2. CASE InHand(i)
        <5>1. disk'[Place] = "whole"
            BY <1>5, <2>4, <4>2 DEF InHand
        <5>2. Place = <<i, Current.to>> /\ Current.to \in Versions
            BY <2>2, <2>7, CurrentIs DEF Inv, Place
        <5> QED
            BY <5>1, <5>2 DEF Whole
      <4>3. CASE Whole(i)
        <5>1. PICK v \in Versions : disk[<<i, v>>] = "whole"
            BY <4>3 DEF Whole
        <5>2. disk[Place] = "none"
            BY <1>5 DEF Inv, PlacesFit
        <5>3. <<i, v>> \in Places
            BY <2>2, <2>7, CurrentIs DEF Inv, Places
        <5> QED
            BY <2>4, <5>1, <5>2, <5>3 DEF Whole
      <4> QED
        BY <4>1, <4>2, <4>3
    <3> QED
        BY <3>1, <1>2, <2>2, <2>6, <2>7, CutItem
  <2> QED
    BY <1>1, <2>2, <2>3, <2>5, <2>6, <2>7, CutKeeps
<1> QED
    BY <1>4, <1>5

LEMMA CancelKeeps == Inv /\ Cancel => Inv'
<1> SUFFICES ASSUME Inv, Cancel PROVE Inv'
    OBVIOUS
<1>1. /\ pc \in {"next", "unpack", "clear", "fill", "list", "replace", "remove"}
      /\ pc \in {"replace", "remove"} => Current.id \in Programs
    BY DEF Cancel, CancelPoints
<1>2. pc' = "idle" /\ outcome' = "cancelled" /\ cut' = [cut EXCEPT !["cancelled"] = @ + 1]
    BY DEF Cancel, CutShort, Ends
<1>3. Torn
    BY DEF Cancel, Torn
<1>4. /\ disk' \in [Places -> Contents] /\ aside' \in [Places -> Contents]
      /\ staging' \in [Places -> Contents]
      /\ condemned \subseteq condemned' /\ condemned' \subseteq Items
      /\ ~AtChange => disk' = disk
      /\ AtChange => /\ OthersStay
                     /\ Current.op = "remove" => Current.id \in condemned' \/ disk' = disk
    BY <1>1, <1>3, TornFiles
<1>5. IsCut
    BY <1>1, <1>2, <1>4 DEF IsCut, Cancel, CutShort
<1>6. ASSUME AtChange, NEW i, i = Current.id PROVE ItemHolds(i)'
  <2>1. Untroubled(i)' => disk' = disk /\ pc \notin {"forget", "write"}
    <3>1. CASE pc = "unpack"
        BY <3>1, <1>3 DEF Torn, files
    <3>2. CASE pc # "unpack"
      <4>1. i \in Programs /\ i \notin Components
        BY <3>2, <1>1, <1>6, InstallAssumption DEF AtChange, Inv, StepsFit
      <4>2. cut'["cancelled"] # 0
        BY <1>2, InstallAssumption DEF Inv, TypeOK
      <4> QED
        BY <4>1, <4>2 DEF Untroubled
    <3> QED
        BY <3>1, <3>2
  <2>2. Survives(i)' /\ Recorded(i) /\ i \notin condemned' => Whole(i)'
    BY <1>1, <1>3, <1>5, <1>6, TornWhole
  <2> QED
    BY <2>1, <2>2, <1>4, <1>5, <1>6, CutItem
<1> QED
    BY <1>1, <1>2, <1>4, <1>5, <1>6, CutKeeps DEF AtChange

-----------------------------------------------------------------------------
(* The theorems.                                                              *)

LEMMA InitHolds == Init => Inv
<1> SUFFICES ASSUME Init PROVE Inv
    OBVIOUS
<1>1. PICK managed \in SUBSET Items :
        /\ stored = [k \in DOMAIN Sorted(managed) |-> Record(Sorted(managed)[k], 1)]
        /\ disk = [p \in Places |-> IF p[1] \in managed /\ p[2] = 1 THEN "whole" ELSE "none"]
    BY DEF Init
<1> DEFINE ids == Sorted(managed)
<1>2. /\ ids \in [1 .. Cardinality(managed) -> managed]
      /\ \A j, k \in DOMAIN ids : j < k => ids[j] < ids[k]
      /\ stored = [k \in DOMAIN ids |-> Record(ids[k], 1)]
  <2>1. managed \in SUBSET Nat /\ IsFiniteSet(managed)
    BY InstallAssumption, FS_Subset
  <2>2. InOrder(ids, managed)
    BY <2>1, SortedLists
  <2> QED
    BY <2>2, <1>1 DEF InOrder
<1> HIDE DEF ids
<1>3. Cardinality(managed) \in Nat
    BY InstallAssumption, FS_Subset, FS_CardinalityType
<1> DEFINE n == Cardinality(managed)
<1> HIDE DEF n
<1>4. /\ DOMAIN ids = 1 .. n /\ n \in Nat /\ DOMAIN stored = 1 .. n
      /\ \A k \in 1 .. n : ids[k] \in managed /\ ids[k] \in Items /\ ids[k] \in Nat
    BY <1>2, <1>3, InstallAssumption DEF n
<1>5. 1 \in Versions /\ Versions \subseteq Nat
    BY InstallAssumption DEF Versions
<1>6. \A k \in 1 .. n : /\ stored[k] = Record(ids[k], 1) /\ stored[k].id = ids[k]
                       /\ stored[k].version = 1 /\ stored[k] \in Records
    BY <1>2, <1>4, <1>5 DEF Record, Records
<1>7. stored \in Seq(Records)
  <2>1. stored \in [1 .. n -> Records]
    BY <1>2, <1>4, <1>6
  <2> QED
    BY <2>1, <1>4
<1>8. OneRecord
  <2>1. \A j, k \in 1 .. n : ids[j] = ids[k] => j = k
    <3> SUFFICES ASSUME NEW j \in 1 .. n, NEW k \in 1 .. n, ids[j] = ids[k] PROVE j = k
        OBVIOUS
    <3>1. ids[j] \in Nat /\ ids[k] \in Nat /\ j \in Nat /\ k \in Nat
        BY <1>4
    <3>2. ~(j < k) /\ ~(k < j)
        BY <1>2, <1>4, <3>1
    <3> QED
        BY <3>1, <3>2
  <2> QED
    BY <2>1, <1>4, <1>6 DEF OneRecord
<1>9. TypeOK
  <2>1. disk \in [Places -> Contents]
    BY <1>1 DEF Contents
  <2>2. goal \in Goals /\ plan \in Seq(Changes) /\ index \in 1 .. Len(plan) + 1
    BY DEF Init, Goals
  <2>3. runs \in 0 .. MaxRuns /\ cut \in [{"crashed", "failed", "cancelled"} -> 0 .. runs]
    BY InstallAssumption DEF Init
  <2> QED
    BY <1>7, <2>1, <2>2, <2>3 DEF Init, TypeOK, Contents, Steps
<1>10. CutsCounted /\ PlanFits /\ StepsFit /\ PlacesFit /\ GoalAhead /\ DoneStaysDone
       /\ SelectionIsInstalled
    BY DEF Init, CutsCounted, PlanFits, StepsFit, AtChange, PlacesFit, GoalAhead,
           DoneStaysDone, SelectionIsInstalled, Completed
<1>11. ASSUME NEW i \in Items, Recorded(i) PROVE ItemHolds(i)
  <2>1. PICK k \in 1 .. n : ids[k] = i
    BY <1>4, <1>6, <1>11 DEF Recorded
  <2>2. HasRecord(i, 1)
    BY <2>1, <1>4, <1>6 DEF HasRecord
  <2>3. VersionOf(i) = 1
    BY <2>2, <1>8, <1>9, RecordFacts
  <2>4. <<i, 1>> \in Places /\ i \in managed
    BY <2>1, <1>4, <1>5 DEF Places
  <2>5. disk[<<i, 1>>] = "whole"
    BY <2>4, <1>1
  <2> QED
    BY <2>3, <2>5, <1>5 DEF ItemHolds, AsRecorded, Whole
<1>12. ItemsHold
    BY <1>11 DEF ItemsHold, ItemHolds
<1> QED
    BY <1>8, <1>9, <1>10, <1>12 DEF Inv

LEMMA StutterKeeps == Inv /\ UNCHANGED vars => Inv'
<1> SUFFICES ASSUME Inv, UNCHANGED vars PROVE Inv'
    OBVIOUS
<1>1. /\ UNCHANGED <<requires, system, published, stored, disk, aside, staging, goal, plan, runs>>
      /\ UNCHANGED <<index, pc, outcome, cut, condemned>>
    BY DEF vars, catalog, files, asked
<1>2. Current' = Current /\ Place' = Place /\ Old' = Old
    BY <1>1, SameCurrent
<1>3. /\ OneRecord' /\ PlanFits' /\ GoalAhead'
      /\ \A i : /\ Recorded(i)' <=> Recorded(i)
               /\ VersionOf(i)' = VersionOf(i)
    BY <1>1, RecordStays DEF Inv
<1>4. TypeOK' /\ CutsCounted'
    BY <1>1 DEF Inv, TypeOK, CutsCounted
<1>5. StepsFit' /\ PlacesFit'
    BY <1>1, <1>2 DEF Inv, StepsFit, PlacesFit, AtChange
<1>6. DoneStaysDone'
    BY <1>1 DEF Inv, DoneStaysDone, Done, Recorded
<1>7. SelectionIsInstalled'
    BY <1>1, <1>3 DEF Inv, SelectionIsInstalled, Completed, InPlace
<1>8. ItemsHold'
  <2> SUFFICES ASSUME NEW i \in Items PROVE ItemHolds(i)'
    BY DEF ItemsHold
  <2>1. AsRecorded(i)' <=> AsRecorded(i)
    BY <1>1, <1>3 DEF AsRecorded
  <2>2. Whole(i)' <=> Whole(i)
    BY <1>1 DEF Whole
  <2>3. (Untroubled(i)' <=> Untroubled(i)) /\ (Survives(i)' <=> Survives(i))
    BY <1>1 DEF Untroubled, Survives
  <2>4. (Replaced(i)' <=> Replaced(i)) /\ (InHand(i)' <=> InHand(i))
    BY <1>1, <1>2 DEF Replaced, InHand, AtChange
  <2>5. ItemHolds(i)
    BY DEF Inv, ItemsHold
  <2> QED
    BY <1>1, <1>3, <2>1, <2>2, <2>3, <2>4, <2>5 DEF ItemHolds
<1> QED
    BY <1>3, <1>4, <1>5, <1>6, <1>7, <1>8 DEF Inv

LEMMA StepKeeps ==
    ASSUME Inv, OrdersAreSound, [Next]_vars
    PROVE  Inv'
<1>1. CASE UNCHANGED vars
    BY <1>1, StutterKeeps
<1>2. CASE StartRun
    BY <1>2, StartRunKeeps
<1>3. CASE Step
    BY <1>3, NextChangeKeeps, UnpackKeeps, ClearAsideKeeps, SetAsideKeeps, MoveKeeps,
       DropAsideKeeps, ClearPlaceKeeps, FillKeeps, ListProgramKeeps, ReplaceOldKeeps,
       ForgetOthersKeeps, RemoveFilesKeeps, WriteKeeps DEF Step
<1>4. CASE Fail
    BY <1>4, FailKeeps
<1>5. CASE Cancel
    BY <1>5, CancelKeeps
<1>6. CASE Crash
    BY <1>6, CrashKeeps
<1>7. CASE Publish
    BY <1>7, PublishKeeps
<1> QED
    BY <1>1, <1>2, <1>3, <1>4, <1>5, <1>6, <1>7 DEF Next, Finished

(* What requires what never changes, and no catalog has a cycle: so the order  *)
(* of a selection's components is always one (dependency_order).              *)
THEOREM OrdersStaySound == Spec => []OrdersAreSound
<1>1. Init => OrdersAreSound
    BY OrderIsSound DEF Init
<1>2. ASSUME OrdersAreSound, [Next]_vars PROVE OrdersAreSound'
  <2>1. requires' = requires
    BY <1>2 DEF Next, StartRun, Step, NextChange, Unpack, ClearAside, SetAside, Move, DropAside,
       ClearPlace, Fill, ListProgram, ReplaceOld, ForgetOthers, RemoveFiles, Write,
       Fail, Cancel, Crash, CutShort, Publish, Finished, vars, catalog
  <2> QED
    BY <1>2, <2>1 DEF OrdersAreSound, Selections, IsOrder, DependencyOrder
<1> QED
    BY <1>1, <1>2, PTL DEF Spec

(* Every run keeps the invariant, whatever it is asked for and wherever it    *)
(* ends.                                                                      *)
THEOREM InvHolds == Spec => []Inv
<1>1. Init => Inv
    BY InitHolds
<1>2. Inv /\ OrdersAreSound /\ [Next]_vars => Inv'
    BY StepKeeps
<1> QED
    BY <1>1, <1>2, OrdersStaySound, PTL DEF Spec

(* Every variable has its type: in particular the record is a sequence of      *)
(* records of the installer's items, the plan one of changes of them, and no  *)
(* more runs are cut short than were started.                                 *)
THEOREM TypeCorrect == Spec => []TypeOK
<1>1. Inv => TypeOK
    BY DEF Inv
<1> QED
    BY <1>1, InvHolds, PTL

(* An installed item that nobody asked to remove is there in some version     *)
(* whenever no run is under way: components after any number of failed and    *)
(* cancelled runs, programs after one (DiskFiles, "A promotion keeps the old  *)
(* folder until the new one is in place").                                    *)
THEOREM InstalledStaysThere == Spec => []StillThere
<1>1. Inv => StillThere
  <2> SUFFICES ASSUME Inv, pc = "idle", NEW i \in Items \ condemned, Recorded(i), Survives(i)
               PROVE  \E v \in Versions : disk[<<i, v>>] = "whole"
    BY DEF StillThere
  <2>1. ItemHolds(i) /\ ~InHand(i)
    BY DEF Inv, ItemsHold, InHand, AtChange
  <2> QED
    BY <2>1 DEF ItemHolds, Whole
<1> QED
    BY <1>1, InvHolds, PTL

(* A selection's run that completes has made the selection true, up to what a *)
(* cut-short removal has left on record (for_selection).                      *)
THEOREM SelectionGetsInstalled == Spec => []SelectionIsInstalled
<1>1. Inv => SelectionIsInstalled
    BY DEF Inv
<1> QED
    BY <1>1, InvHolds, PTL

(* Only writing the record puts anything on record, and it puts a component    *)
(* there after what it requires.                                              *)
LEMMA RequiredFirst ==
    ASSUME Inv, [Next]_vars, NEW c \in Components, ~Recorded(c), Recorded(c)',
           NEW r \in requires[c], published[r] # 0
    PROVE  Present(r)'
<1>1. Write
  <2>1. stored' # stored
    BY DEF Recorded
  <2> QED
    BY <2>1 DEF Next, StartRun, Step, NextChange, Unpack, ClearAside, SetAside, Move, DropAside,
       ClearPlace, Fill, ListProgram, ReplaceOld, ForgetOthers, RemoveFiles,
       Fail, Cancel, Crash, CutShort, Publish, Finished, vars
<1>2. AtChange /\ pc # "idle" /\ system' = system
    BY <1>1 DEF AtChange, Write, catalog
<1>3. /\ \A i : i = Current.id => IF Current.op = "remove" THEN ~Recorded(i)'
                                  ELSE Recorded(i)' /\ VersionOf(i)' = Current.to
      /\ \A i : i # Current.id => (Recorded(i)' <=> Recorded(i))
    BY <1>1, <1>2, RecordIsAfter DEF Write
<1>4. c = Current.id /\ Current.op # "remove"
    BY <1>3
<1>5. Current.op = "install" /\ index \in Ahead /\ index \in Nat
    BY <1>2, <1>4, CurrentIs DEF Inv, Fits
<1>6. goal.kind = "selection"
  <2>1. c \notin Programs
    BY InstallAssumption
  <2> QED
    BY <2>1, <1>2, <1>4, <1>5 DEF Inv, GoalAhead, OtherGoalAhead, Current
<1>7. SelectionAhead /\ goal.of \in Selections
    BY <1>2, <1>6 DEF Inv, GoalAhead
<1>8. Present(r)
  <2>1. Present(r) \/ ComesBefore(r, index)
    BY <1>4, <1>5, <1>7 DEF SelectionAhead, Current
  <2>2. ~ComesBefore(r, index)
    BY <1>5 DEF ComesBefore
  <2> QED
    BY <2>1, <2>2
<1>9. CASE r = Current.id
    BY <1>3, <1>4, <1>9 DEF Present
<1>10. CASE r # Current.id
    BY <1>2, <1>3, <1>8, <1>10 DEF Present
<1> QED
    BY <1>9, <1>10

(* The record is true: what a run did before it stopped is done and recorded,  *)
(* and nothing is recorded before what it requires (Installer::apply, derive).*)
THEOREM RecordStaysTrue == Spec => RecordIsTrue
<1>1. Inv /\ OrdersAreSound => TypeOK /\ DoneStaysDone /\ (runs = 0 => OrdersAreSound)
    BY DEF Inv
<1>2. Inv /\ [Next]_vars =>
        [\A c \in Components :
            ~Recorded(c) /\ Recorded(c)' =>
              \A r \in requires[c] : published[r] # 0 => Present(r)']_vars
    BY RequiredFirst
<1> QED
    BY <1>1, <1>2, OrdersStaySound, InvHolds, PTL DEF Spec, RecordIsTrue, RequirementsFirst

=============================================================================
