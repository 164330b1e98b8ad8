--------------------------- MODULE RoutingProofs ----------------------------
(***************************************************************************)
(* The safety of Routing for every set of nodes and streams and any number *)
(* of changes.                                                             *)
(***************************************************************************)
EXTENDS Routing, FiniteSetTheorems, TLAPS

\* The provers that a step tries, in this order, and the seconds each may take.
USE ZenonT(5), SMTT(30), SMTT(40), SMTT(50), ZenonT(60)

(* Sorting.                                                                *)

\* R orders S strictly and totally.
TotalOn(R, S) ==
    /\ \A a \in S : <<a, a>> \notin R
    /\ \A a, b, c \in S : <<a, b>> \in R /\ <<b, c>> \in R => <<a, c>> \in R
    /\ \A a, b \in S : a = b \/ <<a, b>> \in R \/ <<b, a>> \in R

\* The elements of S, in the order R.
Sorts(s, R, S) ==
    /\ s \in [1..Cardinality(S) -> S]
    /\ \A i, j \in 1..Cardinality(S) : i < j => <<s[i], s[j]>> \in R

\* Among subsets of a finite set there is one that has no other of them within it.
LEMMA Smallest ==
    ASSUME NEW S, IsFiniteSet(S), NEW C \in SUBSET (SUBSET S), C # {}
    PROVE  \E T \in C : \A U \in C : U \subseteq T => U = T
<1>1. IsWellFoundedOn(StrictSubsetOrdering(S), SUBSET S)
  BY FS_StrictSubsetOrderingWellFounded, FS_FiniteSubsetsOfFinite
<1>2. PICK T \in C : \A U \in C : <<U, T>> \notin StrictSubsetOrdering(S)
  BY <1>1, WFMin
<1>3. \A U \in C : U \subseteq T => U = T
  BY <1>2 DEF StrictSubsetOrdering
<1> QED BY <1>3

\* A part of a set is ordered as the set is.
LEMMA PartTotal ==
    ASSUME NEW S, NEW R, TotalOn(R, S), NEW T \in SUBSET S
    PROVE  TotalOn(R, T)
BY DEF TotalOn

\* The last element of a finite set.
LEMMA Last ==
    ASSUME NEW S, IsFiniteSet(S), S # {}, NEW R, TotalOn(R, S)
    PROVE  \E m \in S : \A a \in S : a # m => <<a, m>> \in R
<1> DEFINE HasLast(T) == \E m \in T : \A a \in T : a # m => <<a, m>> \in R
           C == {T \in SUBSET S : T # {} /\ ~HasLast(T)}
<1> SUFFICES ASSUME C # {} PROVE FALSE
  OBVIOUS
<1>1. PICK T \in C : \A U \in C : U \subseteq T => U = T
  <2>1. C \in SUBSET (SUBSET S)
    OBVIOUS
  <2> HIDE DEF C
  <2> QED BY <2>1, Smallest
<1>2. T # {} /\ T \subseteq S /\ ~HasLast(T)
  BY <1>1
<1>3. PICK x \in T : TRUE
  BY <1>2
<1> DEFINE U == T \ {x}
<1>4. CASE U = {}
  BY <1>2, <1>3, <1>4
<1>5. CASE U # {}
  <2>1. U \in SUBSET S /\ U # T /\ U \subseteq T
    BY <1>2, <1>3
  <2>2. HasLast(U)
    BY <1>1, <1>5, <2>1
  <2>3. PICK y \in U : \A a \in U : a # y => <<a, y>> \in R
    BY <2>2
  <2>4. x \in S /\ y \in S /\ x # y /\ TotalOn(R, S)
    BY <1>2, <1>3, <2>3
  <2>5. CASE <<x, y>> \in R
    <3>1. \A a \in T : a # y => <<a, y>> \in R
      BY <2>3, <2>5
    <3> QED BY <1>2, <2>3, <3>1
  <2>6. CASE <<y, x>> \in R
    <3>1. \A a \in T : a # x => <<a, x>> \in R
      BY <1>2, <2>3, <2>4, <2>6 DEF TotalOn
    <3> QED BY <1>2, <1>3, <3>1
  <2> QED BY <2>4, <2>5, <2>6 DEF TotalOn
<1> QED BY <1>4, <1>5

\* A finite set can be sorted.
LEMMA Sortable ==
    ASSUME NEW S, IsFiniteSet(S), NEW R, TotalOn(R, S)
    PROVE  \E s : Sorts(s, R, S)
<1> DEFINE C == {T \in SUBSET S : ~\E s : Sorts(s, R, T)}
<1> SUFFICES ASSUME C # {} PROVE FALSE
  OBVIOUS
<1>1. PICK T \in C : \A U \in C : U \subseteq T => U = T
  <2>1. C \in SUBSET (SUBSET S)
    OBVIOUS
  <2> HIDE DEF C
  <2> QED BY <2>1, Smallest
<1>2. T \subseteq S /\ ~\E s : Sorts(s, R, T)
  BY <1>1
<1>3. CASE T = {}
  <2>1. Cardinality(T) = 0 /\ 1..0 = {}
    BY <1>3, FS_EmptySet
  <2>2. Sorts([i \in 1..0 |-> i], R, T)
    BY <1>3, <2>1 DEF Sorts
  <2> QED BY <1>2, <2>2
<1>4. CASE T # {}
  <2>1. IsFiniteSet(T) /\ TotalOn(R, T)
    BY <1>2, FS_Subset, PartTotal
  <2>2. PICK m \in T : \A a \in T : a # m => <<a, m>> \in R
    BY <1>4, <2>1, Last
  <2>3. PICK U : U = T \ {m}
    OBVIOUS
  <2>4. PICK n : n = Cardinality(T)
    OBVIOUS
  <2>5. n \in Nat /\ n # 0 /\ Cardinality(U) = n - 1
    BY <1>4, <2>1, <2>3, <2>4, FS_CardinalityType, FS_EmptySet, FS_RemoveElement
  <2>6. U \notin C /\ U \in SUBSET S
    BY <1>1, <1>2, <2>2, <2>3
  <2>7. PICK f : Sorts(f, R, U)
    BY <2>6
  <2>8. /\ f \in [1..(n - 1) -> U]
        /\ \A i, j \in 1..(n - 1) : i < j => <<f[i], f[j]>> \in R
    BY <2>5, <2>7 DEF Sorts
  <2> DEFINE s == [i \in 1..n |-> IF i = n THEN m ELSE f[i]]
  <2>9. \A i \in 1..n : i # n => i \in 1..(n - 1)
    BY <2>5
  <2>10. s \in [1..n -> T]
    BY <2>2, <2>3, <2>8, <2>9
  <2>11. ASSUME NEW i \in 1..n, NEW j \in 1..n, i < j PROVE <<s[i], s[j]>> \in R
    <3>1. i # n /\ i \in 1..(n - 1)
      BY <2>5, <2>11
    <3>2. s[i] = f[i] /\ f[i] \in U
      BY <2>8, <3>1
    <3>3. CASE j = n
      BY <2>2, <2>3, <3>2, <3>3
    <3>4. CASE j # n
      BY <2>8, <2>9, <2>11, <3>1, <3>2, <3>4
    <3> QED BY <3>3, <3>4
  <2>12. Sorts(s, R, T)
    BY <2>4, <2>10, <2>11 DEF Sorts
  <2> QED BY <1>2, <2>12
<1> QED BY <1>3, <1>4

\* What Candidates is given: a load for every node, known or zero.
LoadsOf(loads) == \A n \in Node : LoadOf(loads, n) \in [errors : Nat, streams : Nat]

\* The order of remote instances, field by field.
Lower(e, s, a, b) ==
    \/ e[a] < e[b]
    \/ e[a] = e[b] /\ s[a] < s[b]
    \/ e[a] = e[b] /\ s[a] = s[b] /\ a < b

LEMMA BeforeIs ==
    ASSUME NEW loads, LoadsOf(loads)
    PROVE  \E e, s \in [Node -> Nat] :
              /\ \A n \in Node : e[n] = LoadOf(loads, n).errors /\ s[n] = LoadOf(loads, n).streams
              /\ \A a, b \in Node : Before(loads, a, b) <=> Lower(e, s, a, b)
<1> DEFINE e == [n \in Node |-> LoadOf(loads, n).errors]
           s == [n \in Node |-> LoadOf(loads, n).streams]
<1>1. e \in [Node -> Nat] /\ s \in [Node -> Nat]
  BY DEF LoadsOf
<1>2. ASSUME NEW a \in Node, NEW b \in Node
      PROVE  Before(loads, a, b) <=> Lower(e, s, a, b)
  <2>1. PICK x \in [errors : Nat, streams : Nat] : x = LoadOf(loads, a)
    BY DEF LoadsOf
  <2>2. PICK y \in [errors : Nat, streams : Nat] : y = LoadOf(loads, b)
    BY DEF LoadsOf
  <2>3. x = y <=> x.errors = y.errors /\ x.streams = y.streams
    OBVIOUS
  <2>4. e[a] = x.errors /\ e[b] = y.errors /\ s[a] = x.streams /\ s[b] = y.streams
    BY <2>1, <2>2
  <2> QED BY <2>1, <2>2, <2>3, <2>4 DEF Before, Lower
<1> QED BY <1>1, <1>2

\* It is a strict order of all the instances.
LEMMA BeforeTotal ==
    ASSUME NEW loads, LoadsOf(loads), NEW S \in SUBSET Node
    PROVE  TotalOn({p \in S \X S : Before(loads, p[1], p[2])}, S)
<1>1. PICK R : R = {p \in S \X S : Before(loads, p[1], p[2])}
  OBVIOUS
<1>2. PICK e \in [Node -> Nat], s \in [Node -> Nat] :
        \A a, b \in Node : Before(loads, a, b) <=> Lower(e, s, a, b)
  BY BeforeIs
<1>3. \A a, b \in S : <<a, b>> \in R <=> Lower(e, s, a, b)
  BY <1>1, <1>2
<1>4. \A a \in Node : a \in Nat /\ e[a] \in Nat /\ s[a] \in Nat
  BY RoutingAssumption
<1>5. \A a \in Node : ~Lower(e, s, a, a)
  BY <1>4 DEF Lower
<1>6. \A a, b, c \in Node : Lower(e, s, a, b) /\ Lower(e, s, b, c) => Lower(e, s, a, c)
  BY <1>4 DEF Lower
<1>7. \A a, b \in Node : a = b \/ Lower(e, s, a, b) \/ Lower(e, s, b, a)
  BY <1>4 DEF Lower
<1>8. TotalOn(R, S)
  BY <1>3, <1>5, <1>6, <1>7 DEF TotalOn
<1> QED BY <1>1, <1>8

\* A list of n elements: each of S once, after those that come before it.
Lists(s, n, S, R) ==
    /\ n \in Nat /\ s \in [1..n -> S]
    /\ \A x \in S : \E i \in 1..n : s[i] = x
    /\ \A i, j \in 1..n : i < j => s[i] # s[j] /\ <<s[i], s[j]>> \in R

\* Package sort puts all elements in their order.
LEMMA SliceIs ==
    ASSUME NEW S, IsFiniteSet(S), NEW R, TotalOn(R, S)
    PROVE  \E n : Lists(Slice(S, R), n, S, R)
<1>1. PICK n : n = Cardinality(S)
  OBVIOUS
<1>2. n \in Nat
  BY <1>1, FS_CardinalityType
<1>3. PICK f : Sorts(f, R, S)
  BY Sortable
<1>4. f \in [1..n -> S] /\ \A i, j \in 1..n : i < j => <<f[i], f[j]>> \in R
  BY <1>1, <1>3 DEF Sorts
<1>5. \A i, j \in 1..n : i < j => f[i] # f[j] /\ <<f[j], f[i]>> \notin R
  BY <1>4 DEF TotalOn
<1>6. \A i, j \in 1..n : i # j => i < j \/ j < i
  BY <1>2
<1>7. f \in Arrangements(S)
  BY <1>1, <1>4, <1>5, <1>6 DEF Arrangements
<1>8. PICK s : s = Slice(S, R)
  OBVIOUS
<1>9. s \in Arrangements(S) /\ \A i, j \in 1..n : i < j => <<s[j], s[i]>> \notin R
  BY <1>1, <1>5, <1>7, <1>8 DEF Slice
<1>10. s \in [1..n -> S] /\ \A i, j \in 1..n : i # j => s[i] # s[j]
  BY <1>1, <1>9 DEF Arrangements
<1>11. \A i, j \in 1..n : i < j => s[i] # s[j] /\ <<s[i], s[j]>> \in R
  <2>1. \A i, j \in 1..n : i < j => i # j
    BY <1>2
  <2> QED BY <1>9, <1>10, <2>1 DEF TotalOn
<1>12. s \in Injection(1..n, S)
  BY <1>10 DEF Injection, IsInjective
<1>13. Cardinality(1..n) = n
  BY <1>2, FS_Interval
<1>14. s \in Surjection(1..n, S)
  BY <1>1, <1>12, <1>13, FS_Injection
<1>15. \A x \in S : \E i \in 1..n : s[i] = x
  BY <1>14 DEF Surjection
<1> QED BY <1>2, <1>8, <1>10, <1>11, <1>15 DEF Lists

LEMMA ListedAll ==
    ASSUME NEW s, NEW n, NEW S, NEW R, Lists(s, n, S, R)
    PROVE  Len(s) = n /\ Listed(s) = S /\ n \in Nat
<1>1. n \in Nat /\ s \in [1..n -> S] /\ \A x \in S : \E i \in 1..n : s[i] = x
  BY DEF Lists
<1>2. Len(s) = n
  BY <1>1
<1>3. {s[i] : i \in 1..n} = S
  BY <1>1
<1> QED BY <1>1, <1>2, <1>3 DEF Listed

\* The first sort: the instances are in the order of their nodes.
LEMMA SortedByNode ==
    ASSUME NEW S \in SUBSET Node
    PROVE  \A a, b \in S : <<a, b>> \in AsIn(Slice(S, ByNode(S))) <=> a < b
<1>1. IsFiniteSet(S) /\ \A a \in S : a \in Nat
  BY RoutingAssumption, FS_Subset
<1>2. \A a, b \in S : <<a, b>> \in ByNode(S) <=> a < b
  BY DEF ByNode
<1>3. PICK R : R = ByNode(S)
  OBVIOUS
<1>4. \A a, b \in S : <<a, b>> \in R <=> a < b
  BY <1>2, <1>3
<1>5. TotalOn(R, S)
  <2>1. \A a, b, c \in S : a < b /\ b < c => a < c
    BY <1>1
  <2>2. \A a, b \in S : ~(a < a) /\ (a = b \/ a < b \/ b < a)
    BY <1>1
  <2> QED BY <1>4, <2>1, <2>2 DEF TotalOn
<1>6. PICK s, n : s = Slice(S, R) /\ Lists(s, n, S, R)
  BY <1>1, <1>5, SliceIs
<1>7. Len(s) = n /\ Listed(s) = S /\ n \in Nat
  BY <1>6, ListedAll
<1>8. \A i, j \in 1..n : i < j => s[i] < s[j]
  BY <1>4, <1>6 DEF Lists
<1>9. ASSUME NEW a \in S, NEW b \in S PROVE <<a, b>> \in AsIn(s) <=> a < b
  <2>1. <<a, b>> \in AsIn(s) <=> \E i, j \in 1..n : i < j /\ a = s[i] /\ b = s[j]
    BY <1>7 DEF AsIn
  <2>2. ASSUME a < b PROVE \E i, j \in 1..n : i < j /\ a = s[i] /\ b = s[j]
    <3>1. PICK i \in 1..n, j \in 1..n : a = s[i] /\ b = s[j]
      BY <1>6 DEF Lists
    <3>2. i = j \/ i < j \/ j < i
      BY <1>7
    <3>3. i # j /\ ~(j < i)
      BY <1>1, <1>8, <2>2, <3>1
    <3> QED BY <3>1, <3>2, <3>3
  <2> QED BY <1>8, <2>1, <2>2
<1> QED BY <1>3, <1>6, <1>9

\* The instances on connected peers, sorted once or twice.
Remote(services, seen, loads) ==
    LET sorted == Slice(services, ByNode(services))
        remote == Slice((services \cap seen) \ {Edge}, AsIn(sorted))
    IN  IF DOMAIN loads # {} /\ Len(remote) > 1
          THEN Slice(Listed(remote), ByLoad(loads, Listed(remote)))
          ELSE remote

\* Whether the second sort is needed or not, they are in the order of loads.
LEMMA RemoteIs ==
    ASSUME NEW loads, LoadsOf(loads), NEW services \in SUBSET Node, NEW seen \in SUBSET Peer,
           NEW S, S = (services \cap seen) \ {Edge}
    PROVE  \E n : Lists(Remote(services, seen, loads), n, S, ByLoad(loads, S))
<1>1. S \in SUBSET Node /\ S \in SUBSET services /\ IsFiniteSet(S) /\ \A a \in S : a \in Nat
  BY RoutingAssumption, FS_Subset
<1>2. PICK R : R = AsIn(Slice(services, ByNode(services)))
  OBVIOUS
<1>3. \A a, b \in S : <<a, b>> \in R <=> a < b
  BY <1>1, <1>2, SortedByNode
<1>4. TotalOn(R, S)
  <2>1. \A a, b, c \in S : a < b /\ b < c => a < c
    BY <1>1
  <2>2. \A a, b \in S : ~(a < a) /\ (a = b \/ a < b \/ b < a)
    BY <1>1
  <2> QED BY <1>3, <2>1, <2>2 DEF TotalOn
<1>5. PICK r, n : r = Slice(S, R) /\ Lists(r, n, S, R)
  BY <1>1, <1>4, SliceIs
<1>6. Len(r) = n /\ Listed(r) = S /\ n \in Nat
  BY <1>5, ListedAll
<1>7. Remote(services, seen, loads) =
        IF DOMAIN loads # {} /\ n > 1 THEN Slice(S, ByLoad(loads, S)) ELSE r
  BY <1>2, <1>5, <1>6 DEF Remote
<1>8. PICK L : L = ByLoad(loads, S)
  OBVIOUS
<1>9. TotalOn(L, S) /\ \A a, b \in S : <<a, b>> \in L <=> Before(loads, a, b)
  BY <1>1, <1>8, BeforeTotal DEF ByLoad
<1>10. CASE DOMAIN loads # {} /\ n > 1
  BY <1>1, <1>7, <1>8, <1>9, <1>10, SliceIs
<1>11. CASE ~(DOMAIN loads # {} /\ n > 1)
  <2>1. r = Remote(services, seen, loads)
    BY <1>7, <1>11
  <2>2. ASSUME NEW i \in 1..n, NEW j \in 1..n, i < j PROVE r[i] # r[j] /\ <<r[i], r[j]>> \in L
    <3>1. r[i] \in S /\ r[j] \in S /\ r[i] # r[j] /\ r[i] < r[j]
      BY <1>3, <1>5, <2>2 DEF Lists
    <3>2. n > 1
      BY <1>6, <2>2
    <3>3. DOMAIN loads = {}
      BY <1>11, <3>2
    <3>4. LoadOf(loads, r[i]) = LoadOf(loads, r[j])
      BY <3>3 DEF LoadOf
    <3> QED BY <1>9, <3>1, <3>4 DEF Before
  <2>3. Lists(r, n, S, L)
    BY <1>5, <2>2 DEF Lists
  <2> QED BY <1>8, <2>1, <2>3
<1> QED BY <1>10, <1>11

\* Nothing is in an empty list.
LEMMA ListedNone == Listed(<<>>) = {}
<1>1. 1..Len(<<>>) = {}
  OBVIOUS
<1> QED BY <1>1 DEF Listed

\* Candidates: every routable instance is listed once, the local one first, and the
\* others in their order.
LEMMA CandidatesAre ==
    ASSUME NEW loads, LoadsOf(loads), NEW services \in SUBSET Node, NEW seen \in SUBSET Peer
    PROVE  \E c : /\ c = Candidates(services, Edge, seen, loads) /\ c \in Seq(Node)
                  /\ Listed(c) = services \cap (seen \cup {Edge})
                  /\ \A i, j \in 1..Len(c) : i < j =>
                        /\ c[i] # c[j] /\ c[j] # Edge
                        /\ c[i] = Edge \/ Before(loads, c[i], c[j])
<1>1. PICK S \in SUBSET Node : S = (services \cap seen) \ {Edge}
  OBVIOUS
<1>0. PICK s, n : s = Remote(services, seen, loads) /\ Lists(s, n, S, ByLoad(loads, S))
  BY <1>1, RemoteIs
<1>2. /\ s = Remote(services, seen, loads) /\ n \in Nat /\ s \in [1..n -> S]
      /\ \A x \in S : \E i \in 1..n : s[i] = x
      /\ \A i, j \in 1..n : i < j => s[i] # s[j] /\ Before(loads, s[i], s[j])
  BY <1>0 DEF Lists, ByLoad
<1>3. s \in Seq(Node) /\ Len(s) = n /\ \A i \in 1..n : s[i] \in S
  BY <1>2
<1>4. \A x \in S : x \in services /\ x \in seen /\ x # Edge
  BY <1>1
<1>5. Edge \notin seen /\ Edge \in Node
  BY RoutingAssumption DEF Peer
<1>6. CASE Edge \in services
  <2>1. PICK c : c = <<Edge>> \o s
    OBVIOUS
  <2>2. c = Candidates(services, Edge, seen, loads)
    BY <1>2, <1>6, <2>1 DEF Candidates, Remote
  <2>3. c \in Seq(Node) /\ Len(c) = n + 1 /\ c[1] = Edge
    BY <1>2, <1>3, <1>5, <2>1
  <2>4. \A i \in 1..n : c[i + 1] = s[i]
    BY <1>2, <1>3, <2>1
  <2>5. \A i \in 1..(n + 1) : i = 1 \/ (i - 1 \in 1..n /\ c[i] = s[i - 1])
    BY <1>2, <2>4
  <2>6. {c[i] : i \in 1..(n + 1)} = services \cap (seen \cup {Edge})
    <3>1. \A i \in 1..(n + 1) : c[i] \in services \cap (seen \cup {Edge})
      BY <1>3, <1>4, <1>6, <2>3, <2>5
    <3>2. ASSUME NEW x \in services \cap (seen \cup {Edge})
          PROVE  \E i \in 1..(n + 1) : c[i] = x
      <4>1. CASE x = Edge
        BY <1>2, <2>3, <4>1
      <4>2. CASE x # Edge
        <5>1. PICK i \in 1..n : s[i] = x
          BY <1>1, <1>2, <3>2, <4>2
        <5>2. i + 1 \in 1..(n + 1) /\ c[i + 1] = x
          BY <1>2, <2>4, <5>1
        <5> QED BY <5>2
      <4> QED BY <4>1, <4>2
    <3> QED BY <3>1, <3>2
  <2>7. ASSUME NEW i \in 1..(n + 1), NEW j \in 1..(n + 1), i < j
        PROVE  c[i] # c[j] /\ c[j] # Edge /\ (c[i] = Edge \/ Before(loads, c[i], c[j]))
    <3>1. j # 1 /\ j - 1 \in 1..n /\ c[j] = s[j - 1] /\ c[j] \in S
      BY <1>2, <1>3, <2>5, <2>7
    <3>2. CASE i = 1
      BY <1>4, <2>3, <3>1, <3>2
    <3>3. CASE i # 1
      <4>1. i - 1 \in 1..n /\ c[i] = s[i - 1] /\ i - 1 < j - 1
        BY <1>2, <2>5, <2>7, <3>3
      <4> QED BY <1>2, <1>4, <3>1, <4>1
    <3> QED BY <3>2, <3>3
  <2>8. Listed(c) = services \cap (seen \cup {Edge})
    BY <2>3, <2>6 DEF Listed
  <2> QED BY <2>2, <2>3, <2>7, <2>8
<1>7. CASE Edge \notin services
  <2>1. <<>> \o s = s
    BY <1>3
  <2>2. s = Candidates(services, Edge, seen, loads)
    BY <1>2, <1>7, <2>1 DEF Candidates, Remote
  <2>3. {s[i] : i \in 1..n} = services \cap (seen \cup {Edge})
    <3>1. \A i \in 1..n : s[i] \in services \cap (seen \cup {Edge})
      BY <1>3, <1>4
    <3>2. ASSUME NEW x \in services \cap (seen \cup {Edge})
          PROVE  \E i \in 1..n : s[i] = x
      BY <1>1, <1>2, <1>7, <3>2
    <3> QED BY <3>1, <3>2
  <2>4. \A i, j \in 1..n : i < j => /\ s[i] # s[j] /\ s[j] # Edge
                                    /\ s[i] = Edge \/ Before(loads, s[i], s[j])
    BY <1>2, <1>3, <1>4
  <2>5. Listed(s) = services \cap (seen \cup {Edge})
    BY <1>3, <2>3 DEF Listed
  <2> QED BY <1>3, <2>2, <2>4, <2>5
<1> QED BY <1>6, <1>7

\* router.go:15: handleStream's candidates are in the order that the comment of
\* Candidates promises, for any number of instances and peers and all loads.
LEMMA FindsInOrder == ASSUME TypeOK PROVE PriorityOrder
<1> SUFFICES ASSUME NEW t \in Stream, NEW loads \in KnownLoads
             PROVE  LET c == Candidates(view, Edge, peers[t], loads)
                        Rank(n) == <<LoadOf(loads, n).errors, LoadOf(loads, n).streams, n>>
                        Less(a, b) == \E i \in 1..3 : a[i] < b[i] /\ \A j \in 1..(i - 1) : a[j] = b[j]
                    IN  /\ Listed(c) = view \cap (peers[t] \cup {Edge})
                        /\ \A i, j \in 1..Len(c) : i < j =>
                              /\ c[i] # c[j] /\ c[j] # Edge
                              /\ c[i] = Edge \/ Less(Rank(c[i]), Rank(c[j]))
  BY DEF PriorityOrder
<1> DEFINE Rank(n) == <<LoadOf(loads, n).errors, LoadOf(loads, n).streams, n>>
           Less(a, b) == \E i \in 1..3 : a[i] < b[i] /\ \A j \in 1..(i - 1) : a[j] = b[j]
<1>1. LoadsOf(loads)
  BY RoutingAssumption DEF LoadsOf, LoadOf, KnownLoads
<1>2. view \in SUBSET Node /\ peers[t] \in SUBSET Peer
  BY DEF TypeOK
<1>3. PICK c : /\ c = Candidates(view, Edge, peers[t], loads) /\ c \in Seq(Node)
               /\ Listed(c) = view \cap (peers[t] \cup {Edge})
               /\ \A i, j \in 1..Len(c) : i < j =>
                     /\ c[i] # c[j] /\ c[j] # Edge
                     /\ c[i] = Edge \/ Before(loads, c[i], c[j])
  BY <1>1, <1>2, CandidatesAre
<1>4. PICK e \in [Node -> Nat], s \in [Node -> Nat] :
        /\ \A n \in Node : e[n] = LoadOf(loads, n).errors /\ s[n] = LoadOf(loads, n).streams
        /\ \A a, b \in Node : Before(loads, a, b) <=> Lower(e, s, a, b)
  BY <1>1, BeforeIs
<1>5. ASSUME NEW a \in Node, NEW b \in Node, Before(loads, a, b)
      PROVE  Less(Rank(a), Rank(b))
  <2>1. Lower(e, s, a, b)
    BY <1>4, <1>5
  <2>2. Rank(a) = <<e[a], s[a], a>> /\ Rank(b) = <<e[b], s[b], b>>
    BY <1>4
  <2>3. 1..(1 - 1) = {} /\ 1..(2 - 1) = {1} /\ 1..(3 - 1) = {1, 2}
    OBVIOUS
  <2> HIDE DEF Rank
  <2>4. CASE e[a] < e[b]
    <3>1. Rank(a)[1] < Rank(b)[1] /\ \A j \in 1..(1 - 1) : Rank(a)[j] = Rank(b)[j]
      BY <2>2, <2>3, <2>4
    <3> QED BY <3>1
  <2>5. CASE e[a] = e[b] /\ s[a] < s[b]
    <3>1. Rank(a)[2] < Rank(b)[2] /\ \A j \in 1..(2 - 1) : Rank(a)[j] = Rank(b)[j]
      BY <2>2, <2>3, <2>5
    <3> QED BY <3>1
  <2>6. CASE e[a] = e[b] /\ s[a] = s[b] /\ a < b
    <3>1. Rank(a)[3] < Rank(b)[3] /\ \A j \in 1..(3 - 1) : Rank(a)[j] = Rank(b)[j]
      BY <2>2, <2>3, <2>6
    <3> QED BY <3>1
  <2> QED BY <2>1, <2>4, <2>5, <2>6 DEF Lower
<1>6. \A i \in 1..Len(c) : c[i] \in Node
  BY <1>3
<1> HIDE DEF Rank, Less
<1>7. \A i, j \in 1..Len(c) : i < j =>
        /\ c[i] # c[j] /\ c[j] # Edge
        /\ c[i] = Edge \/ Less(Rank(c[i]), Rank(c[j]))
  BY <1>3, <1>5, <1>6
<1> QED BY <1>3, <1>7 DEF Rank, Less

-----------------------------------------------------------------------------
(* The streams.                                                            *)

\* The invariant without its types.
StreamsInv == FreshInv /\ DecidedInv /\ WorksInv /\ AnswerInv

\* Two acknowledgements differ when their nodes do, and neither is a refusal.
LEMMA Answers ==
    /\ \A m, n : <<OK(m)>> = <<OK(n)>> => m = n
    /\ \A n, r : <<OK(n)>> # <<No(r)>>
    /\ \A n : n \in Node => OK(n) \in Answer
    /\ \A r : r \in {"ACL_DENIED", "SERVICE_NOT_FOUND", "ROUTE_FAILED"} => No(r) \in Answer
<1>1. \A m, n : <<OK(m)>> = <<OK(n)>> => m = n
  <2>1. \A n : OK(n).node = n
    BY DEF OK
  <2>2. \A m, n : <<OK(m)>> = <<OK(n)>> => OK(m) = OK(n)
    OBVIOUS
  <2> QED BY <2>1, <2>2
<1>2. \A n, r : <<OK(n)>> # <<No(r)>>
  <2>1. \A n, r : OK(n) # No(r)
    <3>1. \A n : OK(n).ok = TRUE
      BY DEF OK
    <3>2. \A r : No(r).ok = FALSE
      BY DEF No
    <3> QED BY <3>1, <3>2
  <2>2. \A n, r : <<OK(n)>> = <<No(r)>> => OK(n) = No(r)
    OBVIOUS
  <2> QED BY <2>1, <2>2
<1>3. \A n : n \in Node => OK(n) \in Answer
  BY DEF Answer
<1>4. \A r : r \in {"ACL_DENIED", "SERVICE_NOT_FOUND", "ROUTE_FAILED"} => No(r) \in Answer
  BY DEF Answer
<1> QED BY <1>1, <1>2, <1>3, <1>4

\* WriteConnectResponse to a stream that was not answered: it has the one answer, or
\* its client is gone and it has none.
LEMMA Responds ==
    ASSUME TypeOK, NEW t \in Stream, NEW a \in Answer, answer[t] = <<>>, Respond(t, a)
    PROVE  /\ answer' \in [Stream -> {<<>>} \cup {<<b>> : b \in Answer}]
           /\ \A u \in Stream : u # t => answer'[u] = answer[u]
           /\ answer'[t] = IF t \in gone THEN <<>> ELSE <<a>>
<1>1. answer \in [Stream -> {<<>>} \cup {<<b>> : b \in Answer}]
  BY DEF TypeOK
<1>2. Append(<<>>, a) = <<a>>
  OBVIOUS
<1>3. CASE t \in gone
  BY <1>1, <1>3 DEF Respond
<1>4. CASE t \notin gone
  <2>1. answer' = [answer EXCEPT ![t] = <<a>>]
    BY <1>2, <1>4 DEF Respond
  <2> QED BY <1>1, <1>4, <2>1
<1> QED BY <1>3, <1>4

\* A step that leaves the streams where they are, in which links may be lost and
\* policies may come to allow more.
LEMMA QuietStep ==
    ASSUME TypeOK, StreamsInv, UNCHANGED <<pc, todo, relay, answer>>,
           broken \subseteq broken', \A t \in Stream : permitted[t] \subseteq permitted'[t],
           \A t \in Stream : pc[t] # "idle" => allows' \subseteq permitted'[t]
    PROVE  StreamsInv'
<1>1. FreshInv'
  BY DEF StreamsInv, FreshInv
<1>2. DecidedInv'
  BY DEF StreamsInv, DecidedInv
<1>3. WorksInv'
  BY DEF StreamsInv, WorksInv
<1>4. AnswerInv'
  BY DEF StreamsInv, AnswerInv
<1> QED BY <1>1, <1>2, <1>3, <1>4 DEF StreamsInv

\* Registrations, gossip, policies, links, backends and clients change.
LEMMA SurroundingsStep ==
    ASSUME TypeOK, StreamsInv, Surroundings
    PROVE  TypeOK' /\ StreamsInv'
<1>1. Change => changes' \in 0..MaxChanges
  BY RoutingAssumption DEF Change, TypeOK
<1>2. \A n : NotGood(n) => good' \in [Stream -> SUBSET Node]
  BY DEF NotGood, TypeOK
<1>3. Peer \subseteq Node /\ Edge \in Node
  BY RoutingAssumption DEF Peer
<1>4. ASSUME NEW n \in Node, Register(n) \/ Deregister(n) \/ BackendDown(n)
      PROVE  TypeOK' /\ StreamsInv'
  <2>1. TypeOK'
    BY <1>1, <1>2, <1>4 DEF Register, Deregister, BackendDown, TypeOK, policies
  <2>2. UNCHANGED <<pc, todo, relay, answer, broken, allows, permitted>>
    BY <1>4 DEF Register, Deregister, BackendDown, policies
  <2> QED BY <2>1, <2>2, QuietStep DEF StreamsInv, DecidedInv
<1>5. ASSUME NEW n \in Node, ApplyBundle(n)
      PROVE  TypeOK' /\ StreamsInv'
  <2>1. allows' \subseteq Node
    BY <1>5 DEF ApplyBundle, TypeOK
  <2>2. permitted' = [t \in Stream |-> permitted[t] \cup allows']
    BY <1>5 DEF ApplyBundle
  <2>3. permitted' \in [Stream -> SUBSET Node]
    BY <2>1, <2>2 DEF TypeOK
  <2>4. good' \in [Stream -> SUBSET Node]
    BY <1>2, <1>5 DEF ApplyBundle, TypeOK
  <2>5. TypeOK'
    BY <1>1, <1>5, <2>1, <2>3, <2>4 DEF ApplyBundle, TypeOK
  <2>6. UNCHANGED <<pc, todo, relay, answer, broken>>
    BY <1>5 DEF ApplyBundle
  <2>7. \A t \in Stream : permitted[t] \subseteq permitted'[t] /\ allows' \subseteq permitted'[t]
    BY <2>2
  <2> QED BY <2>5, <2>6, <2>7, QuietStep
<1>6. ASSUME NEW n \in Peer, Gossip(n) \/ LinkUp(n)
      PROVE  TypeOK' /\ StreamsInv'
  <2>1. TypeOK'
    BY <1>1, <1>3, <1>6 DEF Gossip, LinkUp, TypeOK, policies
  <2>2. UNCHANGED <<pc, todo, relay, answer, broken, allows, permitted>>
    BY <1>6 DEF Gossip, LinkUp, policies
  <2> QED BY <2>1, <2>2, QuietStep DEF StreamsInv, DecidedInv
<1>7. ASSUME NEW n \in Peer, LinkDown(n)
      PROVE  TypeOK' /\ StreamsInv'
  <2>1. broken \subseteq broken' /\ broken' \subseteq Stream \X Node
    <3>1. OnLink(n) \subseteq Stream
      BY DEF OnLink
    <3>2. broken' = broken \cup {<<t, n>> : t \in OnLink(n)} /\ broken \subseteq Stream \X Node
      BY <1>7 DEF LinkDown, TypeOK
    <3> QED BY <1>3, <3>1, <3>2
  <2>2. UNCHANGED <<pc, todo, relay, answer, allows, permitted>>
    BY <1>7 DEF LinkDown, policies
  <2>3. TypeOK'
    BY <1>1, <1>2, <1>7, <2>1 DEF LinkDown, TypeOK, policies
  <2> QED BY <2>1, <2>2, <2>3, QuietStep DEF StreamsInv, DecidedInv
<1>8. ASSUME NEW t \in Stream, ClientGone(t)
      PROVE  TypeOK' /\ StreamsInv'
  <2>1. TypeOK'
    BY <1>1, <1>8 DEF ClientGone, TypeOK, policies
  <2>2. UNCHANGED <<pc, todo, relay, answer, broken, allows, permitted>>
    BY <1>8 DEF ClientGone, policies
  <2> QED BY <2>1, <2>2, QuietStep DEF StreamsInv, DecidedInv
<1> QED BY <1>4, <1>5, <1>6, <1>7, <1>8 DEF Surroundings

\* A stream begins.
LEMMA ConnectStep ==
    ASSUME TypeOK, StreamsInv, NEW t \in Stream, Connect(t)
    PROVE  TypeOK' /\ StreamsInv'
<1>1. pc' = [pc EXCEPT ![t] = "policy"] /\ pc[t] = "idle"
  BY DEF Connect, Go
<1>2. permitted' = [permitted EXCEPT ![t] = allows]
  BY DEF Connect
<1>3. UNCHANGED <<allows, todo, relay, answer, broken>>
  BY DEF Connect
<1>4. answer[t] = <<>> /\ \A n \in Node : relay[t][n] = "none"
  BY <1>1 DEF StreamsInv, FreshInv
<1>5. TypeOK'
  BY <1>1, <1>2 DEF Connect, TypeOK
<1>6. FreshInv'
  BY <1>1, <1>3 DEF StreamsInv, FreshInv, TypeOK
<1>7. DecidedInv'
  BY <1>1, <1>2, <1>3, <1>4 DEF StreamsInv, DecidedInv, TypeOK
<1>8. WorksInv'
  BY <1>1, <1>3, <1>4, ZenonT(60) DEF StreamsInv, WorksInv, TypeOK
<1>9. AnswerInv'
  BY <1>1, <1>3, <1>4 DEF StreamsInv, AnswerInv, TypeOK
<1> QED BY <1>5, <1>6, <1>7, <1>8, <1>9 DEF StreamsInv

\* A step of the edge for t: the peers do not move, the policies do not change, and
\* t's own facts hold again.
LEMMA EdgeStep ==
    ASSUME TypeOK, StreamsInv, NEW t \in Stream, UNCHANGED <<relay, broken, allows, permitted>>,
           pc[t] # "idle", pc'[t] # "idle",
           pc'[t] \notin {"policy", "done"} => Edge \in permitted[t],
           \A u \in Stream : u # t =>
               pc'[u] = pc[u] /\ todo'[u] = todo[u] /\ answer'[u] = answer[u],
           \/ \A n \in Node : relay[t][n] \in {"read", "dial", "relay"} => <<t, n>> \in broken
           \/ pc'[t] \in {"wait", "ackPeer", "relay", "done"} /\ todo'[t] = todo[t],
           answer'[t] # <<>> => pc'[t] \in {"relay", "done"},
           pc'[t] = "ackLocal" => Head(todo'[t]) = Edge,
           \A n \in Node : answer'[t] = <<OK(n)>> => pc'[t] = "relay" /\ Head(todo'[t]) = n,
           pc'[t] \in {"open", "wait", "ackPeer"} => Head(todo'[t]) \in Peer,
           pc'[t] = "ackPeer" =>
               LET n == Head(todo'[t]) IN relay[t][n] = "relay" \/ <<t, n>> \in broken,
           \A n \in Peer : answer'[t] = <<OK(n)>> => relay[t][n] = "relay" \/ <<t, n>> \in broken
    PROVE  StreamsInv'
<1>1. FreshInv'
  BY DEF StreamsInv, FreshInv
<1>2. DecidedInv'
  BY DEF StreamsInv, DecidedInv
<1>3. WorksInv'
  <2>1. ASSUME NEW u \in Stream, NEW n \in Node,
               relay[u][n] \in {"read", "dial", "relay"}, <<u, n>> \notin broken
        PROVE  pc'[u] \in {"wait", "ackPeer", "relay", "done"} /\ n = Head(todo'[u])
    <3>1. n = Head(todo[u]) /\ pc[u] \in {"wait", "ackPeer", "relay", "done"}
      BY <2>1 DEF StreamsInv, WorksInv
    <3>2. CASE u = t
      BY <2>1, <3>1, <3>2
    <3>3. CASE u # t
      BY <3>1, <3>3
    <3> QED BY <3>2, <3>3
  <2>2. \A u \in Stream : Node # {} => relay[u][Edge] = "none"
    BY DEF StreamsInv, WorksInv
  <2> QED BY <2>1, <2>2 DEF WorksInv
<1>4. AnswerInv'
  BY DEF StreamsInv, AnswerInv
<1> QED BY <1>1, <1>2, <1>3, <1>4 DEF StreamsInv

\* While the edge has not sent a stream to anybody, or has given the candidate up,
\* no peer works for it.
LEMMA NobodyWorks ==
    ASSUME StreamsInv, NEW t \in Stream, pc[t] \notin {"wait", "ackPeer", "relay", "done"}
    PROVE  \A n \in Node : relay[t][n] \in {"read", "dial", "relay"} => <<t, n>> \in broken
BY DEF StreamsInv, WorksInv

\* What a stream that the edge still works on has not got yet.
LEMMA NotAnswered ==
    ASSUME StreamsInv, NEW t \in Stream, pc[t] \notin {"relay", "done"}
    PROVE  answer[t] = <<>> /\ \A n : answer[t] # <<OK(n)>>
<1>1. answer[t] = <<>>
  BY DEF StreamsInv, AnswerInv
<1>2. \A n : <<>> # <<OK(n)>>
  OBVIOUS
<1> QED BY <1>1, <1>2

\* handleStream with the policy of the edge.
LEMMA CheckPolicyStep ==
    ASSUME TypeOK, StreamsInv, NEW t \in Stream, CheckPolicy(t)
    PROVE  TypeOK' /\ StreamsInv'
<1>1. /\ pc[t] = "policy" /\ answer[t] = <<>> /\ \A n : answer[t] # <<OK(n)>>
      /\ allows \subseteq permitted[t]
  BY NotAnswered DEF CheckPolicy, StreamsInv, DecidedInv
<1>2. UNCHANGED <<relay, broken, allows, permitted, todo>>
  BY DEF CheckPolicy, around, policies
<1>3. \A n \in Node : relay[t][n] \in {"read", "dial", "relay"} => <<t, n>> \in broken
  BY <1>1, NobodyWorks
<1>4. CASE Edge \in allows
  <2>1. pc' = [pc EXCEPT ![t] = "find"] /\ peers' = [peers EXCEPT ![t] = linked] /\ answer' = answer
    BY <1>4 DEF CheckPolicy, Go
  <2>2. TypeOK'
    BY <2>1 DEF CheckPolicy, around, policies, TypeOK
  <2>3. pc'[t] = "find" /\ \A u \in Stream : u # t => pc'[u] = pc[u]
    BY <2>1 DEF TypeOK
  <2>4. StreamsInv'
    BY <1>1, <1>2, <1>3, <1>4, <2>1, <2>3, EdgeStep, ZenonT(60)
  <2> QED BY <2>2, <2>4
<1>5. CASE Edge \notin allows
  <2>1. pc' = [pc EXCEPT ![t] = "done"] /\ peers' = peers /\ Respond(t, No("ACL_DENIED"))
    BY <1>5 DEF CheckPolicy, Go
  <2>2. /\ answer' \in [Stream -> {<<>>} \cup {<<b>> : b \in Answer}]
        /\ \A u \in Stream : u # t => answer'[u] = answer[u]
        /\ answer'[t] = IF t \in gone THEN <<>> ELSE <<No("ACL_DENIED")>>
    BY <1>1, <2>1, Responds, Answers
  <2>3. TypeOK'
    BY <2>1, <2>2 DEF CheckPolicy, around, policies, TypeOK
  <2>4. pc'[t] = "done" /\ \A u \in Stream : u # t => pc'[u] = pc[u]
    BY <2>1 DEF TypeOK
  <2>5. \A n : answer'[t] # <<OK(n)>>
    BY <2>2, Answers
  <2>6. StreamsInv'
    BY <1>1, <1>2, <1>3, <2>2, <2>4, <2>5, EdgeStep
  <2> QED BY <2>3, <2>6
<1> QED BY <1>4, <1>5

\* The candidates are put in order, whatever that order is.
LEMMA DecideStep ==
    ASSUME TypeOK, StreamsInv, NEW t \in Stream, NEW services \in SUBSET Node,
           pc[t] \in {"find", "resolve"}, Decide(t, services),
           UNCHANGED <<around, peers, relay, broken>>
    PROVE  TypeOK' /\ StreamsInv'
<1>1. answer[t] = <<>> /\ (\A n : answer[t] # <<OK(n)>>) /\ Edge \in permitted[t]
  BY NotAnswered DEF StreamsInv, DecidedInv
<1>2. UNCHANGED <<relay, broken, allows, permitted>>
  BY DEF around, policies
<1>3. \A n \in Node : relay[t][n] \in {"read", "dial", "relay"} => <<t, n>> \in broken
  BY NobodyWorks
<1> DEFINE cands == Candidates(services, Edge, peers[t], Loads)
<1>4. CASE cands = <<>>
  <2>1. /\ pc' = [pc EXCEPT ![t] = "done"] /\ todo' = todo /\ good' = good
        /\ Respond(t, No("SERVICE_NOT_FOUND"))
    BY <1>4 DEF Decide, Go
  <2>2. /\ answer' \in [Stream -> {<<>>} \cup {<<b>> : b \in Answer}]
        /\ \A u \in Stream : u # t => answer'[u] = answer[u]
        /\ answer'[t] = IF t \in gone THEN <<>> ELSE <<No("SERVICE_NOT_FOUND")>>
    BY <1>1, <2>1, Responds, Answers
  <2>3. TypeOK'
    BY <2>1, <2>2 DEF around, policies, TypeOK
  <2>4. pc'[t] = "done" /\ \A u \in Stream : u # t => pc'[u] = pc[u]
    BY <2>1 DEF TypeOK
  <2>5. \A n : answer'[t] # <<OK(n)>>
    BY <2>2, Answers
  <2>6. StreamsInv'
    BY <1>1, <1>2, <1>3, <2>1, <2>2, <2>4, <2>5, EdgeStep
  <2> QED BY <2>3, <2>6
<1>5. CASE cands # <<>>
  <2>1. /\ pc' = [pc EXCEPT ![t] = "try"] /\ todo' = [todo EXCEPT ![t] = cands]
        /\ good' = [good EXCEPT ![t] = Able(services, peers[t])] /\ answer' = answer
    BY <1>5 DEF Decide, Go
  <2>2. Able(services, peers[t]) \subseteq Node
    BY DEF Able
  <2> HIDE DEF cands
  <2>3. TypeOK'
    BY <2>1, <2>2 DEF around, policies, TypeOK
  <2>4. /\ pc'[t] = "try"
        /\ \A u \in Stream : u # t => pc'[u] = pc[u] /\ todo'[u] = todo[u]
    BY <2>1 DEF TypeOK
  <2>5. StreamsInv'
    BY <1>1, <1>2, <1>3, <2>1, <2>4, EdgeStep
  <2> QED BY <2>3, <2>5
<1> QED BY <1>4, <1>5

\* FindByName, in the registry of the edge or at its peers.
LEMMA FindStep ==
    ASSUME TypeOK, StreamsInv, NEW t \in Stream, FindByName(t) \/ Resolve(t)
    PROVE  TypeOK' /\ StreamsInv'
<1>1. UNCHANGED <<around, peers, relay, broken>> /\ pc[t] \in {"find", "resolve"}
  BY DEF FindByName, Resolve
<1>2. CASE FindByName(t) /\ view # {}
  <2>1. PICK services \in SUBSET Node : services = view
    BY DEF TypeOK
  <2>2. Decide(t, services)
    BY <1>2, <2>1 DEF FindByName
  <2> QED BY <1>1, <2>2, DecideStep
<1>3. CASE FindByName(t) /\ view = {}
  <2>1. pc' = [pc EXCEPT ![t] = "resolve"] /\ UNCHANGED <<todo, good, answer>>
    BY <1>3 DEF FindByName, Go
  <2>2. TypeOK'
    BY <1>1, <2>1 DEF around, policies, TypeOK
  <2>3. pc'[t] = "resolve" /\ \A u \in Stream : u # t => pc'[u] = pc[u]
    BY <2>1 DEF TypeOK
  <2>4. /\ pc[t] = "find" /\ answer[t] = <<>> /\ \A n : answer[t] # <<OK(n)>>
        /\ Edge \in permitted[t]
    BY <1>3, NotAnswered DEF FindByName, StreamsInv, DecidedInv
  <2>5. \A n \in Node : relay[t][n] \in {"read", "dial", "relay"} => <<t, n>> \in broken
    BY <2>4, NobodyWorks
  <2>6. UNCHANGED <<relay, broken, allows, permitted>>
    BY <1>1 DEF around, policies
  <2>7. StreamsInv'
    BY <2>1, <2>3, <2>4, <2>5, <2>6, EdgeStep, ZenonT(60)
  <2> QED BY <2>2, <2>7
<1>4. CASE Resolve(t)
  <2>1. PICK services \in SUBSET Node : services = {n \in Peer : requireNodePeer /\ n \in own}
    BY DEF TypeOK
  <2>2. Decide(t, services)
    BY <1>4, <2>1 DEF Resolve
  <2> QED BY <1>1, <2>2, DecideStep
<1> QED BY <1>2, <1>3, <1>4

\* The steps of the edge that try a candidate without an answer to the client.
LEMMA TryStep ==
    ASSUME TypeOK, StreamsInv, NEW t \in Stream,
           TryLocal(t) \/ OpenRelay(t) \/ RelayOpened(t) \/ RelayRefused(t)
    PROVE  TypeOK' /\ StreamsInv'
<1>1. UNCHANGED <<relay, broken, allows, permitted, answer, own, view, linked, alive, gone,
                  changes, peers, good>>
  BY DEF TryLocal, OpenRelay, RelayOpened, RelayRefused, around, policies
<1>2. pc[t] \in {"try", "open", "wait"}
  BY DEF TryLocal, OpenRelay, RelayOpened, RelayRefused
<1>3. answer[t] = <<>> /\ (\A n : answer[t] # <<OK(n)>>) /\ Edge \in permitted[t]
  BY <1>2, NotAnswered DEF StreamsInv, DecidedInv
<1>4. CASE TryLocal(t)
  <2>1. \A n \in Node : relay[t][n] \in {"read", "dial", "relay"} => <<t, n>> \in broken
    BY <1>4, NobodyWorks DEF TryLocal
  <2>2. \/ pc' = [pc EXCEPT ![t] = "ackLocal"] /\ todo' = todo /\ Head(todo[t]) = Edge
        \/ pc' = pc /\ todo' = [todo EXCEPT ![t] = Tail(@)] /\ pc[t] = "try"
    BY <1>4 DEF TryLocal, Go, Next1
  <2>3. TypeOK'
    BY <1>1, <2>2 DEF TypeOK
  <2>4. /\ \/ pc'[t] = "ackLocal" /\ Head(todo'[t]) = Edge
           \/ pc'[t] = "try"
        /\ \A u \in Stream : u # t => pc'[u] = pc[u] /\ todo'[u] = todo[u]
    BY <2>2 DEF TypeOK
  <2>5. StreamsInv'
    BY <1>1, <1>2, <1>3, <2>1, <2>4, EdgeStep
  <2> QED BY <2>3, <2>5
<1>5. CASE RelayOpened(t)
  <2>1. pc' = [pc EXCEPT ![t] = "ackPeer"] /\ todo' = todo /\ pc[t] = "wait"
    BY <1>5 DEF RelayOpened, Go
  <2>2. relay[t][Head(todo[t])] = "relay" /\ Head(todo[t]) \in Peer
    BY <1>5, <2>1 DEF RelayOpened, StreamsInv, AnswerInv
  <2>3. TypeOK'
    BY <1>1, <2>1 DEF TypeOK
  <2>4. pc'[t] = "ackPeer" /\ \A u \in Stream : u # t => pc'[u] = pc[u]
    BY <2>1 DEF TypeOK
  <2>5. StreamsInv'
    BY <1>1, <1>2, <1>3, <2>1, <2>2, <2>4, EdgeStep, ZenonT(60)
  <2> QED BY <2>3, <2>5
<1>6. CASE RelayRefused(t)
  <2>1. /\ pc' = [pc EXCEPT ![t] = "try"] /\ todo' = [todo EXCEPT ![t] = Tail(@)]
        /\ <<t, Head(todo[t])>> \in broken \/ relay[t][Head(todo[t])] = "refused"
    BY <1>6 DEF RelayRefused, Go, Next1
  <2>2. \A n \in Node : relay[t][n] \in {"read", "dial", "relay"} => <<t, n>> \in broken
    BY <2>1 DEF StreamsInv, WorksInv
  <2>3. TypeOK'
    BY <1>1, <2>1 DEF TypeOK
  <2>4. pc'[t] = "try" /\ \A u \in Stream : u # t => pc'[u] = pc[u] /\ todo'[u] = todo[u]
    BY <2>1 DEF TypeOK
  <2>5. StreamsInv'
    BY <1>1, <1>2, <1>3, <2>2, <2>4, EdgeStep, ZenonT(60)
  <2> QED BY <2>3, <2>5
<1>7. CASE OpenRelay(t)
  <2>1. pc[t] = "try" /\ todo[t] # <<>>
    BY <1>7 DEF OpenRelay
  <2>2. \A n \in Node : relay[t][n] \in {"read", "dial", "relay"} => <<t, n>> \in broken
    BY <2>1, NobodyWorks
  <2>3. \/ pc' = [pc EXCEPT ![t] = "open"] /\ todo' = todo /\ Head(todo[t]) \in linked
        \/ pc' = pc /\ todo' = [todo EXCEPT ![t] = Tail(@)]
    BY <1>7 DEF OpenRelay, Go, Next1
  <2>4. TypeOK'
    BY <1>1, <2>3 DEF TypeOK
  <2>5. /\ \/ pc'[t] = "open" /\ Head(todo'[t]) \in Peer
           \/ pc'[t] = "try"
        /\ \A u \in Stream : u # t => pc'[u] = pc[u] /\ todo'[u] = todo[u]
    BY <2>1, <2>3 DEF TypeOK
  <2>6. StreamsInv'
    BY <1>1, <1>2, <1>3, <2>2, <2>5, EdgeStep
  <2> QED BY <2>4, <2>6
<1> QED BY <1>4, <1>5, <1>6, <1>7

\* The steps of the edge that answer the client.
LEMMA AnswerStep ==
    ASSUME TypeOK, StreamsInv, NEW t \in Stream, AckLocal(t) \/ AckPeer(t) \/ RouteFailed(t)
    PROVE  TypeOK' /\ StreamsInv'
<1>1. UNCHANGED <<relay, broken, allows, permitted, own, view, linked, alive, gone, changes,
                  peers, good>>
  BY DEF AckLocal, AckPeer, RouteFailed, around, policies
<1>2. pc[t] \in {"ackLocal", "ackPeer", "try"}
  BY DEF AckLocal, AckPeer, RouteFailed
<1>3. answer[t] = <<>> /\ (\A n : answer[t] # <<OK(n)>>) /\ Edge \in permitted[t]
  BY <1>2, NotAnswered DEF StreamsInv, DecidedInv
<1>4. CASE AckLocal(t)
  <2>1. Head(todo[t]) = Edge /\ pc[t] = "ackLocal"
    BY <1>4 DEF AckLocal, StreamsInv, AnswerInv
  <2>2. \A n \in Node : relay[t][n] \in {"read", "dial", "relay"} => <<t, n>> \in broken
    BY <2>1, NobodyWorks
  <2>3. /\ answer' \in [Stream -> {<<>>} \cup {<<b>> : b \in Answer}]
        /\ \A u \in Stream : u # t => answer'[u] = answer[u]
        /\ answer'[t] = IF t \in gone THEN <<>> ELSE <<OK(Edge)>>
    <3>1. Respond(t, OK(Edge)) /\ OK(Edge) \in Answer
      BY <1>4, RoutingAssumption, Answers DEF AckLocal
    <3> QED BY <1>3, <3>1, Responds
  <2>4. IF t \in gone THEN pc' = [pc EXCEPT ![t] = "try"] /\ todo' = [todo EXCEPT ![t] = Tail(@)]
                      ELSE pc' = [pc EXCEPT ![t] = "relay"] /\ todo' = todo
    BY <1>4 DEF AckLocal, Go, Next1
  <2>5. TypeOK'
    BY <1>1, <2>3, <2>4 DEF TypeOK
  <2>6. /\ \A u \in Stream : u # t => pc'[u] = pc[u] /\ todo'[u] = todo[u]
        /\ \/ pc'[t] = "try" /\ answer'[t] = answer[t]
           \/ pc'[t] = "relay" /\ answer'[t] = <<OK(Edge)>> /\ Head(todo'[t]) = Edge
    BY <1>3, <2>1, <2>3, <2>4, ZenonT(60) DEF TypeOK
  <2>7. \A n : answer'[t] = <<OK(n)>> => n = Edge /\ pc'[t] = "relay" /\ Head(todo'[t]) = Edge
    BY <1>3, <2>6, Answers
  <2>8. \A n \in Peer : answer'[t] # <<OK(n)>>
    BY <2>7 DEF Peer
  <2>9. StreamsInv'
    BY <1>1, <1>2, <1>3, <2>2, <2>3, <2>6, <2>7, <2>8, EdgeStep
  <2> QED BY <2>5, <2>9
<1>5. CASE AckPeer(t)
  <2>1. PICK n \in Peer : /\ n = Head(todo[t]) /\ pc[t] = "ackPeer"
                          /\ relay[t][n] = "relay" \/ <<t, n>> \in broken
    BY <1>5 DEF AckPeer, StreamsInv, AnswerInv
  <2>2. /\ answer' \in [Stream -> {<<>>} \cup {<<b>> : b \in Answer}]
        /\ \A u \in Stream : u # t => answer'[u] = answer[u]
        /\ answer'[t] = IF t \in gone THEN <<>> ELSE <<OK(n)>>
    <3>1. Respond(t, OK(n)) /\ OK(n) \in Answer
      BY <1>5, <2>1, Answers DEF AckPeer, Peer, Respond
    <3> QED BY <1>3, <3>1, Responds
  <2>3. /\ pc' = [pc EXCEPT ![t] = IF t \in gone THEN "done" ELSE "relay"] /\ todo' = todo
    BY <1>5 DEF AckPeer, Go
  <2>4. TypeOK'
    BY <1>1, <2>2, <2>3 DEF TypeOK
  <2>5. /\ \A u \in Stream : u # t => pc'[u] = pc[u]
        /\ pc'[t] \in {"relay", "done"}
    BY <2>3 DEF TypeOK
  <2>6. \A m : answer'[t] = <<OK(m)>> => m = n /\ pc'[t] = "relay"
    <3>1. t \in gone => \A m : answer'[t] # <<OK(m)>>
      BY <1>3, <2>2
    <3>2. t \notin gone => pc'[t] = "relay" /\ answer'[t] = <<OK(n)>>
      BY <2>2, <2>3 DEF TypeOK
    <3> QED BY <3>1, <3>2, Answers
  <2>7. n # Edge
    BY DEF Peer
  <2>8. StreamsInv'
    BY <1>1, <1>2, <1>3, <2>1, <2>2, <2>3, <2>5, <2>6, <2>7, EdgeStep, ZenonT(60)
  <2> QED BY <2>4, <2>8
<1>6. CASE RouteFailed(t)
  <2>1. pc[t] = "try" /\ pc' = [pc EXCEPT ![t] = "done"] /\ todo' = todo
    BY <1>6 DEF RouteFailed, Go
  <2>2. /\ answer' \in [Stream -> {<<>>} \cup {<<b>> : b \in Answer}]
        /\ \A u \in Stream : u # t => answer'[u] = answer[u]
        /\ answer'[t] = IF t \in gone THEN <<>> ELSE <<No("ROUTE_FAILED")>>
    <3>1. Respond(t, No("ROUTE_FAILED")) /\ No("ROUTE_FAILED") \in Answer
      BY <1>6, Answers DEF RouteFailed
    <3> QED BY <1>3, <3>1, Responds
  <2>3. TypeOK'
    BY <1>1, <2>1, <2>2, ZenonT(60) DEF TypeOK
  <2>4. pc'[t] = "done" /\ \A u \in Stream : u # t => pc'[u] = pc[u]
    BY <2>1 DEF TypeOK
  <2>5. \A n : answer'[t] # <<OK(n)>>
    BY <1>3, <2>2, Answers
  <2>6. \A n \in Node : relay[t][n] \in {"read", "dial", "relay"} => <<t, n>> \in broken
    BY <2>1, NobodyWorks
  <2>7. StreamsInv'
    BY <1>1, <1>2, <1>3, <2>1, <2>2, <2>4, <2>5, <2>6, EdgeStep
  <2> QED BY <2>3, <2>7
<1> QED BY <1>4, <1>5, <1>6

\* OpenStreamSync: a peer starts to work for the stream.
LEMMA OpenStreamStep ==
    ASSUME TypeOK, StreamsInv, NEW t \in Stream, OpenStreamSync(t)
    PROVE  TypeOK' /\ StreamsInv'
<1>1. UNCHANGED <<broken, allows, permitted, answer, own, view, linked, alive, gone, changes,
                  peers, good, todo>> /\ pc[t] = "open"
  BY DEF OpenStreamSync, around, policies
<1>2. answer[t] = <<>> /\ (\A n : answer[t] # <<OK(n)>>) /\ Edge \in permitted[t]
  BY <1>1, NotAnswered DEF StreamsInv, DecidedInv
<1>3. \A n \in Node : relay[t][n] \in {"read", "dial", "relay"} => <<t, n>> \in broken
  BY <1>1, NobodyWorks
<1>4. PICK n \in Peer : n = Head(todo[t])
  BY <1>1 DEF StreamsInv, AnswerInv
<1>5. pc' = [pc EXCEPT ![t] = "wait"] /\ relay' = [relay EXCEPT ![t][n] = "read"]
  BY <1>4 DEF OpenStreamSync, Go
<1>6. n \in Node /\ n # Edge
  BY DEF Peer
<1>7. relay' \in [Stream -> [Node -> RelayState]]
  BY <1>5 DEF TypeOK, RelayState
<1>8. pc'[t] = "wait" /\ \A u \in Stream : u # t => pc'[u] = pc[u] /\ relay'[u] = relay[u]
  BY <1>5 DEF TypeOK
<1>9. relay'[t][n] = "read" /\ \A m \in Node : m # n => relay'[t][m] = relay[t][m]
  BY <1>5, <1>6 DEF TypeOK
<1>10. TypeOK'
  BY <1>1, <1>5, <1>7 DEF TypeOK
<1>11. FreshInv'
  BY <1>1, <1>8 DEF StreamsInv, FreshInv
<1>12. DecidedInv'
  BY <1>1, <1>2, <1>6, <1>8, <1>9, ZenonT(60) DEF StreamsInv, DecidedInv
<1>13. WorksInv'
  <2>1. \A u \in Stream : relay'[u][Edge] = "none"
    BY <1>6, <1>8, <1>9, RoutingAssumption, ZenonT(60) DEF StreamsInv, WorksInv
  <2>2. ASSUME NEW u \in Stream, NEW m \in Node,
               relay'[u][m] \in {"read", "dial", "relay"}, <<u, m>> \notin broken
        PROVE  pc'[u] \in {"wait", "ackPeer", "relay", "done"} /\ m = Head(todo[u])
    <3>1. CASE u # t
      BY <1>8, <2>2, <3>1 DEF StreamsInv, WorksInv
    <3>2. CASE u = t
      BY <1>3, <1>4, <1>8, <1>9, <2>2, <3>2
    <3> QED BY <3>1, <3>2
  <2> QED BY <1>1, <2>1, <2>2 DEF WorksInv
<1>14. AnswerInv'
  BY <1>1, <1>2, <1>4, <1>8 DEF StreamsInv, AnswerInv
<1> QED BY <1>10, <1>11, <1>12, <1>13, <1>14 DEF StreamsInv

\* HandleStream on a peer.
LEMMA PeerStep ==
    ASSUME TypeOK, StreamsInv, NEW t \in Stream, NEW n \in Peer, HandlePeer(t, n)
    PROVE  TypeOK' /\ StreamsInv'
<1>1. UNCHANGED <<pc, todo, broken, allows, permitted, answer, own, view, linked, alive, gone,
                  changes, peers, good>>
  BY DEF HandlePeer, HandleStream, DialBackend, HandleEnds, HandleFinishes, around, policies
<1>2. PICK r \in RelayState :
        /\ relay' = [relay EXCEPT ![t][n] = r]
        /\ relay[t][n] # "none" /\ r # "none"
        /\ r \in {"read", "dial", "relay"} => relay[t][n] \in {"read", "dial"}
        /\ r \in {"dial", "relay"} => n \in allows \/ relay[t][n] = "dial"
        /\ relay[t][n] = "relay" => <<t, n>> \in broken \/ pc[t] = "done"
  BY DEF HandlePeer, HandleStream, DialBackend, HandleEnds, HandleFinishes, RelayState
<1>3. n \in Node /\ n # Edge
  BY DEF Peer
<1>4. relay' \in [Stream -> [Node -> RelayState]]
  BY <1>2 DEF TypeOK
<1>5. \A u \in Stream : u # t => relay'[u] = relay[u]
  BY <1>2 DEF TypeOK
<1>6. relay'[t][n] = r /\ \A m \in Node : m # n => relay'[t][m] = relay[t][m]
  BY <1>2, <1>3 DEF TypeOK
<1>7. TypeOK'
  BY <1>1, <1>4 DEF TypeOK
<1>8. pc[t] # "idle"
  BY <1>2, <1>3 DEF StreamsInv, FreshInv
<1>9. FreshInv'
  BY <1>1, <1>5, <1>8 DEF StreamsInv, FreshInv
<1>10. DecidedInv'
  BY <1>1, <1>2, <1>3, <1>5, <1>6, <1>8 DEF StreamsInv, DecidedInv
<1>11. WorksInv'
  <2>1. \A u \in Stream : relay'[u][Edge] = "none"
    BY <1>3, <1>5, <1>6, RoutingAssumption DEF StreamsInv, WorksInv
  <2>2. ASSUME NEW u \in Stream, NEW m \in Node,
               relay'[u][m] \in {"read", "dial", "relay"}, <<u, m>> \notin broken
        PROVE  pc[u] \in {"wait", "ackPeer", "relay", "done"} /\ m = Head(todo[u])
    <3>1. relay[u][m] \in {"read", "dial", "relay"}
      BY <1>2, <1>5, <1>6, <2>2
    <3> QED BY <2>2, <3>1 DEF StreamsInv, WorksInv
  <2> QED BY <1>1, <2>1, <2>2 DEF WorksInv
<1>12. AnswerInv'
  <2>1. \A u \in Stream, m \in Peer :
          relay[u][m] = "relay" => relay'[u][m] = "relay" \/ <<u, m>> \in broken \/ pc[u] = "done"
    BY <1>2, <1>5, <1>6 DEF Peer
  <2>2. \A u \in Stream : pc[u] = "ackPeer" =>
          LET m == Head(todo[u]) IN relay'[u][m] = "relay" \/ <<u, m>> \in broken
    BY <2>1 DEF StreamsInv, AnswerInv
  <2>3. \A u \in Stream, m \in Peer : answer[u] = <<OK(m)>> => relay'[u][m] = "relay" \/ <<u, m>> \in broken
    <3>1. \A u \in Stream, m \in Peer : answer[u] = <<OK(m)>> =>
            pc[u] = "relay" /\ (relay[u][m] = "relay" \/ <<u, m>> \in broken)
      BY DEF StreamsInv, AnswerInv, Peer
    <3> QED BY <2>1, <3>1
  <2> QED BY <1>1, <2>2, <2>3 DEF StreamsInv, AnswerInv
<1> QED BY <1>7, <1>9, <1>10, <1>11, <1>12 DEF StreamsInv

-----------------------------------------------------------------------------
(* The search for a candidate.                                             *)

\* What ServableInv, SearchInv and FailsOver say of one stream.
FoundAt(t) ==
    /\ good[t] \subseteq own \cap alive \cap allows \cap (linked \cup {Edge})
    /\ \A n \in Node : relay[t][n] = "refused" => n \notin good[t]
    /\ \A n \in Node : <<t, n>> \in broken =>
          n \notin good[t] /\ pc[t] \notin {"idle", "policy", "find", "resolve"}
    /\ todo[t] \in Seq(Node)
    /\ pc[t] \in {"policy", "find", "resolve"} => \A n \in Node : relay[t][n] = "none"
    /\ pc[t] \in {"open", "wait", "ackLocal", "ackPeer"} => todo[t] # <<>>
    /\ pc[t] \in {"try", "open", "wait", "ackLocal", "ackPeer"} /\ t \notin gone =>
          good[t] \subseteq Listed(todo[t])
    /\ answer[t] = <<No("ROUTE_FAILED")>> => good[t] = {}

Found == \A t \in Stream : FoundAt(t)

LEMMA FoundIs ==
    /\ Found <=> ServableInv /\ SearchInv /\ FailsOver
    /\ Found' <=> ServableInv' /\ SearchInv' /\ FailsOver'
<1>1. Found => ServableInv /\ SearchInv /\ FailsOver
  BY DEF Found, FoundAt, ServableInv, SearchInv, FailsOver
<1>2. ServableInv /\ SearchInv /\ FailsOver => Found
  BY DEF Found, FoundAt, ServableInv, SearchInv, FailsOver
<1>3. Found' => ServableInv' /\ SearchInv' /\ FailsOver'
  BY DEF Found, FoundAt, ServableInv, SearchInv, FailsOver
<1>4. ServableInv' /\ SearchInv' /\ FailsOver' => Found'
  BY DEF Found, FoundAt, ServableInv, SearchInv, FailsOver
<1> QED BY <1>1, <1>2, <1>3, <1>4

\* A step in which the streams stay where they are: what could have served them can
\* only become less, and links may be lost.
LEMMA FoundQuiet ==
    ASSUME Found, UNCHANGED <<pc, todo, relay, answer>>, gone \subseteq gone',
           \A t \in Stream : good'[t] \subseteq good[t],
           \A t \in Stream : good'[t] \subseteq own' \cap alive' \cap allows' \cap (linked' \cup {Edge}),
           \A t \in Stream, n \in Node : <<t, n>> \in broken' =>
               \/ <<t, n>> \in broken
               \/ n \notin good'[t] /\ pc[t] \notin {"idle", "policy", "find", "resolve"}
    PROVE  Found'
<1> SUFFICES ASSUME NEW t \in Stream PROVE FoundAt(t)'
  BY DEF Found
<1>1. FoundAt(t)
  BY DEF Found
<1>2. good'[t] \subseteq good[t] /\ good'[t] \subseteq own' \cap alive' \cap allows' \cap (linked' \cup {Edge})
  OBVIOUS
<1>3. \A n \in Node : <<t, n>> \in broken' =>
        n \notin good'[t] /\ pc[t] \notin {"idle", "policy", "find", "resolve"}
  BY <1>1, <1>2 DEF FoundAt
<1> QED BY <1>1, <1>2, <1>3 DEF FoundAt

\* Registrations, gossip, policies, links, backends and clients change.
LEMMA FoundAround ==
    ASSUME TypeOK, StreamsInv, Found, Surroundings
    PROVE  Found'
<1>1. \A t \in Stream : good[t] \subseteq own \cap alive \cap allows \cap (linked \cup {Edge})
  BY DEF Found, FoundAt
<1>2. ASSUME NEW n \in Node, Register(n) PROVE Found'
  BY <1>1, <1>2, FoundQuiet DEF Register, policies
<1>3. ASSUME NEW n \in Node, Deregister(n) PROVE Found'
  <2>1. \A t \in Stream : good'[t] = good[t] \ {n}
    BY <1>3 DEF Deregister, NotGood
  <2> QED BY <1>1, <1>3, <2>1, FoundQuiet DEF Deregister, policies
<1>4. ASSUME NEW n \in Node, BackendDown(n) PROVE Found'
  <2>1. \A t \in Stream : good'[t] = good[t] \ {n}
    BY <1>4 DEF BackendDown, NotGood
  <2> QED BY <1>1, <1>4, <2>1, FoundQuiet DEF BackendDown, policies
<1>5. ASSUME NEW n \in Node, ApplyBundle(n) PROVE Found'
  <2>1. UNCHANGED <<own, linked, alive, gone, pc, todo, relay, broken, answer>>
    BY <1>5 DEF ApplyBundle
  <2>2. CASE n \in allows
    <3>1. \A t \in Stream : good'[t] = good[t] \ {n}
      BY <1>5, <2>2 DEF ApplyBundle, NotGood
    <3>2. allows' = allows \ {n}
      BY <1>5, <2>2 DEF ApplyBundle
    <3> QED BY <1>1, <2>1, <3>1, <3>2, FoundQuiet
  <2>3. CASE n \notin allows
    <3>1. good' = good /\ allows' = allows \cup {n}
      BY <1>5, <2>3 DEF ApplyBundle
    <3> QED BY <1>1, <2>1, <3>1, FoundQuiet
  <2> QED BY <2>2, <2>3
<1>6. ASSUME NEW n \in Peer, Gossip(n) PROVE Found'
  BY <1>1, <1>6, FoundQuiet DEF Gossip, policies
<1>7. ASSUME NEW n \in Peer, LinkUp(n) PROVE Found'
  BY <1>1, <1>7, FoundQuiet DEF LinkUp, policies
<1>8. ASSUME NEW n \in Peer, LinkDown(n) PROVE Found'
  <2>1. \A t \in Stream : good'[t] = good[t] \ {n}
    BY <1>8 DEF LinkDown, NotGood
  <2>2. UNCHANGED <<own, alive, allows, gone, pc, todo, relay, answer>> /\ linked' = linked \ {n}
    BY <1>8 DEF LinkDown, policies
  <2>3. \A t \in Stream, m \in Node : <<t, m>> \in broken' =>
          <<t, m>> \in broken \/ (m = n /\ (relay[t][m] # "none" \/ pc[t] = "open"))
    BY <1>8 DEF LinkDown, OnLink
  <2>4. \A t \in Stream, m \in Node : <<t, m>> \in broken' =>
          \/ <<t, m>> \in broken
          \/ m \notin good'[t] /\ pc[t] \notin {"idle", "policy", "find", "resolve"}
    <3>1. \A t \in Stream, m \in Node : relay[t][m] # "none" =>
            pc[t] \notin {"idle", "policy", "find", "resolve"}
      BY DEF StreamsInv, FreshInv, Found, FoundAt
    <3> QED BY <2>1, <2>3, <3>1
  <2>5. \A t \in Stream : /\ good'[t] \subseteq good[t]
                          /\ good'[t] \subseteq own' \cap alive' \cap allows' \cap (linked' \cup {Edge})
    BY <1>1, <2>1, <2>2
  <2> QED BY <2>2, <2>4, <2>5, FoundQuiet
<1>9. ASSUME NEW t \in Stream, ClientGone(t) PROVE Found'
  BY <1>1, <1>9, FoundQuiet DEF ClientGone, policies
<1> QED BY <1>2, <1>3, <1>4, <1>5, <1>6, <1>7, <1>8, <1>9 DEF Surroundings

\* A step for t leaves what is found for the other streams, and what they can be
\* served by.
LEMMA FoundOthers ==
    ASSUME Found, NEW t \in Stream, UNCHANGED <<own, alive, allows, linked, gone, broken>>,
           \A u \in Stream : u # t =>
               /\ pc'[u] = pc[u] /\ todo'[u] = todo[u] /\ answer'[u] = answer[u]
               /\ relay'[u] = relay[u] /\ good'[u] = good[u],
           FoundAt(t)'
    PROVE  Found'
<1>1. ASSUME NEW u \in Stream, u # t PROVE FoundAt(u)'
  <2>1. FoundAt(u)
    BY DEF Found
  <2> QED BY <1>1, <2>1 DEF FoundAt
<1> QED BY <1>1 DEF Found

\* Two reasons for which a client gets no node.
LEMMA Reasons == \A r : <<No(r)>> = <<No("ROUTE_FAILED")>> => r = "ROUTE_FAILED"
<1>1. \A r : No(r).reason = r
  BY DEF No
<1>2. \A r : <<No(r)>> = <<No("ROUTE_FAILED")>> => No(r) = No("ROUTE_FAILED")
  OBVIOUS
<1> QED BY <1>1, <1>2

\* The first candidate is given up.
LEMMA GiveUp ==
    ASSUME NEW s \in Seq(Node), s # <<>>
    PROVE  /\ Tail(s) \in Seq(Node) /\ Head(s) \in Node
           /\ \A G : G \subseteq Listed(s) /\ Head(s) \notin G =>
                 G \subseteq Listed(Tail(s))
<1>1. PICK r, n : r = Tail(s) /\ n = Len(s)
  OBVIOUS
<1>2. n \in Nat /\ n # 0 /\ r \in Seq(Node) /\ Len(r) = n - 1 /\ Head(s) = s[1] /\ s[1] \in Node
  BY <1>1
<1>3. \A i \in 1..(n - 1) : r[i] = s[i + 1]
  BY <1>1, <1>2
<1>4. ASSUME NEW G, G \subseteq {s[i] : i \in 1..n}, s[1] \notin G, NEW x \in G
      PROVE  \E i \in 1..(n - 1) : r[i] = x
  <2>1. PICK i \in 1..n : s[i] = x
    BY <1>4
  <2>2. i # 1
    BY <1>4, <2>1
  <2>3. i - 1 \in 1..(n - 1) /\ r[i - 1] = x
    BY <1>2, <1>3, <2>1, <2>2
  <2> QED BY <2>3
<1>5. Listed(s) = {s[i] : i \in 1..n} /\ Listed(r) = {r[i] : i \in 1..(n - 1)}
  BY <1>1, <1>2 DEF Listed
<1>6. ASSUME NEW G, G \subseteq Listed(s), Head(s) \notin G PROVE G \subseteq Listed(r)
  BY <1>2, <1>4, <1>5, <1>6
<1> QED BY <1>1, <1>2, <1>6

\* The candidates are put in order: all that could serve the stream are listed.
LEMMA FoundDecide ==
    ASSUME TypeOK, StreamsInv, Found, NEW t \in Stream, NEW services \in SUBSET Node,
           pc[t] \in {"find", "resolve"}, Decide(t, services),
           UNCHANGED <<around, peers, relay, broken>>
    PROVE  Found'
<1>1. UNCHANGED <<own, alive, allows, linked, gone, broken, relay>>
  BY DEF around, policies
<1>2. FoundAt(t) /\ answer[t] = <<>> /\ \A n \in Node : relay[t][n] = "none" /\ <<t, n>> \notin broken
  BY NotAnswered DEF Found, FoundAt
<1>3. LoadsOf(Loads)
  BY DEF LoadsOf, LoadOf, Loads
<1>4. peers[t] \in SUBSET Peer
  BY DEF TypeOK
<1>5. PICK c : /\ c = Candidates(services, Edge, peers[t], Loads) /\ c \in Seq(Node)
               /\ Listed(c) = services \cap (peers[t] \cup {Edge})
  <2>1. PICK l : l = Loads
    OBVIOUS
  <2>2. LoadsOf(l)
    BY <1>3, <2>1
  <2>3. PICK seen \in SUBSET Peer : seen = peers[t]
    BY <1>4
  <2>4. PICK c : /\ c = Candidates(services, Edge, seen, l) /\ c \in Seq(Node)
                 /\ Listed(c) = services \cap (seen \cup {Edge})
                 /\ \A i, j \in 1..Len(c) : i < j =>
                       /\ c[i] # c[j] /\ c[j] # Edge
                       /\ c[i] = Edge \/ Before(l, c[i], c[j])
    BY <2>2, CandidatesAre
  <2> QED BY <2>1, <2>3, <2>4
<1>6. CASE c = <<>>
  <2>1. /\ pc' = [pc EXCEPT ![t] = "done"] /\ todo' = todo /\ good' = good
        /\ Respond(t, No("SERVICE_NOT_FOUND"))
    BY <1>5, <1>6 DEF Decide, Go
  <2>2. /\ \A u \in Stream : u # t => answer'[u] = answer[u]
        /\ answer'[t] = IF t \in gone THEN <<>> ELSE <<No("SERVICE_NOT_FOUND")>>
    BY <1>2, <2>1, Responds, Answers
  <2>3. answer'[t] # <<No("ROUTE_FAILED")>>
    <3>1. <<>> # <<No("ROUTE_FAILED")>>
      OBVIOUS
    <3>2. <<No("SERVICE_NOT_FOUND")>> # <<No("ROUTE_FAILED")>>
      BY Reasons
    <3>3. answer'[t] = <<>> \/ answer'[t] = <<No("SERVICE_NOT_FOUND")>>
      BY <2>2
    <3> QED BY <3>1, <3>2, <3>3
  <2>4. pc'[t] = "done" /\ \A u \in Stream : u # t => pc'[u] = pc[u]
    BY <2>1 DEF TypeOK
  <2>5. FoundAt(t)'
    BY <1>1, <1>2, <2>1, <2>3, <2>4, ZenonT(60) DEF FoundAt
  <2> QED BY <1>1, <2>1, <2>2, <2>4, <2>5, FoundOthers
<1>7. CASE c # <<>>
  <2>1. /\ pc' = [pc EXCEPT ![t] = "try"] /\ todo' = [todo EXCEPT ![t] = c]
        /\ good' = [good EXCEPT ![t] = Able(services, peers[t])] /\ answer' = answer
    BY <1>5, <1>7 DEF Decide, Go
  <2>2. /\ pc'[t] = "try" /\ todo'[t] = c /\ good'[t] = Able(services, peers[t])
        /\ \A u \in Stream : u # t => pc'[u] = pc[u] /\ todo'[u] = todo[u] /\ good'[u] = good[u]
    BY <2>1 DEF TypeOK
  <2>3. /\ good'[t] \subseteq own \cap alive \cap allows \cap (linked \cup {Edge})
        /\ good'[t] \subseteq Listed(c)
    BY <1>5, <2>2 DEF Able
  <2>4. answer'[t] # <<No("ROUTE_FAILED")>>
    <3>1. <<>> # <<No("ROUTE_FAILED")>>
      OBVIOUS
    <3> QED BY <1>2, <2>1, <3>1
  <2>5. FoundAt(t)'
    BY <1>1, <1>2, <1>5, <2>2, <2>3, <2>4 DEF FoundAt
  <2> QED BY <1>1, <2>1, <2>2, <2>5, FoundOthers
<1> QED BY <1>6, <1>7

\* handleStream before it has candidates.
LEMMA FoundBefore ==
    ASSUME TypeOK, StreamsInv, Found, NEW t \in Stream,
           Connect(t) \/ CheckPolicy(t) \/ FindByName(t) \/ Resolve(t)
    PROVE  Found'
<1>1. CASE Connect(t)
  <2>1. UNCHANGED <<own, alive, allows, linked, gone, broken, relay, todo, answer, good>>
    BY <1>1 DEF Connect
  <2>2. pc'[t] = "policy" /\ \A u \in Stream : u # t => pc'[u] = pc[u]
    BY <1>1 DEF Connect, Go, TypeOK
  <2>3. FoundAt(t) /\ \A n \in Node : relay[t][n] = "none" /\ <<t, n>> \notin broken
    BY <1>1 DEF Connect, Found, FoundAt, StreamsInv, FreshInv
  <2>4. FoundAt(t)'
    BY <2>1, <2>2, <2>3 DEF FoundAt
  <2> QED BY <2>1, <2>2, <2>4, FoundOthers
<1>2. CASE CheckPolicy(t)
  <2>1. UNCHANGED <<own, alive, allows, linked, gone, broken, relay, todo, good>>
    BY <1>2 DEF CheckPolicy, around, policies
  <2>2. pc'[t] \in {"find", "done"} /\ \A u \in Stream : u # t => pc'[u] = pc[u]
    BY <1>2 DEF CheckPolicy, Go, TypeOK
  <2>3. FoundAt(t) /\ answer[t] = <<>> /\ \A n \in Node : relay[t][n] = "none" /\ <<t, n>> \notin broken
    BY <1>2, NotAnswered DEF CheckPolicy, Found, FoundAt
  <2>4. answer' = answer \/ Respond(t, No("ACL_DENIED"))
    BY <1>2 DEF CheckPolicy
  <2>5. /\ \A u \in Stream : u # t => answer'[u] = answer[u]
        /\ answer'[t] = <<>> \/ answer'[t] = <<No("ACL_DENIED")>>
    <3>1. CASE answer' = answer
      BY <2>3, <3>1
    <3>2. CASE Respond(t, No("ACL_DENIED"))
      <4>1. /\ \A u \in Stream : u # t => answer'[u] = answer[u]
            /\ answer'[t] = IF t \in gone THEN <<>> ELSE <<No("ACL_DENIED")>>
        BY <2>3, <3>2, Responds, Answers
      <4> QED BY <4>1
    <3> QED BY <2>4, <3>1, <3>2
  <2>6. answer'[t] # <<No("ROUTE_FAILED")>>
    BY <2>5, Reasons
  <2>7. FoundAt(t)'
    BY <2>1, <2>2, <2>3, <2>6 DEF FoundAt
  <2> QED BY <2>1, <2>2, <2>5, <2>7, FoundOthers
<1>3. CASE FindByName(t) /\ view # {}
  <2>1. PICK services \in SUBSET Node : services = view
    BY DEF TypeOK
  <2>2. Decide(t, services) /\ UNCHANGED <<around, peers, relay, broken>> /\ pc[t] = "find"
    BY <1>3, <2>1 DEF FindByName
  <2> QED BY <2>2, FoundDecide
<1>4. CASE FindByName(t) /\ view = {}
  <2>1. UNCHANGED <<own, alive, allows, linked, gone, broken, relay, todo, answer, good>>
    BY <1>4 DEF FindByName, around, policies
  <2>2. pc'[t] = "resolve" /\ \A u \in Stream : u # t => pc'[u] = pc[u]
    BY <1>4 DEF FindByName, Go, TypeOK
  <2>3. FoundAt(t) /\ pc[t] = "find"
    BY <1>4 DEF FindByName, Found
  <2>4. FoundAt(t)'
    BY <2>1, <2>2, <2>3 DEF FoundAt
  <2> QED BY <2>1, <2>2, <2>4, FoundOthers
<1>5. CASE Resolve(t)
  <2>1. PICK services \in SUBSET Node : services = {n \in Peer : requireNodePeer /\ n \in own}
    BY DEF TypeOK
  <2>2. Decide(t, services) /\ UNCHANGED <<around, peers, relay, broken>> /\ pc[t] = "resolve"
    BY <1>5, <2>1 DEF Resolve
  <2> QED BY <2>2, FoundDecide
<1> QED BY <1>1, <1>2, <1>3, <1>4, <1>5

\* The next candidate is due: the one before could not have served the stream all
\* the time, or its client is gone.
LEMMA FoundNext ==
    ASSUME TypeOK, Found, NEW t \in Stream, UNCHANGED <<own, alive, allows, linked, gone, broken, relay, good, answer>>,
           todo' = [todo EXCEPT ![t] = Tail(@)], todo[t] # <<>>, answer[t] = <<>>,
           pc[t] \in {"try", "open", "wait", "ackLocal"}, pc'[t] = "try",
           \A u \in Stream : u # t => pc'[u] = pc[u],
           Head(todo[t]) \notin good[t] \/ t \in gone
    PROVE  Found'
<1>1. FoundAt(t)
  BY DEF Found
<1>2. PICK s \in Seq(Node) : s = todo[t] /\ s # <<>>
  BY <1>1 DEF FoundAt
<1>3. todo'[t] = Tail(s) /\ \A u \in Stream : u # t => todo'[u] = todo[u]
  BY <1>2 DEF TypeOK
<1>4. PICK r : r = Tail(s)
  OBVIOUS
<1>5. r \in Seq(Node)
  BY <1>2, <1>4, GiveUp
<1>6. t \notin gone => good[t] \subseteq Listed(r)
  <2>1. t \notin gone => good[t] \subseteq Listed(s) /\ Head(s) \notin good[t]
    BY <1>1, <1>2 DEF FoundAt
  <2> QED BY <1>2, <1>4, <2>1, GiveUp
<1>7. answer'[t] # <<No("ROUTE_FAILED")>>
  OBVIOUS
<1>8. FoundAt(t)'
  BY <1>1, <1>3, <1>4, <1>5, <1>6, <1>7 DEF FoundAt
<1> QED BY <1>3, <1>8, FoundOthers

\* A candidate is tried, and given up when it cannot serve.
LEMMA FoundTry ==
    ASSUME TypeOK, StreamsInv, Found, NEW t \in Stream,
           TryLocal(t) \/ OpenRelay(t) \/ OpenStreamSync(t) \/ RelayOpened(t) \/ RelayRefused(t)
    PROVE  Found'
<1>1. UNCHANGED <<own, alive, allows, linked, gone, broken, good, answer>>
  BY DEF TryLocal, OpenRelay, OpenStreamSync, RelayOpened, RelayRefused, around, policies
<1>2. pc[t] \in {"try", "open", "wait"} /\ answer[t] = <<>> /\ FoundAt(t)
  BY NotAnswered DEF TryLocal, OpenRelay, OpenStreamSync, RelayOpened, RelayRefused, Found
<1>3. CASE TryLocal(t)
  <2>1. todo[t] # <<>> /\ Head(todo[t]) = Edge /\ relay' = relay /\ pc[t] = "try"
    BY <1>3 DEF TryLocal
  <2>2. CASE Edge \in alive
    <3>1. todo' = todo /\ pc'[t] = "ackLocal" /\ \A u \in Stream : u # t => pc'[u] = pc[u]
      BY <1>3, <2>2 DEF TryLocal, Go, TypeOK
    <3>2. FoundAt(t)'
      BY <1>1, <1>2, <2>1, <3>1 DEF FoundAt
    <3> QED BY <1>1, <2>1, <3>1, <3>2, FoundOthers
  <2>3. CASE Edge \notin alive
    <3>1. todo' = [todo EXCEPT ![t] = Tail(@)] /\ pc' = pc
      BY <1>3, <2>3 DEF TryLocal, Next1
    <3>2. Head(todo[t]) \notin good[t]
      BY <1>2, <2>1, <2>3 DEF FoundAt
    <3> QED BY <1>1, <1>2, <2>1, <3>1, <3>2, FoundNext
  <2> QED BY <2>2, <2>3
<1>4. CASE OpenRelay(t)
  <2>1. todo[t] # <<>> /\ Head(todo[t]) # Edge /\ pc[t] = "try" /\ relay' = relay
    BY <1>4 DEF OpenRelay
  <2>2. CASE Head(todo[t]) \in linked
    <3>1. todo' = todo /\ pc'[t] = "open" /\ \A u \in Stream : u # t => pc'[u] = pc[u]
      BY <1>4, <2>2 DEF OpenRelay, Go, TypeOK
    <3>2. FoundAt(t)'
      BY <1>1, <1>2, <2>1, <3>1 DEF FoundAt
    <3> QED BY <1>1, <2>1, <3>1, <3>2, FoundOthers
  <2>3. CASE Head(todo[t]) \notin linked
    <3>1. todo' = [todo EXCEPT ![t] = Tail(@)] /\ pc' = pc
      BY <1>4, <2>3 DEF OpenRelay, Next1
    <3>2. Head(todo[t]) \notin good[t]
      BY <1>2, <2>1, <2>3 DEF FoundAt
    <3> QED BY <1>1, <1>2, <2>1, <3>1, <3>2, FoundNext, ZenonT(60)
  <2> QED BY <2>2, <2>3
<1>5. CASE RelayOpened(t)
  <2>1. todo' = todo /\ relay' = relay /\ pc[t] = "wait"
    BY <1>5 DEF RelayOpened
  <2>2. pc'[t] = "ackPeer" /\ \A u \in Stream : u # t => pc'[u] = pc[u]
    BY <1>5 DEF RelayOpened, Go, TypeOK
  <2>3. FoundAt(t)'
    BY <1>1, <1>2, <2>1, <2>2 DEF FoundAt
  <2> QED BY <1>1, <2>1, <2>2, <2>3, FoundOthers
<1>6. CASE RelayRefused(t)
  <2>1. /\ pc[t] \in {"open", "wait"} /\ relay' = relay /\ todo' = [todo EXCEPT ![t] = Tail(@)]
        /\ <<t, Head(todo[t])>> \in broken \/ relay[t][Head(todo[t])] = "refused"
    BY <1>6 DEF RelayRefused, Next1
  <2>2. pc'[t] = "try" /\ \A u \in Stream : u # t => pc'[u] = pc[u]
    BY <1>6 DEF RelayRefused, Go, TypeOK
  <2>3. todo[t] # <<>> /\ Head(todo[t]) \in Node
    BY <1>2, <2>1, GiveUp DEF FoundAt
  <2>4. Head(todo[t]) \notin good[t]
    BY <1>2, <2>1, <2>3 DEF FoundAt
  <2> QED BY <1>1, <1>2, <2>1, <2>2, <2>3, <2>4, FoundNext, ZenonT(60)
<1>7. CASE OpenStreamSync(t)
  <2>1. PICK n : n = Head(todo[t])
    OBVIOUS
  <2>2. todo' = todo /\ pc[t] = "open" /\ relay' = [relay EXCEPT ![t][n] = "read"]
    BY <1>7, <2>1 DEF OpenStreamSync
  <2>3. pc'[t] = "wait" /\ \A u \in Stream : u # t => pc'[u] = pc[u]
    BY <1>7 DEF OpenStreamSync, Go, TypeOK
  <2>4. \A u \in Stream : u # t => relay'[u] = relay[u]
    BY <2>2 DEF TypeOK
  <2>5. \A m \in Node : relay'[t][m] = relay[t][m] \/ relay'[t][m] = "read"
    BY <2>2 DEF TypeOK
  <2>6. FoundAt(t)'
    BY <1>1, <1>2, <2>2, <2>3, <2>5, ZenonT(60) DEF FoundAt
  <2> QED BY <1>1, <2>2, <2>3, <2>4, <2>6, FoundOthers
<1> QED BY <1>3, <1>4, <1>5, <1>6, <1>7

\* The client is answered, or is found to be gone.
LEMMA FoundAnswer ==
    ASSUME TypeOK, StreamsInv, Found, NEW t \in Stream, AckLocal(t) \/ AckPeer(t) \/ RouteFailed(t)
    PROVE  Found'
<1>1. UNCHANGED <<own, alive, allows, linked, gone, broken, good, relay>>
  BY DEF AckLocal, AckPeer, RouteFailed, around, policies
<1>2. pc[t] \in {"ackLocal", "ackPeer", "try"} /\ answer[t] = <<>> /\ FoundAt(t)
  BY NotAnswered DEF AckLocal, AckPeer, RouteFailed, Found
<1>3. CASE AckLocal(t) /\ t \in gone
  <2>1. /\ pc[t] = "ackLocal" /\ answer' = answer /\ todo' = [todo EXCEPT ![t] = Tail(@)]
    BY <1>3 DEF AckLocal, Respond, Next1
  <2>2. pc'[t] = "try" /\ \A u \in Stream : u # t => pc'[u] = pc[u]
    BY <1>3 DEF AckLocal, Go, TypeOK
  <2>3. todo[t] # <<>>
    BY <1>2, <2>1 DEF FoundAt
  <2> QED BY <1>1, <1>2, <1>3, <2>1, <2>2, <2>3, FoundNext, ZenonT(60)
<1>4. CASE AckPeer(t) \/ (AckLocal(t) /\ t \notin gone)
  <2>1. PICK n \in Node : Respond(t, OK(n))
    <3>1. AckLocal(t) => Respond(t, OK(Edge)) /\ Edge \in Node
      BY RoutingAssumption DEF AckLocal
    <3>2. AckPeer(t) => Respond(t, OK(Head(todo[t]))) /\ todo[t] # <<>> /\ todo[t] \in Seq(Node)
      BY <1>2 DEF AckPeer, FoundAt
    <3>3. AckPeer(t) => Head(todo[t]) \in Node
      BY <3>2, GiveUp
    <3> QED BY <1>4, <3>1, <3>2, <3>3
  <2>2. /\ \A u \in Stream : u # t => answer'[u] = answer[u]
        /\ answer'[t] = IF t \in gone THEN <<>> ELSE <<OK(n)>>
    BY <1>2, <2>1, Responds, Answers
  <2>3. answer'[t] # <<No("ROUTE_FAILED")>>
    BY <2>2, Answers
  <2>4. todo' = todo /\ pc'[t] \in {"relay", "done"} /\ \A u \in Stream : u # t => pc'[u] = pc[u]
    BY <1>4 DEF AckLocal, AckPeer, Go, TypeOK
  <2>5. FoundAt(t)'
    BY <1>1, <1>2, <2>3, <2>4 DEF FoundAt
  <2> QED BY <1>1, <2>2, <2>4, <2>5, FoundOthers
<1>5. CASE RouteFailed(t)
  <2>1. todo[t] = <<>> /\ pc[t] = "try" /\ todo' = todo /\ Respond(t, No("ROUTE_FAILED"))
    BY <1>5 DEF RouteFailed
  <2>2. pc'[t] = "done" /\ \A u \in Stream : u # t => pc'[u] = pc[u]
    BY <1>5 DEF RouteFailed, Go, TypeOK
  <2>3. /\ \A u \in Stream : u # t => answer'[u] = answer[u]
        /\ answer'[t] = IF t \in gone THEN <<>> ELSE <<No("ROUTE_FAILED")>>
    BY <1>2, <2>1, Responds, Answers
  <2>4. t \notin gone => good[t] = {}
    <3>1. t \notin gone => good[t] \subseteq Listed(todo[t])
      BY <1>2, <2>1 DEF FoundAt
    <3>2. Listed(todo[t]) = {}
      BY <2>1, ListedNone
    <3> QED BY <3>1, <3>2
  <2>5. answer'[t] = <<No("ROUTE_FAILED")>> => good[t] = {}
    <3>1. <<>> # <<No("ROUTE_FAILED")>>
      OBVIOUS
    <3> QED BY <2>3, <2>4, <3>1
  <2>6. FoundAt(t)'
    BY <1>1, <1>2, <2>1, <2>2, <2>5, ZenonT(60) DEF FoundAt
  <2> QED BY <1>1, <2>1, <2>2, <2>3, <2>6, FoundOthers
<1> QED BY <1>3, <1>4, <1>5

\* HandleStream on a peer refuses only what it could not have served all the time.
LEMMA FoundPeer ==
    ASSUME TypeOK, StreamsInv, Found, NEW t \in Stream, NEW n \in Peer, HandlePeer(t, n)
    PROVE  Found'
<1>1. UNCHANGED <<own, alive, allows, linked, gone, broken, good, answer, pc, todo>>
  BY DEF HandlePeer, HandleStream, DialBackend, HandleEnds, HandleFinishes, around, policies
<1>2. PICK r \in RelayState :
        /\ relay' = [relay EXCEPT ![t][n] = r] /\ relay[t][n] # "none" /\ r # "none"
        /\ r = "refused" => n \notin own \cap alive \cap allows
  BY DEF HandlePeer, HandleStream, DialBackend, HandleEnds, HandleFinishes, RelayState
<1>3. n \in Node /\ FoundAt(t)
  BY DEF Peer, Found
<1>4. \A u \in Stream : u # t => relay'[u] = relay[u]
  BY <1>2 DEF TypeOK
<1>5. relay'[t][n] = r /\ \A m \in Node : m # n => relay'[t][m] = relay[t][m]
  BY <1>2, <1>3 DEF TypeOK
<1>6. pc[t] \notin {"policy", "find", "resolve"}
  BY <1>2, <1>3 DEF FoundAt
<1>7. \A m \in Node : relay'[t][m] = "refused" => m \notin good[t]
  BY <1>2, <1>3, <1>5 DEF FoundAt
<1>8. \A m \in Node : <<t, m>> \in broken =>
        m \notin good[t] /\ pc[t] \notin {"idle", "policy", "find", "resolve"}
  BY <1>3 DEF FoundAt
<1>9. FoundAt(t)'
  BY <1>1, <1>3, <1>6, <1>7, <1>8, ZenonT(60) DEF FoundAt
<1> QED BY <1>1, <1>4, <1>9, FoundOthers

-----------------------------------------------------------------------------
(* The end of the search.                                                  *)

\* The places of handleStream, and how far they are from its end.
LEMMA Distances ==
    ASSUME NEW k
    PROVE  /\ StepsFrom("idle", k) = 4 * Cardinality(Node) + 6
           /\ StepsFrom("policy", k) = 4 * Cardinality(Node) + 5
           /\ StepsFrom("find", k) = 4 * Cardinality(Node) + 4
           /\ StepsFrom("resolve", k) = 4 * Cardinality(Node) + 3
           /\ StepsFrom("try", k) = 4 * k + 2
           /\ StepsFrom("open", k) = 4 * k + 1 /\ StepsFrom("ackLocal", k) = 4 * k + 1
           /\ StepsFrom("wait", k) = 4 * k /\ StepsFrom("ackPeer", k) = 4 * k - 1
           /\ StepsFrom("relay", k) = 0 /\ StepsFrom("done", k) = 0
BY DEF StepsFrom

\* What a step of the edge for t does to its place and its candidates.
Moved(t) ==
    \/ pc[t] = "policy" /\ pc'[t] \in {"find", "done"}
    \/ pc[t] = "find" /\ pc'[t] = "resolve"
    \/ pc[t] \in {"find", "resolve"} /\ pc'[t] = "done"
    \/ pc[t] \in {"find", "resolve"} /\ pc'[t] = "try" /\ Len(todo'[t]) \in 0..Cardinality(Node)
    \/ pc[t] = "try" /\ pc'[t] \in {"open", "ackLocal"} /\ todo'[t] = todo[t]
    \/ pc[t] \in {"try", "open", "wait", "ackLocal"} /\ pc'[t] = "try" /\ Len(todo'[t]) = Len(todo[t]) - 1
    \/ pc[t] = "open" /\ pc'[t] = "wait" /\ todo'[t] = todo[t]
    \/ pc[t] = "wait" /\ pc'[t] = "ackPeer" /\ todo'[t] = todo[t]
    \/ pc[t] \in {"try", "ackLocal", "ackPeer"} /\ pc'[t] \in {"relay", "done"}

OthersStay(t) ==
    \A u \in Stream : u # t => pc'[u] = pc[u] /\ todo'[u] = todo[u] /\ answer'[u] = answer[u]

LEMMA Nearer ==
    ASSUME NEW t \in Stream, FoundAt(t), FoundAt(t)', Moved(t)
    PROVE  0 <= StepsLeft(t)' /\ StepsLeft(t)' < StepsLeft(t)
<1>1. PICK k : k = Len(todo[t])
  OBVIOUS
<1>2. PICK m : m = Len(todo'[t])
  OBVIOUS
<1>3. PICK c : c = Cardinality(Node)
  OBVIOUS
<1>4. c \in Nat
  BY <1>3, RoutingAssumption, FS_CardinalityType
<1>5. k \in Nat /\ (pc[t] \in {"open", "wait", "ackLocal", "ackPeer"} => k >= 1)
  <2>1. PICK s \in Seq(Node) : s = todo[t]
    BY DEF FoundAt
  <2>2. Len(s) \in Nat /\ (s # <<>> => Len(s) >= 1)
    OBVIOUS
  <2>3. pc[t] \in {"open", "wait", "ackLocal", "ackPeer"} => s # <<>>
    BY <2>1 DEF FoundAt
  <2> QED BY <1>1, <2>1, <2>2, <2>3
<1>6. StepsLeft(t) = StepsFrom(pc[t], k) /\ StepsLeft(t)' = StepsFrom(pc'[t], m)
  BY <1>1, <1>2 DEF StepsLeft, StepsFrom
<1>7. /\ StepsFrom("policy", k) = 4 * c + 5 /\ StepsFrom("find", k) = 4 * c + 4
      /\ StepsFrom("resolve", k) = 4 * c + 3 /\ StepsFrom("try", k) = 4 * k + 2
      /\ StepsFrom("open", k) = 4 * k + 1 /\ StepsFrom("ackLocal", k) = 4 * k + 1
      /\ StepsFrom("wait", k) = 4 * k /\ StepsFrom("ackPeer", k) = 4 * k - 1
  BY <1>3, Distances
<1>8. /\ StepsFrom("find", m) = 4 * c + 4 /\ StepsFrom("resolve", m) = 4 * c + 3
      /\ StepsFrom("try", m) = 4 * m + 2 /\ StepsFrom("open", m) = 4 * m + 1
      /\ StepsFrom("ackLocal", m) = 4 * m + 1 /\ StepsFrom("wait", m) = 4 * m
      /\ StepsFrom("ackPeer", m) = 4 * m - 1
      /\ StepsFrom("relay", m) = 0 /\ StepsFrom("done", m) = 0
  BY <1>3, Distances
<1>9. \/ pc[t] = "policy" /\ pc'[t] \in {"find", "done"}
      \/ pc[t] = "find" /\ pc'[t] = "resolve"
      \/ pc[t] \in {"find", "resolve"} /\ pc'[t] = "done"
      \/ pc[t] \in {"find", "resolve"} /\ pc'[t] = "try" /\ m \in 0..c
      \/ pc[t] = "try" /\ pc'[t] \in {"open", "ackLocal"} /\ m = k
      \/ pc[t] \in {"try", "open", "wait", "ackLocal"} /\ pc'[t] = "try" /\ m = k - 1
      \/ pc[t] = "open" /\ pc'[t] = "wait" /\ m = k
      \/ pc[t] = "wait" /\ pc'[t] = "ackPeer" /\ m = k
      \/ pc[t] \in {"try", "ackLocal", "ackPeer"} /\ pc'[t] \in {"relay", "done"}
  BY <1>1, <1>2, <1>3 DEF Moved
<1>10. m \in Nat
  <2>1. PICK s \in Seq(Node) : s = todo'[t]
    BY DEF FoundAt
  <2> QED BY <1>2, <2>1
<1> QED BY <1>4, <1>5, <1>6, <1>7, <1>8, <1>9, <1>10

\* Candidates lists each node once at most.
LEMMA FewCandidates ==
    ASSUME TypeOK, NEW t \in Stream, NEW services \in SUBSET Node
    PROVE  Len(Candidates(services, Edge, peers[t], Loads)) \in 0..Cardinality(Node)
<1>1. PICK l : l = Loads
  OBVIOUS
<1>2. LoadsOf(l)
  BY <1>1 DEF LoadsOf, LoadOf, Loads
<1>3. PICK seen \in SUBSET Peer : seen = peers[t]
  BY DEF TypeOK
<1>4. PICK c : /\ c = Candidates(services, Edge, seen, l) /\ c \in Seq(Node)
               /\ \A i, j \in 1..Len(c) : i < j => c[i] # c[j]
  <2>1. PICK c : /\ c = Candidates(services, Edge, seen, l) /\ c \in Seq(Node)
                 /\ Listed(c) = services \cap (seen \cup {Edge})
                 /\ \A i, j \in 1..Len(c) : i < j =>
                       /\ c[i] # c[j] /\ c[j] # Edge
                       /\ c[i] = Edge \/ Before(l, c[i], c[j])
    BY <1>2, CandidatesAre
  <2> QED BY <2>1
<1>5. PICK n : n = Len(c)
  OBVIOUS
<1>6. n \in Nat /\ c \in [1..n -> Node]
  BY <1>4, <1>5
<1>7. \A i, j \in 1..n : c[i] = c[j] => i = j
  BY <1>4, <1>5, <1>6
<1>8. c \in Injection(1..n, Node)
  BY <1>6, <1>7 DEF Injection, IsInjective
<1>9. Cardinality(1..n) = n
  BY <1>6, FS_Interval
<1>10. n <= Cardinality(Node) /\ Cardinality(Node) \in Nat
  BY <1>8, <1>9, RoutingAssumption, FS_Injection, FS_CardinalityType
<1> QED BY <1>1, <1>3, <1>4, <1>5, <1>6, <1>10

\* A step of handleStream is for one client.
LEMMA OneStream ==
    ASSUME TypeOK, NEW t \in Stream, Handle(t)
    PROVE  OthersStay(t)
<1>1. pc' = pc \/ \E where : Go(t, where)
  BY DEF Handle, CheckPolicy, FindByName, Resolve, Decide, TryLocal, AckLocal, OpenRelay,
               OpenStreamSync, RelayOpened, RelayRefused, AckPeer, RouteFailed
<1>2. todo' = todo \/ \E c : todo' = [todo EXCEPT ![t] = c]
  BY DEF Handle, CheckPolicy, FindByName, Resolve, Decide, TryLocal, AckLocal, OpenRelay,
               OpenStreamSync, RelayOpened, RelayRefused, AckPeer, RouteFailed, Next1
<1>3. answer' = answer \/ \E a : Respond(t, a)
  BY DEF Handle, CheckPolicy, FindByName, Resolve, Decide, TryLocal, AckLocal, OpenRelay,
               OpenStreamSync, RelayOpened, RelayRefused, AckPeer, RouteFailed
<1>4. \A u \in Stream : u # t => pc'[u] = pc[u] /\ todo'[u] = todo[u]
  BY <1>1, <1>2 DEF Go, TypeOK
<1>5. \A u \in Stream : u # t => answer'[u] = answer[u]
  BY <1>3 DEF Respond, TypeOK
<1> QED BY <1>4, <1>5 DEF OthersStay

\* The first candidate is given up.
LEMMA OneLess ==
    ASSUME TypeOK, NEW t \in Stream, FoundAt(t), todo[t] # <<>>, Next1(t)
    PROVE  Len(todo'[t]) = Len(todo[t]) - 1
<1>1. PICK s \in Seq(Node) : s = todo[t] /\ s # <<>>
  BY DEF FoundAt
<1>2. Len(Tail(s)) = Len(s) - 1
  BY <1>1
<1>3. todo'[t] = Tail(s)
  BY <1>1 DEF TypeOK, Next1
<1> QED BY <1>1, <1>2, <1>3

\* Every step of handleStream brings its stream nearer to the end of the search.
LEMMA HandleMoves ==
    ASSUME TypeOK, NEW t \in Stream, FoundAt(t), Handle(t)
    PROVE  Moved(t)
<1>1. \A where : Go(t, where) => pc'[t] = where
  BY DEF Go, TypeOK
<1>2. Next1(t) /\ todo[t] # <<>> => Len(todo'[t]) = Len(todo[t]) - 1
  BY OneLess
<1>3. pc[t] \in {"open", "wait", "ackLocal"} => todo[t] # <<>>
  BY DEF FoundAt
<1>4. ASSUME NEW services \in SUBSET Node, pc[t] \in {"find", "resolve"}, Decide(t, services)
      PROVE  Moved(t)
  <2>1. PICK c : c = Candidates(services, Edge, peers[t], Loads)
    OBVIOUS
  <2>2. Len(c) \in 0..Cardinality(Node)
    BY <2>1, FewCandidates
  <2>3. \/ Go(t, "done")
        \/ Go(t, "try") /\ todo' = [todo EXCEPT ![t] = c]
    BY <1>4, <2>1 DEF Decide
  <2>4. pc'[t] = "done" \/ (pc'[t] = "try" /\ todo'[t] = c)
    BY <1>1, <2>3 DEF TypeOK
  <2> QED BY <1>4, <2>2, <2>4 DEF Moved
<1>5. CASE CheckPolicy(t)
  BY <1>1, <1>5 DEF CheckPolicy, Moved
<1>6. CASE FindByName(t)
  <2>1. PICK services \in SUBSET Node : services = view
    BY DEF TypeOK
  <2>2. pc[t] = "find" /\ (Decide(t, services) \/ Go(t, "resolve"))
    BY <1>6, <2>1 DEF FindByName
  <2> QED BY <1>1, <1>4, <2>2 DEF Moved
<1>7. CASE Resolve(t)
  <2>1. PICK services \in SUBSET Node : services = {n \in Peer : requireNodePeer /\ n \in own}
    BY DEF TypeOK
  <2> QED BY <1>4, <1>7, <2>1 DEF Resolve
<1>8. CASE TryLocal(t) \/ OpenRelay(t)
  <2>1. /\ pc[t] = "try" /\ todo[t] # <<>>
        /\ \/ (Go(t, "ackLocal") \/ Go(t, "open")) /\ todo' = todo
           \/ pc' = pc /\ Next1(t)
    BY <1>8 DEF TryLocal, OpenRelay
  <2> QED BY <1>1, <1>2, <2>1 DEF Moved
<1>9. CASE AckLocal(t)
  BY <1>1, <1>2, <1>3, <1>9 DEF AckLocal, Moved
<1>10. CASE OpenStreamSync(t) \/ RelayOpened(t) \/ RelayRefused(t)
  <2>1. \/ pc[t] = "open" /\ Go(t, "wait") /\ todo' = todo
        \/ pc[t] = "wait" /\ Go(t, "ackPeer") /\ todo' = todo
        \/ pc[t] \in {"open", "wait"} /\ Go(t, "try") /\ Next1(t)
    BY <1>10 DEF OpenStreamSync, RelayOpened, RelayRefused
  <2> QED BY <1>1, <1>2, <1>3, <2>1 DEF Moved
<1>11. CASE AckPeer(t) \/ RouteFailed(t)
  BY <1>1, <1>11 DEF AckPeer, RouteFailed, Moved
<1> QED BY <1>5, <1>6, <1>7, <1>8, <1>9, <1>10, <1>11, ZenonT(60) DEF Handle
-----------------------------------------------------------------------------
(* What the edge waits for.                                                *)

\* What WaitInv says of one stream.
WaitsAt(t) ==
    /\ pc[t] = "open" => <<t, Head(todo[t])>> \in broken \/ Head(todo[t]) \in linked
    /\ pc[t] = "wait" =>
          \/ <<t, Head(todo[t])>> \in broken
          \/ relay[t][Head(todo[t])] \in {"read", "dial", "refused", "relay"}

LEMMA WaitIs ==
    /\ WaitInv <=> \A t \in Stream : WaitsAt(t)
    /\ WaitInv' <=> \A t \in Stream : WaitsAt(t)'
<1>1. WaitInv <=> \A t \in Stream : WaitsAt(t)
  BY DEF WaitInv, WaitsAt
<1>2. WaitInv' <=> \A t \in Stream : WaitsAt(t)'
  BY DEF WaitInv, WaitsAt
<1> QED BY <1>1, <1>2

\* A stream that does not begin to wait, in a step in which its peer stays as it is, and
\* a connection that is lost takes the stream with it.
LEMMA WaitKept ==
    ASSUME NEW t \in Stream, WaitsAt(t), broken \subseteq broken',
           pc'[t] \in {"open", "wait"} => pc'[t] = pc[t] /\ todo'[t] = todo[t] /\ relay'[t] = relay[t],
           pc[t] = "open" /\ Head(todo[t]) \in linked =>
               Head(todo[t]) \in linked' \/ <<t, Head(todo[t])>> \in broken'
    PROVE  WaitsAt(t)'
<1>1. CASE pc'[t] \notin {"open", "wait"}
  BY <1>1 DEF WaitsAt
<1>2. CASE pc'[t] \in {"open", "wait"}
  BY <1>2 DEF WaitsAt
<1> QED BY <1>1, <1>2

LEMMA WaitAround ==
    ASSUME TypeOK, WaitInv, Surroundings
    PROVE  WaitInv'
<1>1. UNCHANGED <<pc, todo, relay>> /\ broken \subseteq broken'
  BY DEF Surroundings, Register, Deregister, BackendDown, ApplyBundle, Gossip, LinkUp, LinkDown, ClientGone
<1>2. \A t \in Stream : pc[t] = "open" /\ Head(todo[t]) \in linked =>
        Head(todo[t]) \in linked' \/ <<t, Head(todo[t])>> \in broken'
  <2>1. linked \subseteq linked' \/ \E n \in Peer : LinkDown(n)
    BY DEF Surroundings, Register, Deregister, BackendDown, ApplyBundle, Gossip, LinkUp, ClientGone
  <2>2. ASSUME NEW n \in Peer, LinkDown(n), NEW t \in Stream, pc[t] = "open", Head(todo[t]) \in linked
        PROVE  Head(todo[t]) \in linked' \/ <<t, Head(todo[t])>> \in broken'
    <3>1. CASE Head(todo[t]) = n
      <4>1. t \in OnLink(n)
        BY <2>2, <3>1 DEF OnLink
      <4> QED BY <2>2, <3>1, <4>1 DEF LinkDown
    <3>2. CASE Head(todo[t]) # n
      BY <2>2, <3>2 DEF LinkDown
    <3> QED BY <3>1, <3>2
  <2> QED BY <2>1, <2>2
<1>3. ASSUME NEW t \in Stream PROVE WaitsAt(t)'
  <2>1. WaitsAt(t)
    BY WaitIs
  <2> QED BY <1>1, <1>2, <2>1, WaitKept
<1> QED BY <1>3, WaitIs

\* OpenRelay: the edge begins to wait for a connection that is up, and for an answer
\* when the candidate has the stream.
LEMMA WaitHandle ==
    ASSUME TypeOK, WaitInv, NEW t \in Stream, FoundAt(t), Handle(t)
    PROVE  WaitInv'
<1>1. Moved(t) /\ OthersStay(t)
  BY HandleMoves, OneStream
<1>2. broken' = broken /\ linked' = linked
  BY DEF Handle, CheckPolicy, FindByName, Resolve, TryLocal, AckLocal, OpenRelay, OpenStreamSync,
         RelayOpened, RelayRefused, AckPeer, RouteFailed, around
<1>3. relay' = relay \/ OpenStreamSync(t)
  BY DEF Handle, CheckPolicy, FindByName, Resolve, TryLocal, AckLocal, OpenRelay, RelayOpened,
         RelayRefused, AckPeer, RouteFailed
<1>4. \A u \in Stream : u # t => relay'[u] = relay[u]
  BY <1>3 DEF OpenStreamSync, TypeOK
<1>5. ASSUME NEW u \in Stream, u # t PROVE WaitsAt(u)'
  <2>1. WaitsAt(u) /\ pc'[u] = pc[u] /\ todo'[u] = todo[u] /\ relay'[u] = relay[u]
    BY <1>1, <1>4, <1>5, WaitIs DEF OthersStay
  <2> QED BY <1>2, <2>1, WaitKept
<1>6. WaitsAt(t)'
  <2>1. CASE pc'[t] \notin {"open", "wait"}
    BY <2>1 DEF WaitsAt
  <2>2. CASE pc'[t] = "open"
    <3>1. pc[t] = "try"
      BY <1>1, <2>2 DEF Moved
    <3>2. TryLocal(t) \/ OpenRelay(t) \/ RouteFailed(t)
      BY <3>1, ZenonT(60) DEF Handle, CheckPolicy, FindByName, Resolve, AckLocal, OpenStreamSync,
                              RelayOpened, RelayRefused, AckPeer
    <3>3. ~TryLocal(t) /\ ~RouteFailed(t)
      BY <2>2, <3>1, ZenonT(60) DEF TryLocal, RouteFailed, Go, TypeOK
    <3>4. Head(todo[t]) \in linked /\ todo' = todo
      BY <2>2, <3>1, <3>2, <3>3 DEF OpenRelay
    <3> QED BY <1>2, <2>2, <3>4 DEF WaitsAt
  <2>3. CASE pc'[t] = "wait"
    <3>1. pc[t] = "open"
      BY <1>1, <2>3 DEF Moved
    <3>2. OpenStreamSync(t) \/ RelayRefused(t)
      BY <3>1, ZenonT(60) DEF Handle, CheckPolicy, FindByName, Resolve, TryLocal, AckLocal, OpenRelay,
                              RelayOpened, AckPeer, RouteFailed
    <3>3. ~RelayRefused(t)
      BY <2>3, ZenonT(60) DEF RelayRefused, Go, TypeOK
    <3>4. PICK n : n = Head(todo[t])
      OBVIOUS
    <3>5. todo[t] # <<>> /\ todo' = todo /\ relay' = [relay EXCEPT ![t][n] = "read"]
      BY <3>1, <3>2, <3>3, <3>4 DEF OpenStreamSync, FoundAt
    <3>6. n \in Node
      BY <3>4, <3>5 DEF FoundAt
    <3>7. relay'[t][n] = "read"
      BY <3>5, <3>6 DEF TypeOK
    <3> QED BY <2>3, <3>4, <3>5, <3>7 DEF WaitsAt
  <2> QED BY <2>1, <2>2, <2>3
<1> QED BY <1>5, <1>6, WaitIs

\* HandleStream on a peer: it goes on, or its connection is lost.
LEMMA WaitPeer ==
    ASSUME TypeOK, AnswerInv, WaitInv, NEW t \in Stream, NEW n \in Peer, HandlePeer(t, n)
    PROVE  WaitInv'
<1>1. UNCHANGED <<pc, todo, broken, linked>>
  BY DEF HandlePeer, HandleStream, DialBackend, HandleEnds, HandleFinishes, around
<1>2. n \in Node
  BY DEF Peer
<1>3. PICK r \in RelayState :
        /\ relay' = [relay EXCEPT ![t][n] = r]
        /\ r \in {"dial", "refused", "relay"} \/ <<t, n>> \in broken \/ pc[t] = "done"
  BY DEF HandlePeer, HandleStream, DialBackend, HandleEnds, HandleFinishes, RelayState
<1>4. /\ \A u \in Stream : u # t => relay'[u] = relay[u]
      /\ relay'[t][n] = r /\ \A m \in Node : m # n => relay'[t][m] = relay[t][m]
  <2>1. \A u \in Stream : u # t => relay'[u] = relay[u]
    BY <1>3 DEF TypeOK
  <2>2. relay'[t][n] = r /\ \A m \in Node : m # n => relay'[t][m] = relay[t][m]
    BY <1>2, <1>3 DEF TypeOK
  <2> QED BY <2>1, <2>2
<1>5. ASSUME NEW u \in Stream PROVE WaitsAt(u)'
  <2>1. WaitsAt(u)
    BY WaitIs
  <2>2. CASE pc[u] # "wait"
    BY <1>1, <2>1, <2>2 DEF WaitsAt
  <2>3. CASE pc[u] = "wait"
    <3>1. PICK m \in Node : m = Head(todo[u])
      BY <2>3, ZenonT(60) DEF AnswerInv, Peer
    <3>2. <<u, m>> \in broken \/ relay[u][m] \in {"read", "dial", "refused", "relay"}
      BY <2>1, <2>3, <3>1 DEF WaitsAt
    <3>3. <<u, m>> \in broken' \/ relay'[u][m] \in {"read", "dial", "refused", "relay"}
      BY <1>1, <1>3, <1>4, <2>3, <3>2
    <3> QED BY <1>1, <2>3, <3>1, <3>3 DEF WaitsAt
  <2> QED BY <2>2, <2>3
<1> QED BY <1>5, WaitIs
-----------------------------------------------------------------------------
\* The inductive invariant, for every set of nodes and streams and any changes.
THEOREM Invariance == Spec => []IndInv
<1>1. Init => IndInv
  <2> SUFFICES ASSUME Init PROVE IndInv
    OBVIOUS
  <2>1. TypeOK
    BY RoutingAssumption DEF Init, TypeOK, RelayState
  <2>2. FreshInv /\ DecidedInv /\ WorksInv
    BY RoutingAssumption DEF Init, FreshInv, DecidedInv, WorksInv
  <2>3. AnswerInv
    <3>1. \A n : <<>> # <<OK(n)>>
      OBVIOUS
    <3> QED BY <3>1 DEF Init, AnswerInv
  <2>4. Found
    <3>1. \A r : <<>> # <<No(r)>>
      OBVIOUS
    <3>2. \A t \in Stream : /\ good[t] = {} /\ todo[t] = <<>> /\ pc[t] = "idle" /\ answer[t] = <<>>
                           /\ broken = {} /\ \A n \in Node : relay[t][n] = "none"
      BY DEF Init
    <3>3. <<>> \in Seq(Node)
      OBVIOUS
    <3> QED BY <3>1, <3>2, <3>3, ZenonT(60) DEF Found, FoundAt
  <2>5. WaitInv
    BY DEF Init, WaitInv
  <2> QED BY <2>1, <2>2, <2>3, <2>4, <2>5, FoundIs DEF IndInv
<1>2. IndInv /\ [Next]_vars => IndInv'
  <2> SUFFICES ASSUME TypeOK, StreamsInv, Found, WaitInv, [Next]_vars PROVE TypeOK' /\ StreamsInv' /\ Found' /\ WaitInv'
    BY FoundIs DEF IndInv, StreamsInv
  <2>1. CASE Surroundings
    BY <2>1, SurroundingsStep, FoundAround, WaitAround
  <2>2. ASSUME NEW t \in Stream, Connect(t) PROVE TypeOK' /\ StreamsInv' /\ Found' /\ WaitInv'
    <3>1. \A u \in Stream : pc'[u] \in {"open", "wait"} => pc'[u] = pc[u]
      BY <2>2 DEF Connect, Go, TypeOK
    <3>2. UNCHANGED <<todo, relay, broken, linked>>
      BY <2>2 DEF Connect
    <3>3. ASSUME NEW u \in Stream PROVE WaitsAt(u)'
      <4>1. WaitsAt(u)
        BY WaitIs
      <4> QED BY <3>1, <3>2, <4>1, WaitKept
    <3> QED BY <2>2, <3>3, ConnectStep, FoundBefore, WaitIs
  <2>3. ASSUME NEW t \in Stream, Handle(t) PROVE TypeOK' /\ StreamsInv' /\ Found' /\ WaitInv'
    <3>1. TypeOK' /\ StreamsInv'
      BY <2>3, CheckPolicyStep, FindStep, TryStep, AnswerStep, OpenStreamStep DEF Handle
    <3>2. Found'
      BY <2>3, FoundBefore, FoundTry, FoundAnswer DEF Handle
    <3>3. WaitInv'
      BY <2>3, WaitHandle DEF Found
    <3> QED BY <3>1, <3>2, <3>3
  <2>4. ASSUME NEW t \in Stream, NEW n \in Peer, HandlePeer(t, n)
        PROVE  TypeOK' /\ StreamsInv' /\ Found' /\ WaitInv'
    BY <2>4, PeerStep, FoundPeer, WaitPeer DEF StreamsInv
  <2>5. CASE UNCHANGED vars
    <3>1. UNCHANGED <<pc, todo, relay, answer, broken, allows, permitted, gone, good, own, alive, linked>>
      BY <2>5 DEF vars, around, policies
    <3>2. TypeOK'
      BY <2>5 DEF vars, around, policies, TypeOK
    <3>3. StreamsInv'
      BY <3>1, QuietStep DEF StreamsInv, DecidedInv
    <3>4. \A t \in Stream : good[t] \subseteq own \cap alive \cap allows \cap (linked \cup {Edge})
      BY DEF Found, FoundAt
    <3>5. Found'
      BY <3>1, <3>4, FoundQuiet
    <3>6. WaitInv'
      BY <3>1 DEF WaitInv
    <3> QED BY <3>2, <3>3, <3>5, <3>6
  <2> QED BY <2>1, <2>2, <2>3, <2>4, <2>5 DEF Next
<1> QED BY <1>1, <1>2, PTL DEF Spec

\* handleStream and HandleStream: a backend is connected for a client only where the
\* edge and the backend's node have both allowed it since its stream began.
THEOREM AdmittedHolds == Spec => []Admitted
<1>1. IndInv => Admitted
  <2> SUFFICES ASSUME IndInv, NEW t \in Stream, NEW n \in Node, Serves(t, n)
               PROVE  Edge \in permitted[t] /\ n \in permitted[t]
    BY DEF Admitted
  <2>1. CASE n = Edge
    BY <2>1 DEF Serves, IndInv, DecidedInv
  <2>2. CASE n # Edge
    BY <2>2 DEF Serves, IndInv, DecidedInv
  <2> QED BY <2>1, <2>2
<1> QED BY <1>1, Invariance, PTL

\* handleStream gives up a candidate before it tries the next: of any number of
\* candidates, one backend at most is connected for a stream and not cut off from the
\* edge, and it is that of the node that the client was told of.
THEOREM OneReachedHolds == Spec => []OneReached
<1>1. IndInv => OneReached
  <2> SUFFICES ASSUME IndInv, NEW t \in Stream
               PROVE  /\ \A m, n \in Reached(t) : m = n
                      /\ \A n \in Node : answer[t] = <<OK(n)>> => Reached(t) \subseteq {n}
    BY DEF OneReached
  <2>1. ASSUME NEW n \in Reached(t) PROVE n = Head(todo[t])
    <3>1. n \in Node /\ Serves(t, n) /\ <<t, n>> \notin broken
      BY <2>1 DEF Reached
    <3>2. CASE n = Edge
      BY <3>1, <3>2 DEF Serves, IndInv, AnswerInv
    <3>3. CASE n # Edge
      BY <3>1, <3>3 DEF Serves, IndInv, WorksInv
    <3> QED BY <3>2, <3>3
  <2>2. \A n \in Node : answer[t] = <<OK(n)>> => Head(todo[t]) = n
    BY DEF IndInv, AnswerInv
  <2> QED BY <2>1, <2>2
<1> QED BY <1>1, Invariance, PTL

\* WriteConnectResponse of handleStream: a client gets one response at most, and the
\* node that it names has connected its backend, or the connection to it was lost.
THEOREM TruthfulHolds == Spec => []Truthful
<1>1. IndInv => Truthful
  <2> SUFFICES ASSUME IndInv, NEW t \in Stream
               PROVE  /\ Len(answer[t]) <= 1
                      /\ \A n \in Node : answer[t] = <<OK(n)>> => Serves(t, n) \/ <<t, n>> \in broken
    BY DEF Truthful
  <2>1. Len(answer[t]) <= 1
    <3>1. answer[t] = <<>> \/ \E a \in Answer : answer[t] = <<a>>
      BY DEF IndInv, TypeOK
    <3>2. CASE answer[t] = <<>>
      BY <3>2
    <3>3. ASSUME NEW a \in Answer, answer[t] = <<a>> PROVE Len(answer[t]) <= 1
      BY <3>3
    <3> QED BY <3>1, <3>2, <3>3
  <2>2. ASSUME NEW n \in Node, answer[t] = <<OK(n)>>
        PROVE  Serves(t, n) \/ <<t, n>> \in broken
    <3>1. CASE n = Edge
      BY <2>2, <3>1, ZenonT(60) DEF Serves, IndInv, AnswerInv
    <3>2. CASE n # Edge
      BY <2>2, <3>2, ZenonT(60) DEF Serves, IndInv, AnswerInv, Peer
    <3> QED BY <3>1, <3>2
  <2> QED BY <2>1, <2>2
<1> QED BY <1>1, Invariance, PTL

\* router.go:15: the candidates of handleStream are in the order that the comment of
\* Candidates promises, each listed once, for any number of instances, all loads and
\* any peers that come and go.
THEOREM PriorityOrderHolds == Spec => []PriorityOrder
<1>1. IndInv => PriorityOrder
  BY FindsInOrder DEF IndInv
<1> QED BY <1>1, Invariance, PTL

\* The loop over candidates of handleStream: with any number of them, and whatever
\* changes meanwhile, a stream is not answered ROUTE_FAILED while one could have served
\* it all the time.
THEOREM FailsOverHolds == Spec => []FailsOver
<1>1. IndInv => FailsOver
  BY DEF IndInv
<1> QED BY <1>1, Invariance, PTL

\* OpenRelay of handleStream, which has no timeout: at any time the edge waits for a
\* stream of a connection that is up, which it gets when one of the streams in use is
\* done with, for a peer that works for the request or has an answer for it, or for a
\* connection that is lost, never for a peer that has forgotten it.
THEOREM WaitsForSomebody == Spec => []WaitInv
<1>1. IndInv => WaitInv
  BY DEF IndInv
<1> QED BY <1>1, Invariance, PTL

\* handleStream: with any number of candidates, and whatever changes meanwhile, every
\* step of a search lessens a bound on the steps left, and no other step moves it.
THEOREM ComesToAnEndHolds == Spec => ComesToAnEnd
<1> DEFINE Ends == \A t \in Stream :
              \/ 0 <= StepsLeft(t)' /\ StepsLeft(t)' < StepsLeft(t)
              \/ UNCHANGED <<pc[t], todo[t], answer[t]>>
<1>1. IndInv /\ IndInv' /\ [Next]_vars => [Ends]_vars
  <2> SUFFICES ASSUME TypeOK, Found, Found', Next, NEW u \in Stream
               PROVE  \/ 0 <= StepsLeft(u)' /\ StepsLeft(u)' < StepsLeft(u)
                      \/ UNCHANGED <<pc[u], todo[u], answer[u]>>
    BY FoundIs DEF IndInv
  <2>1. CASE Surroundings
    BY <2>1 DEF Surroundings, Register, Deregister, BackendDown, ApplyBundle, Gossip, LinkUp,
                LinkDown, ClientGone
  <2>2. ASSUME NEW t \in Stream, Connect(t)
        PROVE  \/ 0 <= StepsLeft(u)' /\ StepsLeft(u)' < StepsLeft(u)
               \/ UNCHANGED <<pc[u], todo[u], answer[u]>>
    <3>1. pc[t] = "idle" /\ pc'[t] = "policy" /\ UNCHANGED <<todo, answer>>
      BY <2>2, ZenonT(60) DEF Connect, Go, TypeOK
    <3>2. u # t => pc'[u] = pc[u]
      BY <2>2 DEF Connect, Go, TypeOK
    <3>3. PICK k : k = Len(todo[t])
      OBVIOUS
    <3>4. StepsLeft(t) = StepsFrom("idle", k) /\ StepsLeft(t)' = StepsFrom("policy", k)
      BY <3>1, <3>3 DEF StepsLeft, StepsFrom
    <3>5. Cardinality(Node) \in Nat
      BY RoutingAssumption, FS_CardinalityType
    <3>6. 0 <= StepsLeft(t)' /\ StepsLeft(t)' < StepsLeft(t)
      BY <3>4, <3>5, Distances
    <3> QED BY <3>1, <3>2, <3>6
  <2>3. ASSUME NEW t \in Stream, Handle(t)
        PROVE  \/ 0 <= StepsLeft(u)' /\ StepsLeft(u)' < StepsLeft(u)
               \/ UNCHANGED <<pc[u], todo[u], answer[u]>>
    <3>1. FoundAt(t) /\ FoundAt(t)'
      BY DEF Found
    <3>2. Moved(t) /\ OthersStay(t)
      BY <2>3, <3>1, HandleMoves, OneStream
    <3>3. 0 <= StepsLeft(t)' /\ StepsLeft(t)' < StepsLeft(t)
      BY <3>1, <3>2, Nearer
    <3>4. u # t => UNCHANGED <<pc[u], todo[u], answer[u]>>
      BY <3>2 DEF OthersStay
    <3> QED BY <3>3, <3>4
  <2>4. ASSUME NEW t \in Stream, NEW n \in Peer, HandlePeer(t, n)
        PROVE  UNCHANGED <<pc[u], todo[u], answer[u]>>
    BY <2>4 DEF HandlePeer, HandleStream, DialBackend, HandleEnds, HandleFinishes
  <2> QED BY <2>1, <2>2, <2>3, <2>4, ZenonT(60) DEF Next
<1> QED BY <1>1, Invariance, PTL DEF Spec, ComesToAnEnd
=============================================================================
