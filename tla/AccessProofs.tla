---------------------------- MODULE AccessProofs ----------------------------
(***************************************************************************)
(* Proofs about Access, for any roles and memberships, any catalogs and    *)
(* any number of changes: the closures of the role page are the            *)
(* inheritance of PostgreSQL, and a report explains what it says although  *)
(* others change the catalog between its queries.                          *)
(***************************************************************************)
EXTENDS Access, FiniteSetTheorems, SequenceTheorems, WellFoundedInduction, TLAPS

N == Cardinality(Role)

\* A set of natural numbers with 0 and, with each number, the next is Nat.
LEMMA Induction ==
  ASSUME NEW S \in SUBSET Nat, 0 \in S, \A n \in S : n + 1 \in S
  PROVE  S = Nat
  <1> DEFINE R == {ss \in Nat \X Nat : ss[1] < ss[2]}
             T == Nat \ S
  <1> SUFFICES ASSUME T # {} PROVE FALSE
    OBVIOUS
  <1>1. IsWellFoundedOn(R, Nat)
    BY NatLessThanWellFounded, Zenon DEF OpToRel
  <1>2. PICK x \in T : \A y \in T : ~(<<y, x>> \in R)
    <2> HIDE DEF R
    <2> QED BY <1>1, WFMin
  <1>3. x \in Nat \ {0} /\ x \notin S
    OBVIOUS
  <1>4. x - 1 \in Nat /\ x - 1 < x /\ (x - 1) + 1 = x
    BY <1>3
  <1>5. <<x - 1, x>> \in R
    BY <1>3, <1>4
  <1>6. x - 1 \in S
    BY <1>2, <1>4, <1>5
  <1> QED BY <1>3, <1>4, <1>6

\* The row of depth 0, and the rows one deeper than es.
Base(r) == {[path |-> <<r>>, inherited |-> TRUE]}
Deeper(hops, es) == UNION {Longer(hops, e) : e \in es}

\* The recursive query has the rows of each depth from those of the one before.
LEMMA LevelsAreThere ==
  ASSUME NEW hops, NEW r
  PROVE  /\ Levels(hops, r)[0] = Base(r)
         /\ \A n \in 1..N : Levels(hops, r)[n] = Deeper(hops, Levels(hops, r)[n-1])
  <1> DEFINE Rec(g, m) == [n \in 0..m |-> IF n = 0 THEN Base(r) ELSE Deeper(hops, g[n-1])]
             S == {m \in Nat : \E g : g = Rec(g, m)}
  <1>1. 0 \in S
    <2> DEFINE g == [n \in 0..0 |-> Base(r)]
    <2>1. g = Rec(g, 0)
      OBVIOUS
    <2> QED BY <2>1
  <1>2. ASSUME NEW m \in S  PROVE m + 1 \in S
    <2>1. PICK g : g = Rec(g, m)
      OBVIOUS
    <2> DEFINE h == [n \in 0..m+1 |-> IF n <= m THEN g[n] ELSE Deeper(hops, g[m])]
    <2>2. m \in Nat
      OBVIOUS
    <2>3. \A n \in 0..m+1 : h[n] = IF n = 0 THEN Base(r) ELSE Deeper(hops, h[n-1])
      <3> TAKE n \in 0..m+1
      <3>1. \A i \in 0..m : g[i] = IF i = 0 THEN Base(r) ELSE Deeper(hops, g[i-1])
        BY <2>1
      <3>2. CASE n = 0
        BY <2>2, <3>1, <3>2
      <3>3. CASE n \in 1..m
        <4>1. h[n] = g[n] /\ h[n-1] = g[n-1] /\ n # 0 /\ n \in 0..m
          BY <2>2, <3>3
        <4> HIDE DEF h
        <4> QED BY <3>1, <4>1
      <3>4. CASE n = m + 1
        <4>1. h[n] = Deeper(hops, g[m]) /\ h[n-1] = g[m] /\ n # 0
          BY <2>2, <3>4
        <4> HIDE DEF h
        <4> QED BY <4>1
      <3> QED BY <2>2, <3>2, <3>3, <3>4
    <2>4. h = Rec(h, m + 1)
      BY <2>3
    <2> HIDE DEF h
    <2> QED BY <2>2, <2>4
  <1>3. N \in S
    <2>1. N \in Nat
      BY RolesAssumption, FS_CardinalityType DEF N
    <2>2. S \in SUBSET Nat
      OBVIOUS
    <2> HIDE DEF S
    <2> QED BY <1>1, <1>2, <2>1, <2>2, Induction
  <1>4. Levels(hops, r) = CHOOSE g : g = Rec(g, N)
    BY Zenon DEF Levels, N, Base, Deeper
  <1>5. Levels(hops, r) = Rec(Levels(hops, r), N)
    BY <1>3, <1>4
  <1> QED BY <1>5, RolesAssumption, FS_CardinalityType DEF N

\* The hops that carry privileges.
Flowing(hops) == {<<h[1], h[2]>> : h \in {g \in hops : g[3]}}
HopsOf == SUBSET (Role \X Role \X BOOLEAN)

\* What is reached is reached by every set that edges do not lead out of.
LEMMA ReachedIsLeast ==
  ASSUME NEW edges \in SUBSET (Role \X Role), NEW r \in Role
  PROVE  /\ Reached(edges, r) \subseteq Role /\ r \in Reached(edges, r)
         /\ \A a, b : a \in Reached(edges, r) /\ <<a, b>> \in edges => b \in Reached(edges, r)
         /\ \A S \in SUBSET Role : r \in S /\ Closed(edges, S) => Reached(edges, r) \subseteq S
  <1>1. \A a, b : a \in Reached(edges, r) /\ <<a, b>> \in edges => b \in Reached(edges, r)
    <2> SUFFICES ASSUME NEW a, NEW b, a \in Reached(edges, r), <<a, b>> \in edges,
                        NEW S \in SUBSET Role, r \in S, Closed(edges, S)
                 PROVE  b \in Role /\ b \in S
      BY DEF Reached
    <2>1. a \in S /\ a \in Role /\ b \in Role
      BY DEF Reached
    <2> QED BY <2>1 DEF Closed
  <1> QED BY <1>1 DEF Reached

\* A row of the query: a path without repetition that starts at r; privileges
\* flow along it when it says so.
Row1(hops, r, n, e) ==
  /\ e \in [path : Seq(Role), inherited : BOOLEAN]
  /\ Len(e.path) = n + 1 /\ e.path[1] = r
  /\ \A i, j \in 1..n+1 : e.path[i] = e.path[j] => i = j
  /\ e.inherited =>
       /\ \A i \in 1..n : <<e.path[i], e.path[i+1]>> \in Flowing(hops)
       /\ Last(e.path) \in Reached(Flowing(hops), r)

\* Each role of the path is the end of a row.
Prefixed(hops, r, n, e) ==
  \A k \in 0..n : \E f \in Levels(hops, r)[k] :
    Last(f.path) = e.path[k+1] /\ (e.inherited => f.inherited)

\* One more hop makes a row of a row.
LEMMA LongerRow ==
  ASSUME NEW hops \in HopsOf, NEW r \in Role, NEW n \in Nat, NEW e, Row1(hops, r, n, e),
         NEW f \in Longer(hops, e)
  PROVE  /\ Row1(hops, r, n + 1, f)
         /\ \A k \in 1..n+1 : f.path[k] = e.path[k]
         /\ f.inherited => e.inherited
  <1>1. PICK h \in hops : /\ h[1] = Last(e.path) /\ h[2] \notin ToSet(e.path)
                          /\ f = [path |-> Append(e.path, h[2]), inherited |-> e.inherited /\ h[3]]
    BY DEF Longer
  <1>2. /\ h[1] \in Role /\ h[2] \in Role /\ h[3] \in BOOLEAN /\ h = <<h[1], h[2], h[3]>>
    BY DEF HopsOf
  <1>3. /\ e.path \in Seq(Role) /\ e.inherited \in BOOLEAN /\ Len(e.path) = n + 1 /\ e.path[1] = r
        /\ Last(e.path) = e.path[n+1]
    BY DEF Row1, Last
  <1> DEFINE p == e.path
             q == Append(p, h[2])
  <1>4. /\ q \in Seq(Role) /\ Len(q) = n + 2 /\ q[n+2] = h[2]
        /\ \A k \in 1..n+1 : q[k] = p[k]
    BY <1>2, <1>3
  <1>5. \A k \in 1..n+1 : p[k] # h[2]
    BY <1>1, <1>3 DEF ToSet
  <1>6. f.path = q /\ f.inherited = (e.inherited /\ h[3])
        /\ f \in [path : Seq(Role), inherited : BOOLEAN] /\ Last(q) = h[2]
    BY <1>1, <1>2, <1>3, <1>4 DEF Last
  <1>7. \A i, j \in 1..n+1 : p[i] = p[j] => i = j
    BY DEF Row1
  <1>8. \A i, j \in 1..n+2 : q[i] = q[j] => i = j
    <2> HIDE DEF p, q
    <2> QED BY <1>4, <1>5, <1>7
  <1>9. ASSUME f.inherited
        PROVE  /\ \A i \in 1..n+1 : <<q[i], q[i+1]>> \in Flowing(hops)
               /\ Last(q) \in Reached(Flowing(hops), r)
    <2>1. e.inherited /\ h[3]
      BY <1>6, <1>9
    <2>2. /\ \A i \in 1..n : <<p[i], p[i+1]>> \in Flowing(hops)
          /\ p[n+1] \in Reached(Flowing(hops), r)
      BY <1>3, <2>1 DEF Row1
    <2>3. <<p[n+1], h[2]>> \in Flowing(hops)
      BY <1>1, <1>3, <2>1 DEF Flowing
    <2>4. Flowing(hops) \in SUBSET (Role \X Role)
      BY DEF Flowing, HopsOf
    <2>5. h[2] \in Reached(Flowing(hops), r)
      BY <2>2, <2>3, <2>4, ReachedIsLeast
    <2> HIDE DEF p, q
    <2>6. \A i \in 1..n+1 : <<q[i], q[i+1]>> \in Flowing(hops)
      <3> TAKE i \in 1..n+1
      <3>1. CASE i = n + 1
        BY <1>4, <2>3, <3>1
      <3>2. CASE i \in 1..n
        BY <1>4, <2>2, <3>2
      <3> QED BY <3>1, <3>2
    <2> QED BY <1>6, <2>5, <2>6
  <1>10. q[1] = r
    BY <1>3, <1>4
  <1> HIDE DEF p, q
  <1>11. Row1(hops, r, n + 1, f)
    BY <1>4, <1>6, <1>8, <1>9, <1>10 DEF Row1
  <1> QED BY <1>4, <1>6, <1>11 DEF p

\* Whatever the depth, every row of the query is such a path.
LEMMA RowsAreChains ==
  ASSUME NEW hops \in HopsOf, NEW r \in Role, NEW n \in 0..N, NEW e \in Levels(hops, r)[n]
  PROVE  Row1(hops, r, n, e) /\ Prefixed(hops, r, n, e)
  <1> DEFINE L == Levels(hops, r)
             S == {m \in Nat : m <= N => \A d \in L[m] : Row1(hops, r, m, d) /\ Prefixed(hops, r, m, d)}
  <1>0. N \in Nat
    BY RolesAssumption, FS_CardinalityType DEF N
  <1>1. 0 \in S
    <2> SUFFICES ASSUME NEW d \in L[0] PROVE Row1(hops, r, 0, d) /\ Prefixed(hops, r, 0, d)
      OBVIOUS
    <2>1. d = [path |-> <<r>>, inherited |-> TRUE]
      BY LevelsAreThere DEF Base
    <2>2. r \in Reached(Flowing(hops), r)
      BY ReachedIsLeast DEF Flowing, HopsOf
    <2>3. Row1(hops, r, 0, d)
      BY <2>1, <2>2 DEF Row1, Last
    <2>4. Prefixed(hops, r, 0, d)
      <3>1. Last(d.path) = r /\ d.path[1] = r
        BY <2>1 DEF Last
      <3>2. \A k \in 0..0 : k = 0 /\ d.path[k+1] = r
        BY <3>1
      <3> QED BY <3>1, <3>2 DEF Prefixed
    <2> QED BY <2>3, <2>4
  <1>2. ASSUME NEW m \in S  PROVE m + 1 \in S
    <2> SUFFICES ASSUME m + 1 <= N, NEW f \in L[m+1]
                 PROVE  Row1(hops, r, m + 1, f) /\ Prefixed(hops, r, m + 1, f)
      OBVIOUS
    <2>1. m \in Nat /\ m + 1 \in 1..N /\ m <= N /\ (m + 1) - 1 = m
      BY <1>0
    <2>2. L[m+1] = Deeper(hops, L[m])
      BY <2>1, LevelsAreThere
    <2>3. PICK d \in L[m] : f \in Longer(hops, d)
      BY <2>2 DEF Deeper
    <2>4. Row1(hops, r, m, d) /\ Prefixed(hops, r, m, d)
      BY <2>1
    <2> HIDE DEF S
    <2>5. /\ Row1(hops, r, m + 1, f)
          /\ \A k \in 1..m+1 : f.path[k] = d.path[k]
          /\ f.inherited => d.inherited
      BY <2>1, <2>3, <2>4, LongerRow
    <2>6. Prefixed(hops, r, m + 1, f)
      <3> SUFFICES ASSUME NEW k \in 0..m+1
                   PROVE  \E g \in L[k] : Last(g.path) = f.path[k+1] /\ (f.inherited => g.inherited)
        BY DEF Prefixed
      <3>1. CASE k = m + 1
        <4>1. Last(f.path) = f.path[k+1]
          BY <2>5, <3>1 DEF Row1, Last
        <4> QED BY <3>1, <4>1
      <3>2. CASE k \in 0..m
        <4>1. PICK g \in L[k] : Last(g.path) = d.path[k+1] /\ (d.inherited => g.inherited)
          BY <2>4, <3>2 DEF Prefixed
        <4>2. f.path[k+1] = d.path[k+1]
          BY <2>1, <2>5, <3>2
        <4> QED BY <2>5, <4>1, <4>2
      <3> QED BY <2>1, <3>1, <3>2
    <2> QED BY <2>5, <2>6
  <1>3. S = Nat
    <2>1. S \in SUBSET Nat
      OBVIOUS
    <2> HIDE DEF S
    <2> QED BY <1>1, <1>2, <2>1, Induction
  <1>4. n \in S /\ n <= N
    BY <1>0, <1>3
  <1> QED BY <1>4

\* There are fewer hops than roles.
LEMMA RowsAreShort ==
  ASSUME NEW hops, NEW r \in Role, NEW n \in Nat, NEW e, Row1(hops, r, n, e)
  PROVE  n < N
  <1>1. N \in Nat
    BY RolesAssumption, FS_CardinalityType DEF N
  <1>2. /\ e.path \in [1..n+1 -> Role]
        /\ \A i, j \in 1..n+1 : e.path[i] = e.path[j] => i = j
    BY DEF Row1
  <1>3. IsFiniteSet(1..n+1) /\ Cardinality(1..n+1) = n + 1
    BY FS_Interval
  <1>4. e.path \in Injection(1..n+1, Role)
    BY <1>2 DEF Injection, IsInjective
  <1>5. Cardinality(1..n+1) <= Cardinality(Role)
    BY <1>4, RolesAssumption, FS_Injection
  <1> QED BY <1>1, <1>3, <1>5 DEF N

\* The roles the inherited rows lead to.
Ends(es) == {Last(e.path) : e \in {d \in es : d.inherited}}

\* What the rows of the query that inherit end at is what privileges flow from.
LEMMA ChainsReach ==
  ASSUME NEW hops \in HopsOf, NEW r \in Role
  PROVE  Ends(Chains(hops, r)) = Reached(Flowing(hops), r) \ {r}
  <1> DEFINE L == Levels(hops, r)
             T == {r} \cup Ends(Chains(hops, r))
  <1>0. N \in Nat /\ Flowing(hops) \in SUBSET (Role \X Role)
    BY RolesAssumption, FS_CardinalityType DEF N, Flowing, HopsOf
  <1>1. \A e \in Chains(hops, r) : \E n \in 1..N : e \in L[n]
    BY DEF Chains, N
  <1>2. \A n \in 1..N : \A e \in L[n] : e \in Chains(hops, r)
    BY DEF Chains, N
  <1> HIDE DEF L
  <1>3. ASSUME NEW s \in Ends(Chains(hops, r))
        PROVE  s \in Reached(Flowing(hops), r) /\ s # r
    <2>1. PICK e \in Chains(hops, r) : e.inherited /\ s = Last(e.path)
      BY DEF Ends
    <2>2. PICK n \in 1..N : e \in L[n]
      BY <1>1
    <2>3. Row1(hops, r, n, e) /\ n \in Nat \ {0}
      BY <1>0, <2>2, RowsAreChains DEF L
    <2>4. Last(e.path) = e.path[n+1] /\ e.path[1] = r /\ (e.path[n+1] = e.path[1] => n + 1 = 1)
      BY <2>3 DEF Row1, Last
    <2> QED BY <2>1, <2>3, <2>4 DEF Row1
  <1>4. Closed(Flowing(hops), T)
    <2> HIDE DEF T
    <2> SUFFICES ASSUME NEW h \in hops, h[3], h[1] \in T
                 PROVE  h[2] \in T
      BY DEF Closed, Flowing
    <2>0. h[1] \in Role /\ h[2] \in Role
      BY DEF HopsOf
    <2>1. PICK n \in 0..N : \E e \in L[n] : e.inherited /\ Last(e.path) = h[1]
      <3>1. CASE h[1] = r
        <4> DEFINE e == [path |-> <<r>>, inherited |-> TRUE]
        <4>1. e \in L[0] /\ e.inherited /\ Last(e.path) = h[1]
          BY <3>1, LevelsAreThere DEF L, Base, Last
        <4> QED BY <1>0, <4>1
      <3>2. CASE h[1] \in Ends(Chains(hops, r))
        <4>1. PICK e \in Chains(hops, r) : e.inherited /\ h[1] = Last(e.path)
          BY <3>2 DEF Ends
        <4> QED BY <1>0, <1>1, <4>1
      <3> QED BY <3>1, <3>2 DEF T
    <2>2. PICK e \in L[n] : e.inherited /\ Last(e.path) = h[1]
      BY <2>1
    <2>3. Row1(hops, r, n, e) /\ Prefixed(hops, r, n, e)
      BY <2>2, RowsAreChains DEF L
    <2>4. n \in Nat /\ n + 1 \in 1..N
      BY <1>0, <2>3, RowsAreShort
    <2>5. CASE h[2] \in ToSet(e.path)
      <3>1. PICK k \in 0..n : e.path[k+1] = h[2]
        <4>1. PICK j \in 1..n+1 : e.path[j] = h[2]
          BY <2>3, <2>5 DEF ToSet, Row1
        <4>2. j - 1 \in 0..n /\ (j - 1) + 1 = j
          BY <2>4
        <4> QED BY <4>1, <4>2
      <3>2. PICK f \in L[k] : Last(f.path) = h[2] /\ f.inherited
        BY <2>2, <2>3, <3>1 DEF Prefixed, L
      <3>3. CASE k = 0
        <4>1. f = [path |-> <<r>>, inherited |-> TRUE]
          BY <3>2, <3>3, LevelsAreThere DEF L, Base
        <4>2. Last(f.path) = r
          BY <4>1 DEF Last
        <4> QED BY <3>2, <4>2 DEF T
      <3>4. CASE k \in 1..N
        BY <1>2, <3>2, <3>4 DEF Ends, T
      <3> QED BY <1>0, <2>4, <3>3, <3>4
    <2>6. CASE h[2] \notin ToSet(e.path)
      <3> DEFINE f == [path |-> Append(e.path, h[2]), inherited |-> e.inherited /\ h[3]]
      <3>1. f \in Longer(hops, e)
        BY <2>2, <2>6 DEF Longer
      <3>2. f \in L[n+1]
        <4>1. L[n+1] = Deeper(hops, L[n])
          <5>1. (n + 1) - 1 = n
            BY <2>4
          <5> QED BY <2>4, <5>1, LevelsAreThere DEF L
        <4> QED BY <2>2, <3>1, <4>1 DEF Deeper
      <3>3. f.inherited /\ Last(f.path) = h[2]
        <4>1. e.path \in Seq(Role)
          BY <2>3 DEF Row1
        <4>2. Last(Append(e.path, h[2])) = h[2]
          BY <2>0, <4>1 DEF Last
        <4> QED BY <2>2, <4>2
      <3> HIDE DEF f
      <3> QED BY <1>2, <2>4, <3>2, <3>3 DEF Ends, T
    <2> QED BY <2>5, <2>6
  <1>5. T \subseteq Role
    BY <1>0, <1>3, ReachedIsLeast
  <1>6. Reached(Flowing(hops), r) \subseteq T
    <2> HIDE DEF T
    <2>1. r \in T
      BY DEF T
    <2> QED BY <1>0, <1>4, <1>5, <2>1, ReachedIsLeast
  <1> QED BY <1>3, <1>6

\* A nonempty set of rows has a shortest one.
LEMMA FirstIsThere ==
  ASSUME NEW es, es # {}, \A e \in es : Len(e.path) \in Nat
  PROVE  First(es) \in es
  <1> DEFINE S == {Len(e.path) : e \in es}
             R == {ss \in Nat \X Nat : ss[1] < ss[2]}
  <1>1. IsWellFoundedOn(R, Nat)
    BY NatLessThanWellFounded, Zenon DEF OpToRel
  <1>2. S # {} /\ S \in SUBSET Nat
    OBVIOUS
  <1>3. PICK x \in S : \A y \in S : ~(<<y, x>> \in R)
    <2> HIDE DEF R, S
    <2> QED BY <1>1, <1>2, WFMin
  <1>4. \A y \in S : x <= y
    <2> TAKE y \in S
    <2>1. x \in Nat /\ y \in Nat /\ <<y, x>> \notin R
      BY <1>2, <1>3
    <2>2. ~(y < x)
      BY <2>1
    <2> QED BY <2>1, <2>2
  <1>5. PICK e \in es : Len(e.path) = x
    BY <1>3
  <1>6. \A f \in es : Len(e.path) <= Len(f.path)
    BY <1>4, <1>5
  <1> HIDE DEF S
  <1> QED BY <1>6 DEF First

\* Merging the rows loses no end of a row that inherits.
LEMMA DedupeKeepsEnds ==
  ASSUME NEW es, \A e \in es : Len(e.path) \in Nat /\ e.inherited \in BOOLEAN
  PROVE  dedupe_closure(es) \subseteq es /\ Ends(dedupe_closure(es)) = Ends(es)
  <1> DEFINE To(r) == {e \in es : Last(e.path) = r}
  <1>1. ASSUME NEW e \in es
        PROVE  /\ Best(To(Last(e.path))) \in es
               /\ Last(Best(To(Last(e.path))).path) = Last(e.path)
               /\ e.inherited => Best(To(Last(e.path))).inherited
    <2> DEFINE fs == To(Last(e.path))
               gs == {f \in fs : f.inherited}
    <2>1. e \in fs /\ \A f \in fs : f \in es /\ Last(f.path) = Last(e.path) /\ Len(f.path) \in Nat
      OBVIOUS
    <2>2. (e.inherited => e \in gs) /\ gs \subseteq fs /\ \A f \in gs : f.inherited
      BY <2>1
    <2>3. Best(fs) = IF \E f \in fs : f.inherited THEN First(gs) ELSE First(fs)
      BY DEF Best
    <2> HIDE DEF fs
    <2>4. CASE \E f \in fs : f.inherited
      <3>1. gs # {} /\ \A f \in gs : Len(f.path) \in Nat
        BY <2>1, <2>4
      <3> HIDE DEF gs
      <3>2. First(gs) \in gs
        BY <3>1, FirstIsThere
      <3> QED BY <2>1, <2>2, <2>3, <2>4, <3>2 DEF fs
    <2>5. CASE ~ \E f \in fs : f.inherited
      <3>1. First(fs) \in fs
        BY <2>1, FirstIsThere
      <3>2. ~e.inherited
        BY <2>1, <2>5
      <3> QED BY <2>1, <2>3, <2>5, <3>1, <3>2 DEF fs
    <2> QED BY <2>4, <2>5
  <1>2. dedupe_closure(es) = {Best(To(Last(e.path))) : e \in es}
    BY DEF dedupe_closure
  <1> HIDE DEF To
  <1>3. dedupe_closure(es) \subseteq es
    BY <1>1, <1>2
  <1>4. Ends(dedupe_closure(es)) \subseteq Ends(es)
    BY <1>3 DEF Ends
  <1>5. Ends(es) \subseteq Ends(dedupe_closure(es))
    BY <1>1, <1>2 DEF Ends
  <1> QED BY <1>3, <1>4, <1>5

Backwards(edges) == {<<e[2], e[1]>> : e \in edges}

\* What reaches s along edges is what s reaches along the reversed edges.
LEMMA ReachedReverse ==
  ASSUME NEW edges \in SUBSET (Role \X Role), NEW r \in Role, NEW s \in Role
  PROVE  s \in Reached(edges, r) <=> r \in Reached(Backwards(edges), s)
  <1>1. ASSUME NEW E \in SUBSET (Role \X Role), NEW a \in Role, NEW b \in Role,
               b \in Reached(E, a)
        PROVE  a \in Reached(Backwards(E), b)
    <2> SUFFICES ASSUME NEW S \in SUBSET Role, b \in S, Closed(Backwards(E), S), a \notin S
                 PROVE  FALSE
      BY DEF Reached
    <2>1. \A e \in E : e[2] \in S => e[1] \in S
      <3> TAKE e \in E
      <3>1. <<e[2], e[1]>> \in Backwards(E)
        BY DEF Backwards
      <3> QED BY <3>1 DEF Closed
    <2>2. Closed(E, Role \ S)
      <3> SUFFICES ASSUME NEW e \in E, e[1] \in Role \ S  PROVE e[2] \in Role \ S
        BY DEF Closed
      <3>1. e[2] \in Role
        OBVIOUS
      <3> QED BY <2>1, <3>1
    <2> DEFINE T == Role \ S
    <2>3. T \in SUBSET Role /\ a \in T /\ b \notin T /\ Closed(E, T)
      BY <2>2
    <2> HIDE DEF T
    <2> QED BY <1>1, <2>3 DEF Reached
  <1>2. Backwards(edges) \in SUBSET (Role \X Role)
    BY DEF Backwards
  <1>3. Backwards(Backwards(edges)) = edges
    <2>1. ASSUME NEW e \in edges PROVE e \in Backwards(Backwards(edges))
      <3>1. e = <<e[1], e[2]>>
        OBVIOUS
      <3> DEFINE f == <<e[2], e[1]>>
      <3>2. f \in Backwards(edges) /\ e = <<f[2], f[1]>>
        BY <3>1 DEF Backwards
      <3> HIDE DEF f
      <3> QED BY <3>2 DEF Backwards
    <2>2. ASSUME NEW e \in Backwards(Backwards(edges)) PROVE e \in edges
      <3>1. PICK f \in Backwards(edges) : e = <<f[2], f[1]>>
        BY DEF Backwards
      <3>2. PICK g \in edges : f = <<g[2], g[1]>>
        BY DEF Backwards
      <3>3. g = <<g[1], g[2]>>
        OBVIOUS
      <3> QED BY <3>1, <3>2, <3>3
    <2> QED BY <2>1, <2>2
  <1> QED BY <1>1, <1>2, <1>3

\* One more edge to a role that none leaves adds that role, if the edge is reached.
LEMMA OneMoreEdge ==
  ASSUME NEW edges \in SUBSET (Role \X Role), NEW r \in Role, NEW a \in Role, NEW b \in Role,
         \A e \in edges : e[1] # b
  PROVE  Reached(edges \cup {<<a, b>>}, r)
           = Reached(edges, r) \cup (IF a \in Reached(edges, r) THEN {b} ELSE {})
  <1> DEFINE more == edges \cup {<<a, b>>}
             S == Reached(edges, r) \cup (IF a \in Reached(edges, r) THEN {b} ELSE {})
  <1>1. more \in SUBSET (Role \X Role)
    OBVIOUS
  <1>2. S \in SUBSET Role /\ r \in S
    BY ReachedIsLeast
  <1>3. Closed(more, S)
    <2> SUFFICES ASSUME NEW e \in more, e[1] \in S PROVE e[2] \in S
      BY DEF Closed
    <2>1. CASE e \in edges
      <3>1. e = <<e[1], e[2]>> /\ e[1] # b
        BY <2>1
      <3>2. e[1] \in Reached(edges, r)
        BY <3>1
      <3> QED BY <2>1, <3>1, <3>2, ReachedIsLeast
    <2>2. CASE e = <<a, b>>
      <3>1. a \in S /\ e[2] = b
        BY <2>2
      <3> QED BY <3>1
    <2> QED BY <2>1, <2>2
  <1>4. Reached(more, r) \subseteq S
    <2> HIDE DEF more, S
    <2> QED BY <1>1, <1>2, <1>3, ReachedIsLeast
  <1>5. Reached(edges, r) \subseteq Reached(more, r)
    <2>1. Closed(edges, Reached(more, r))
      <3> SUFFICES ASSUME NEW e \in edges, e[1] \in Reached(more, r)
                   PROVE  e[2] \in Reached(more, r)
        BY DEF Closed
      <3>1. e = <<e[1], e[2]>> /\ e \in more
        OBVIOUS
      <3> HIDE DEF more
      <3> QED BY <1>1, <3>1, ReachedIsLeast
    <2>2. r \in Reached(more, r) /\ Reached(more, r) \in SUBSET Role
      <3> HIDE DEF more
      <3> QED BY <1>1, ReachedIsLeast
    <2> HIDE DEF more
    <2> QED BY <2>1, <2>2, ReachedIsLeast
  <1>6. a \in Reached(edges, r) => b \in Reached(more, r)
    <2>1. <<a, b>> \in more
      OBVIOUS
    <2> HIDE DEF more
    <2> QED BY <1>1, <1>5, <2>1, ReachedIsLeast
  <1> HIDE DEF more
  <1> QED BY <1>4, <1>5, <1>6 DEF more

\* The hops of membership_closure, and of reverse_closure.
UpHops(c) == {<<m.member, m.role, Flows(c, m)>> : m \in c.members}
DownHops(c) == {<<m.role, m.member, Flows(c, m)>> : m \in c.members}

\* The hops of the two queries, up and down, carry privileges where memberships
\* do; and pg_database_owner is a member of none.
LEMMA HopsFlow ==
  ASSUME NEW c \in Catalog
  PROVE  /\ UpHops(c) \in HopsOf /\ Flowing(UpHops(c)) = Inheriting(c)
         /\ DownHops(c) \in HopsOf /\ Flowing(DownHops(c)) = Backwards(Inheriting(c))
         /\ Inheriting(c) \in SUBSET (Role \X Role)
         /\ \A e \in Inheriting(c) : e[1] # PgDatabaseOwner
  <1>1. \A m \in c.members : /\ m.member \in Role \ {PgDatabaseOwner} /\ m.role \in Role
                             /\ m.inherit \in BOOLEAN
    BY DEF Catalog
  <1>2. \A m \in c.members : Flows(c, m) \in BOOLEAN
    BY <1>1 DEF Catalog, Flows
  <1>3. UpHops(c) \in HopsOf /\ DownHops(c) \in HopsOf
    BY <1>1, <1>2 DEF UpHops, DownHops, HopsOf
  <1>4. Inheriting(c) \in SUBSET (Role \X Role) /\ \A e \in Inheriting(c) : e[1] # PgDatabaseOwner
    BY <1>1 DEF Inheriting
  <1>5. Flowing(UpHops(c)) = Inheriting(c)
    <2>1. ASSUME NEW e \in Flowing(UpHops(c)) PROVE e \in Inheriting(c)
      <3>1. PICK h \in UpHops(c) : h[3] /\ e = <<h[1], h[2]>>
        BY DEF Flowing
      <3>2. PICK m \in c.members : h = <<m.member, m.role, Flows(c, m)>>
        BY DEF UpHops
      <3> QED BY <3>1, <3>2 DEF Inheriting
    <2>2. ASSUME NEW e \in Inheriting(c) PROVE e \in Flowing(UpHops(c))
      <3>1. PICK m \in c.members : Flows(c, m) /\ e = <<m.member, m.role>>
        BY DEF Inheriting
      <3> DEFINE h == <<m.member, m.role, Flows(c, m)>>
      <3>2. h \in UpHops(c) /\ h[3] /\ e = <<h[1], h[2]>>
        BY <3>1 DEF UpHops
      <3> HIDE DEF h
      <3> QED BY <3>2 DEF Flowing
    <2> QED BY <2>1, <2>2
  <1>6. Flowing(DownHops(c)) = Backwards(Inheriting(c))
    <2>1. ASSUME NEW e \in Flowing(DownHops(c)) PROVE e \in Backwards(Inheriting(c))
      <3>1. PICK h \in DownHops(c) : h[3] /\ e = <<h[1], h[2]>>
        BY DEF Flowing
      <3>2. PICK m \in c.members : h = <<m.role, m.member, Flows(c, m)>>
        BY DEF DownHops
      <3> DEFINE f == <<m.member, m.role>>
      <3>3. f \in Inheriting(c) /\ e = <<f[2], f[1]>>
        BY <3>1, <3>2 DEF Inheriting
      <3> HIDE DEF f
      <3> QED BY <3>3 DEF Backwards
    <2>2. ASSUME NEW e \in Backwards(Inheriting(c)) PROVE e \in Flowing(DownHops(c))
      <3>1. PICK f \in Inheriting(c) : e = <<f[2], f[1]>>
        BY DEF Backwards
      <3>2. PICK m \in c.members : Flows(c, m) /\ f = <<m.member, m.role>>
        BY DEF Inheriting
      <3> DEFINE h == <<m.role, m.member, Flows(c, m)>>
      <3>3. h \in DownHops(c) /\ h[3] /\ e = <<h[1], h[2]>>
        BY <3>1, <3>2 DEF DownHops
      <3> HIDE DEF h
      <3> QED BY <3>3 DEF Flowing
    <2> QED BY <2>1, <2>2
  <1> QED BY <1>3, <1>4, <1>5, <1>6

\* The rows of the query, and one of them for each role they inherit from.
LEMMA ClosureRows ==
  ASSUME NEW hops \in HopsOf, NEW r \in Role
  PROVE  /\ \A e \in dedupe_closure(Chains(hops, r)) : \E n \in Nat \ {0} : Row1(hops, r, n, e)
         /\ Ends(dedupe_closure(Chains(hops, r))) = Reached(Flowing(hops), r) \ {r}
  <1>1. ASSUME NEW e \in Chains(hops, r) PROVE \E n \in Nat \ {0} : Row1(hops, r, n, e)
    <2>0. N \in Nat
      BY RolesAssumption, FS_CardinalityType DEF N
    <2>1. PICK n \in 1..N : e \in Levels(hops, r)[n]
      BY DEF Chains, N
    <2>2. n \in 0..N /\ n \in Nat \ {0}
      BY <2>0
    <2> QED BY <2>1, <2>2, RowsAreChains
  <1>2. \A e \in Chains(hops, r) : Len(e.path) \in Nat /\ e.inherited \in BOOLEAN
    <2> TAKE e \in Chains(hops, r)
    <2>1. PICK n \in Nat \ {0} : Row1(hops, r, n, e)
      BY <1>1
    <2> QED BY <2>1 DEF Row1
  <1>3. /\ dedupe_closure(Chains(hops, r)) \subseteq Chains(hops, r)
        /\ Ends(dedupe_closure(Chains(hops, r))) = Ends(Chains(hops, r))
    BY <1>2, DedupeKeepsEnds
  <1> QED BY <1>1, <1>3, ChainsReach

\* The two lists of the role page.
LEMMA InheritanceIsReached ==
  ASSUME NEW c \in Catalog, NEW r \in Role
  PROVE  /\ InheritsFrom(c, r) = Reached(Inheriting(c), r) \ {r}
         /\ InheritedBy(c, r) = Reached(Backwards(Inheriting(c)), r) \ {r}
  <1>1. /\ InheritsFrom(c, r) = Ends(dedupe_closure(Chains(UpHops(c), r)))
        /\ InheritedBy(c, r) = Ends(dedupe_closure(Chains(DownHops(c), r)))
    BY DEF InheritsFrom, InheritedBy, Ends, membership_closure, reverse_closure, UpHops, DownHops
  <1> QED BY <1>1, HopsFlow, ClosureRows

\* The two lists are the inheritance of PostgreSQL, of every catalog.
LEMMA ListsAreInheritance ==
  ASSUME NEW c \in Catalog, NEW r \in Role, NEW s \in Role
  PROVE  /\ InheritsFrom(c, r) = Reached(Inheriting(c), r) \ {r}
         /\ s \in InheritsFrom(c, r) <=> r \in InheritedBy(c, s)
  BY InheritanceIsReached, HopsFlow, ReachedReverse

-----------------------------------------------------------------------------
(* The report                                                                *)

Stage ==
  {"names", "closure", "database", "database_acl", "schema", "schema_acl", "table",
   "table_acl", "policies", "function", "function_acl", "done"}

\* The stages at which the row of o, and its ACL, are still to be read.
RowAhead(o) ==
  CASE o = "database" -> {"names", "closure", "database"}
    [] o = "schema"   -> {"names", "closure", "database", "database_acl", "schema"}
    [] o = "table"    -> {"names", "closure", "database", "database_acl", "schema",
                          "schema_acl", "table"}
    [] o = "function" -> Stage \ {"function_acl", "done"}
AclAhead(o) ==
  CASE o = "database" -> RowAhead("database") \cup {"database_acl"}
    [] o = "schema"   -> RowAhead("schema") \cup {"schema_acl"}
    [] o = "table"    -> RowAhead("table") \cup {"table_acl"}
    [] o = "function" -> Stage \ {"done"}

\* The objects whose rows, and whose ACL, the report has at a stage.
RowsDone(stage) == {o \in Object : stage \notin RowAhead(o)}
AclsDone(stage) == {o \in Object : stage \notin AclAhead(o)}

Spoilt == {"roles", "rows"} \cup Object
Partial(D, T) == UNION {[S -> T] : S \in SUBSET D}
Source == [kind : {"owner", "acl", "superuser"}, grantee : Grantee, via : Seq(Role)]

Report ==
  [stage : Stage, role : Role, super : BOOLEAN, spoilt : SUBSET Spoilt,
   via : Partial(Role, Seq(Role)), oids : SUBSET Role, names : SUBSET Role,
   granted : Partial(Object, BOOLEAN), owner : Partial(Object, Role),
   sources : Partial(Object, SUBSET Source), policies : BOOLEAN]

\* What a report has at each stage.
ReportInv ==
  \/ rd = Idle
  \/ /\ rd \in Report
     /\ DOMAIN rd.granted = RowsDone(rd.stage)
     /\ DOMAIN rd.owner = DOMAIN rd.granted
     /\ DOMAIN rd.sources = AclsDone(rd.stage)
     /\ rd.super = (rd.role \in cat.super)
     /\ rd.oids = DOMAIN rd.via
     /\ rd.stage # "names" => PgDatabaseOwner \in rd.names

\* The edges privileges flow along, the owner of the database among them.
Edges(c) == Inheriting(c) \cup {<<c.owner["database"], PgDatabaseOwner>>}

\* p is a path; and one that ends at g.
Path(edges, p) == \A i \in 1..Len(p)-1 : <<p[i], p[i+1]>> \in edges
Leads(edges, p, g) == p # <<>> /\ Path(edges, p) /\ p[Len(p)] = g

\* A report whose memberships nobody changed since they were read.
RolesKept == rd.stage # "idle" /\ "roles" \notin rd.spoilt

\* via has the roles r reaches, each with a path to it.
Known(via, edges, r) ==
  /\ DOMAIN via = Reached(edges, r)
  /\ \A g \in DOMAIN via : Leads(edges, <<r>> \o via[g], g)

\* The closure read is that of the catalog.
ViaInv ==
  RolesKept =>
    /\ rd.stage = "database" => Known(rd.via, Inheriting(cat), rd.role)
    /\ rd.stage \notin {"names", "closure", "database"} => Known(rd.via, Edges(cat), rd.role)

\* Between the queries of the rows of o and of its ACL, what the server said
\* of o is still so.
RowInv ==
  RolesKept => \A o \in (DOMAIN rd.granted \ DOMAIN rd.sources) \ rd.spoilt :
    rd.granted[o] = HasPrivilege(cat, rd.role, o)

\* What Explained says of one object.
Explains(c, r, o, granted, sources) ==
  /\ sources # {} => granted
  /\ granted => \/ sources # {}
                \/ o \in {"schema", "table"} /\ PgReadAllData \in PrivsOf(c, r)
  /\ \A s \in sources :
       /\ Path(Edges(c), <<r>> \o s.via)
       /\ s.grantee # PUBLIC => Last(<<r>> \o s.via) = s.grantee

\* What the report says of an object whose ACL is read stays right.
SourceInv ==
  RolesKept => \A o \in DOMAIN rd.sources \ rd.spoilt :
    Explains(cat, rd.role, o, rd.granted[o], rd.sources[o])

\* The owner of the table is the one read until row security is spoilt.
OwnerInv ==
  rd.stage # "idle" /\ "rows" \notin rd.spoilt /\ "table" \in DOMAIN rd.owner =>
    rd.owner["table"] = cat.owner["table"]

\* So are its policies.
PolicyInv ==
  RolesKept /\ "rows" \notin rd.spoilt /\ rd.stage \in {"function", "function_acl", "done"} =>
    rd.policies = (cat.policy \cap (PrivsOf(cat, rd.role) \cup {PUBLIC}) # {})

\* The inductive invariant.
IInv ==
  /\ cat \in Catalog /\ ReportInv
  /\ ViaInv /\ RowInv /\ SourceInv /\ OwnerInv /\ PolicyInv

\* What Via cuts off a path, rd.role, the report puts back.
LEMMA HeadAndTail ==
  ASSUME NEW S, NEW p \in Seq(S), p # <<>>
  PROVE  Tail(p) \in Seq(S) /\ <<p[1]>> \o Tail(p) = p
  <1>1. Len(p) \in Nat \ {0} /\ Tail(p) \in Seq(S) /\ Len(Tail(p)) = Len(p) - 1
        /\ \A i \in 1..Len(p)-1 : Tail(p)[i] = p[i+1]
    OBVIOUS
  <1> DEFINE t == Tail(p)
             q == <<p[1]>> \o t
  <1>2. p[1] \in S
    BY <1>1
  <1>3. q \in Seq(S) /\ Len(q) = Len(p)
    BY <1>1, <1>2
  <1>4. \A i \in 1..Len(p) : q[i] = p[i]
    <2> TAKE i \in 1..Len(p)
    <2>1. q[i] = IF i <= 1 THEN <<p[1]>>[i] ELSE t[i-1]
      BY <1>1, <1>2
    <2> QED BY <1>1, <2>1
  <1> HIDE DEF q
  <1>5. q = p
    BY <1>3, <1>4
  <1> QED BY <1>1, <1>5 DEF q

\* A path that leads to a leads, one edge on, to b.
LEMMA LeadsOn ==
  ASSUME NEW edges, NEW more, edges \subseteq more, NEW p \in Seq(Role), NEW r \in Role,
         NEW a, NEW b \in Role, Leads(edges, <<r>> \o p, a), <<a, b>> \in more
  PROVE  Leads(more, <<r>> \o Append(p, b), b)
  <1> DEFINE q == <<r>> \o p
             s == <<r>> \o Append(p, b)
             n == Len(p)
  <1>1. /\ n \in Nat /\ Len(q) = n + 1 /\ Len(s) = n + 2 /\ s # <<>>
        /\ \A i \in 1..n+1 : s[i] = q[i]
        /\ s[n+2] = b
    <2>1. Append(p, b) \in Seq(Role) /\ Len(Append(p, b)) = n + 1
          /\ Append(p, b)[n+1] = b /\ \A i \in 1..n : Append(p, b)[i] = p[i]
      OBVIOUS
    <2> QED BY <2>1
  <1>2. q[n+1] = a /\ \A i \in 1..n : <<q[i], q[i+1]>> \in edges
    BY <1>1 DEF Leads, Path
  <1> HIDE DEF n, q, s
  <1>3. \A i \in 1..n+1 : <<s[i], s[i+1]>> \in more
    <2> TAKE i \in 1..n+1
    <2>1. CASE i = n + 1
      BY <1>1, <1>2, <2>1
    <2>2. CASE i \in 1..n
      <3>1. s[i] = q[i] /\ s[i+1] = q[i+1]
        BY <1>1, <2>2
      <3> QED BY <1>2, <2>2, <3>1
    <2> QED BY <1>1, <2>1, <2>2
  <1>4. Leads(more, s, b)
    BY <1>1, <1>3 DEF Leads, Path
  <1> QED BY <1>4 DEF s

\* A path stays one when there are more edges.
LEMMA LeadsInMore ==
  ASSUME NEW edges, NEW more, edges \subseteq more, NEW p, NEW g, Leads(edges, p, g)
  PROVE  Leads(more, p, g)
  BY DEF Leads, Path

\* The query of the memberships finds what PostgreSQL lets privileges flow
\* along, with a chain to each role.
LEMMA ViaIsKnown ==
  ASSUME cat \in Catalog, rd.role \in Role,
         NEW via, via = Via(dedupe_closure(membership_closure(cat, rd.role)))
  PROVE  via \in Partial(Role, Seq(Role)) /\ Known(via, Inheriting(cat), rd.role)
  <1> DEFINE r == rd.role
             hops == UpHops(cat)
             es == dedupe_closure(Chains(hops, r))
             inherited == {e \in es : e.inherited}
             row(g) == CHOOSE e \in inherited : Last(e.path) = g
  <1>1. hops \in HopsOf /\ Flowing(hops) = Inheriting(cat) /\ Inheriting(cat) \in SUBSET (Role \X Role)
    BY HopsFlow
  <1>2. es = dedupe_closure(membership_closure(cat, rd.role))
    BY DEF membership_closure, UpHops
  <1> HIDE DEF hops
  <1>3. /\ \A e \in es : \E n \in Nat \ {0} : Row1(hops, r, n, e)
        /\ Ends(es) = Reached(Inheriting(cat), r) \ {r}
    BY <1>1, ClosureRows
  <1> HIDE DEF es
  <1>4. r \in Reached(Inheriting(cat), r) /\ Reached(Inheriting(cat), r) \subseteq Role
    BY <1>1, ReachedIsLeast
  <1>5. via = [g \in Ends(es) \cup {r} |-> IF g = r THEN <<>> ELSE Tail(row(g).path)]
    <2>1. via = Via(es)
      BY <1>2
    <2>2. Via(es) = [g \in Ends(es) \cup {r} |-> IF g = r THEN <<>> ELSE Tail(row(g).path)]
      BY DEF Via, Ends
    <2> QED BY <2>1, <2>2
  <1>6. DOMAIN via = Reached(Inheriting(cat), r)
    BY <1>3, <1>4, <1>5
  <1>7. ASSUME NEW g \in DOMAIN via
        PROVE  via[g] \in Seq(Role) /\ Leads(Inheriting(cat), <<r>> \o via[g], g)
    <2>1. CASE g = r
      <3>1. via[g] = <<>>
        BY <1>5, <2>1
      <3>2. <<r>> \o <<>> = <<r>>
        OBVIOUS
      <3> QED BY <2>1, <3>1, <3>2 DEF Leads, Path
    <2>2. CASE g # r
      <3>1. g \in Ends(es)
        BY <1>5, <2>2
      <3> DEFINE e == row(g)
      <3>2. e \in es /\ e.inherited /\ Last(e.path) = g
        BY <3>1 DEF Ends
      <3>3. via[g] = Tail(e.path)
        BY <1>5, <2>2
      <3> HIDE DEF row, e
      <3>4. PICK n \in Nat \ {0} : Row1(hops, r, n, e)
        BY <1>3, <3>2
      <3>5. /\ e.path \in Seq(Role) /\ Len(e.path) = n + 1 /\ e.path[1] = r /\ e.path # <<>>
            /\ \A i \in 1..n : <<e.path[i], e.path[i+1]>> \in Inheriting(cat)
        BY <1>1, <3>2, <3>4 DEF Row1
      <3>6. Tail(e.path) \in Seq(Role) /\ <<r>> \o Tail(e.path) = e.path
        BY <3>5, HeadAndTail
      <3>7. Leads(Inheriting(cat), e.path, g)
        BY <3>2, <3>5 DEF Leads, Path, Last
      <3> QED BY <3>3, <3>6, <3>7
    <2> QED BY <2>1, <2>2
  <1>8. via \in [DOMAIN via -> Seq(Role)] /\ DOMAIN via \in SUBSET Role
    BY <1>4, <1>5, <1>6, <1>7
  <1>9. via \in Partial(Role, Seq(Role))
    BY <1>8 DEF Partial
  <1> QED BY <1>6, <1>7, <1>9 DEF Known

\* add_database_owner completes it.
LEMMA OwnerIsAdded ==
  ASSUME cat \in Catalog, rd.role \in Role, PgDatabaseOwner \in rd.names,
         rd.via \in Partial(Role, Seq(Role)), Known(rd.via, Inheriting(cat), rd.role),
         NEW via, via = add_database_owner(rd.via, cat.owner["database"])
  PROVE  Known(via, Edges(cat), rd.role)
  <1> DEFINE r == rd.role
             a == cat.owner["database"]
             E == Inheriting(cat)
  <1>1. a \in Role /\ PgDatabaseOwner \in Role
    BY PredefinedRoles DEF Catalog, Object
  <1>2. E \in SUBSET (Role \X Role) /\ \A e \in E : e[1] # PgDatabaseOwner
    BY HopsFlow
  <1>3. Reached(Edges(cat), r) = Reached(E, r) \cup (IF a \in Reached(E, r) THEN {PgDatabaseOwner} ELSE {})
    <2> HIDE DEF a, E, r
    <2>1. Reached(E \cup {<<a, PgDatabaseOwner>>}, r)
            = Reached(E, r) \cup (IF a \in Reached(E, r) THEN {PgDatabaseOwner} ELSE {})
      <3>1. r \in Role
        BY DEF r
      <3> QED BY <1>1, <1>2, <3>1, OneMoreEdge
    <2> QED BY <2>1 DEF Edges, E, a
  <1>4. E \subseteq Edges(cat) /\ <<a, PgDatabaseOwner>> \in Edges(cat)
    BY DEF Edges
  <1>5. /\ DOMAIN rd.via = Reached(E, r)
        /\ \A g \in DOMAIN rd.via : Leads(E, <<r>> \o rd.via[g], g) /\ rd.via[g] \in Seq(Role)
    BY DEF Known, Partial
  <1>6. CASE a \in DOMAIN rd.via /\ PgDatabaseOwner \notin DOMAIN rd.via
    <2>1. via = With(rd.via, PgDatabaseOwner, Append(rd.via[a], PgDatabaseOwner))
      BY <1>6 DEF add_database_owner
    <2> HIDE DEF a, E, r
    <2>2. DOMAIN via = Reached(Edges(cat), r)
      BY <1>3, <1>5, <1>6, <2>1 DEF With
    <2>3. ASSUME NEW g \in DOMAIN via PROVE Leads(Edges(cat), <<r>> \o via[g], g)
      <3>1. CASE g = PgDatabaseOwner
        <4>1. via[g] = Append(rd.via[a], g)
          BY <2>1, <3>1 DEF With
        <4>2. Leads(E, <<r>> \o rd.via[a], a) /\ rd.via[a] \in Seq(Role)
          BY <1>5, <1>6
        <4>3. Leads(Edges(cat), <<r>> \o Append(rd.via[a], g), g)
          BY <1>1, <1>4, <3>1, <4>2, LeadsOn DEF r
        <4> QED BY <4>1, <4>3
      <3>2. CASE g # PgDatabaseOwner
        <4>1. g \in DOMAIN rd.via /\ via[g] = rd.via[g]
          BY <2>1, <3>2 DEF With
        <4> QED BY <1>4, <1>5, <4>1, LeadsInMore
      <3> QED BY <3>1, <3>2
    <2> QED BY <2>2, <2>3 DEF Known, r
  <1>7. CASE a \notin DOMAIN rd.via \/ PgDatabaseOwner \in DOMAIN rd.via
    <2>1. via = rd.via
      BY <1>7 DEF add_database_owner
    <2> HIDE DEF a, E, r
    <2>2. DOMAIN via = Reached(Edges(cat), r)
      BY <1>3, <1>5, <1>7, <2>1
    <2>3. \A g \in DOMAIN via : Leads(Edges(cat), <<r>> \o via[g], g)
      BY <1>4, <1>5, <2>1, LeadsInMore
    <2> QED BY <2>2, <2>3 DEF Known, r
  <1> QED BY <1>6, <1>7

\* With keeps the type of a partial function.
LEMMA WithIsPartial ==
  ASSUME NEW D, NEW T, NEW f \in Partial(D, T), NEW x \in D, NEW v \in T
  PROVE  With(f, x, v) \in Partial(D, T)
  <1>1. DOMAIN f \in SUBSET D /\ f \in [DOMAIN f -> T]
    BY DEF Partial
  <1>2. With(f, x, v) \in [DOMAIN f \cup {x} -> T]
    BY <1>1 DEF With
  <1> QED BY <1>1, <1>2 DEF Partial

\* What a role may use is what it reaches.
LEMMA PrivilegesAreReached ==
  ASSUME NEW c, NEW r PROVE PrivsOf(c, r) = Reached(Edges(c), r)
  BY DEF PrivsOf, Edges

PolicyStage == {"function", "function_acl", "done"}

\* What the report has at each stage.
LEMMA StagesDone ==
  /\ RowsDone("names") = {} /\ AclsDone("names") = {}
  /\ RowsDone("closure") = {} /\ AclsDone("closure") = {}
  /\ RowsDone("database") = {} /\ AclsDone("database") = {}
  /\ RowsDone("database_acl") = {"database"} /\ AclsDone("database_acl") = {}
  /\ RowsDone("schema") = {"database"} /\ AclsDone("schema") = {"database"}
  /\ RowsDone("schema_acl") = {"database", "schema"} /\ AclsDone("schema_acl") = {"database"}
  /\ RowsDone("table") = {"database", "schema"} /\ AclsDone("table") = {"database", "schema"}
  /\ RowsDone("table_acl") = {"database", "schema", "table"} /\ AclsDone("table_acl") = {"database", "schema"}
  /\ RowsDone("policies") = {"database", "schema", "table"} /\ AclsDone("policies") = {"database", "schema", "table"}
  /\ RowsDone("function") = {"database", "schema", "table"} /\ AclsDone("function") = {"database", "schema", "table"}
  /\ RowsDone("function_acl") = {"database", "schema", "table", "function"} /\ AclsDone("function_acl") = {"database", "schema", "table"}
  /\ RowsDone("done") = {"database", "schema", "table", "function"} /\ AclsDone("done") = {"database", "schema", "table", "function"}
  <1>1. RowAhead("database") = {"names", "closure", "database"}
    BY DEF RowAhead
  <1>2. RowAhead("schema") = {"names", "closure", "database", "database_acl", "schema"}
    BY DEF RowAhead
  <1>3. RowAhead("table") = {"names", "closure", "database", "database_acl", "schema",
                              "schema_acl", "table"}
    BY DEF RowAhead
  <1>4. RowAhead("function") = Stage \ {"function_acl", "done"}
    BY DEF RowAhead
  <1>5. AclAhead("database") = RowAhead("database") \cup {"database_acl"}
    BY DEF AclAhead
  <1>6. AclAhead("schema") = RowAhead("schema") \cup {"schema_acl"}
    BY DEF AclAhead
  <1>7. AclAhead("table") = RowAhead("table") \cup {"table_acl"}
    BY DEF AclAhead
  <1>8. AclAhead("function") = Stage \ {"done"}
    BY DEF AclAhead
  <1>9. \A s \in Stage :
       /\ RowsDone(s) = {o \in {"database", "schema", "table", "function"} : s \notin RowAhead(o)}
       /\ AclsDone(s) = {o \in {"database", "schema", "table", "function"} : s \notin AclAhead(o)}
    BY DEF RowsDone, AclsDone, Object
  <1>r0. RowsDone("names") = {}
    BY <1>1, <1>2, <1>3, <1>4, <1>9 DEF Stage
  <1>a0. AclsDone("names") = {}
    BY <1>1, <1>2, <1>3, <1>5, <1>6, <1>7, <1>8, <1>9 DEF Stage
  <1>r1. RowsDone("closure") = {}
    BY <1>1, <1>2, <1>3, <1>4, <1>9 DEF Stage
  <1>a1. AclsDone("closure") = {}
    BY <1>1, <1>2, <1>3, <1>5, <1>6, <1>7, <1>8, <1>9 DEF Stage
  <1>r2. RowsDone("database") = {}
    BY <1>1, <1>2, <1>3, <1>4, <1>9 DEF Stage
  <1>a2. AclsDone("database") = {}
    BY <1>1, <1>2, <1>3, <1>5, <1>6, <1>7, <1>8, <1>9 DEF Stage
  <1>r3. RowsDone("database_acl") = {"database"}
    BY <1>1, <1>2, <1>3, <1>4, <1>9 DEF Stage
  <1>a3. AclsDone("database_acl") = {}
    BY <1>1, <1>2, <1>3, <1>5, <1>6, <1>7, <1>8, <1>9 DEF Stage
  <1>r4. RowsDone("schema") = {"database"}
    BY <1>1, <1>2, <1>3, <1>4, <1>9 DEF Stage
  <1>a4. AclsDone("schema") = {"database"}
    BY <1>1, <1>2, <1>3, <1>5, <1>6, <1>7, <1>8, <1>9 DEF Stage
  <1>r5. RowsDone("schema_acl") = {"database", "schema"}
    BY <1>1, <1>2, <1>3, <1>4, <1>9 DEF Stage
  <1>a5. AclsDone("schema_acl") = {"database"}
    BY <1>1, <1>2, <1>3, <1>5, <1>6, <1>7, <1>8, <1>9 DEF Stage
  <1>r6. RowsDone("table") = {"database", "schema"}
    BY <1>1, <1>2, <1>3, <1>4, <1>9 DEF Stage
  <1>a6. AclsDone("table") = {"database", "schema"}
    BY <1>1, <1>2, <1>3, <1>5, <1>6, <1>7, <1>8, <1>9 DEF Stage
  <1>r7. RowsDone("table_acl") = {"database", "schema", "table"}
    BY <1>1, <1>2, <1>3, <1>4, <1>9 DEF Stage
  <1>a7. AclsDone("table_acl") = {"database", "schema"}
    BY <1>1, <1>2, <1>3, <1>5, <1>6, <1>7, <1>8, <1>9 DEF Stage
  <1>r8. RowsDone("policies") = {"database", "schema", "table"}
    BY <1>1, <1>2, <1>3, <1>4, <1>9 DEF Stage
  <1>a8. AclsDone("policies") = {"database", "schema", "table"}
    BY <1>1, <1>2, <1>3, <1>5, <1>6, <1>7, <1>8, <1>9 DEF Stage
  <1>r9. RowsDone("function") = {"database", "schema", "table"}
    BY <1>1, <1>2, <1>3, <1>4, <1>9 DEF Stage
  <1>a9. AclsDone("function") = {"database", "schema", "table"}
    BY <1>1, <1>2, <1>3, <1>5, <1>6, <1>7, <1>8, <1>9 DEF Stage
  <1>r10. RowsDone("function_acl") = {"database", "schema", "table", "function"}
    BY <1>1, <1>2, <1>3, <1>4, <1>9 DEF Stage
  <1>a10. AclsDone("function_acl") = {"database", "schema", "table"}
    BY <1>1, <1>2, <1>3, <1>5, <1>6, <1>7, <1>8, <1>9 DEF Stage
  <1>r11. RowsDone("done") = {"database", "schema", "table", "function"}
    BY <1>1, <1>2, <1>3, <1>4, <1>9 DEF Stage
  <1>a11. AclsDone("done") = {"database", "schema", "table", "function"}
    BY <1>1, <1>2, <1>3, <1>5, <1>6, <1>7, <1>8, <1>9 DEF Stage
  <1> QED BY <1>r0, <1>a0, <1>r1, <1>a1, <1>r2, <1>a2, <1>r3, <1>a3, <1>r4, <1>a4, <1>r5, <1>a5,
             <1>r6, <1>a6, <1>r7, <1>a7, <1>r8, <1>a8, <1>r9, <1>a9, <1>r10, <1>a10, <1>r11, <1>a11

\* What the query of the rows of o adds to the report.
LEMMA RowIsTyped ==
  ASSUME cat \in Catalog, rd \in Report, NEW o \in Object
  PROVE  /\ Granted(o) \in Partial(Object, BOOLEAN)
         /\ DOMAIN Granted(o) = DOMAIN rd.granted \cup {o}
         /\ Granted(o)[o] = HasPrivilege(cat, rd.role, o)
         /\ \A p \in DOMAIN rd.granted : p # o => Granted(o)[p] = rd.granted[p]
         /\ Owner(o) \in Partial(Object, Role)
         /\ DOMAIN Owner(o) = DOMAIN rd.owner \cup {o}
         /\ Owner(o)[o] = cat.owner[o]
         /\ \A p \in DOMAIN rd.owner : p # o => Owner(o)[p] = rd.owner[p]
  <1> DEFINE v == HasPrivilege(cat, rd.role, o)
             w == cat.owner[o]
             g == rd.granted
             h == rd.owner
  <1>1. v \in BOOLEAN
    BY DEF HasPrivilege
  <1>2. w \in Role
    BY DEF Catalog
  <1>3. g \in Partial(Object, BOOLEAN) /\ h \in Partial(Object, Role)
    BY DEF Report
  <1>4. Granted(o) = With(g, o, v) /\ Owner(o) = With(h, o, w)
    BY DEF Granted, Owner
  <1> HIDE DEF v, w, g, h
  <1>5. /\ With(g, o, v) \in Partial(Object, BOOLEAN)
        /\ DOMAIN With(g, o, v) = DOMAIN g \cup {o}
        /\ With(g, o, v)[o] = v
        /\ \A p \in DOMAIN g : p # o => With(g, o, v)[p] = g[p]
    <2>1. With(g, o, v) \in Partial(Object, BOOLEAN)
      BY <1>1, <1>3, WithIsPartial, Zenon
    <2> QED BY <2>1 DEF With
  <1>6. /\ With(h, o, w) \in Partial(Object, Role)
        /\ DOMAIN With(h, o, w) = DOMAIN h \cup {o}
        /\ With(h, o, w)[o] = w
        /\ \A p \in DOMAIN h : p # o => With(h, o, w)[p] = h[p]
    <2>1. With(h, o, w) \in Partial(Object, Role)
      BY <1>2, <1>3, WithIsPartial, Zenon
    <2> QED BY <2>1 DEF With
  <1> QED BY <1>4, <1>5, <1>6 DEF v, w, g, h

\* The query of the rows of o says of it what the server decides.
LEMMA RowKeepsIInv ==
  ASSUME IInv, NEW o \in Object, NEW stage \in Stage, NEW next \in Stage, Row(o, stage, next),
         {stage, next} \cap {"names", "closure", "database"} = {},
         RowsDone(next) = RowsDone(stage) \cup {o},
         AclsDone(next) = AclsDone(stage),
         o \notin RowsDone(stage),
         next \in PolicyStage => stage \in PolicyStage
  PROVE  IInv'
  <1>0. /\ stage \notin {"names", "closure", "database"}
        /\ next \notin {"names", "closure", "database"}
    OBVIOUS
  <1>1. cat' = cat /\ rd.stage = stage
    BY DEF Row
  <1>2. rd \in Report /\ ReportInv
    BY <1>1 DEF IInv, ReportInv, Idle, Stage
  <1>3. /\ HasPrivilege(cat, rd.role, o) \in BOOLEAN
        /\ cat.owner[o] \in Role /\ cat \in Catalog
    BY DEF IInv, Catalog, HasPrivilege
  <1>4. /\ Granted(o) \in Partial(Object, BOOLEAN)
        /\ DOMAIN Granted(o) = DOMAIN rd.granted \cup {o}
        /\ Granted(o)[o] = HasPrivilege(cat, rd.role, o)
        /\ \A p \in DOMAIN rd.granted : p # o => Granted(o)[p] = rd.granted[p]
    BY <1>2, <1>3, RowIsTyped
  <1>5. /\ Owner(o) \in Partial(Object, Role)
        /\ DOMAIN Owner(o) = DOMAIN rd.owner \cup {o}
        /\ Owner(o)[o] = cat.owner[o]
        /\ \A p \in DOMAIN rd.owner : p # o => Owner(o)[p] = rd.owner[p]
    BY <1>2, <1>3, RowIsTyped
  <1>6. /\ rd' \in Report
        /\ rd'.stage = next /\ rd'.granted = Granted(o) /\ rd'.owner = Owner(o)
        /\ rd'.role = rd.role /\ rd'.super = rd.super /\ rd'.spoilt = rd.spoilt
        /\ rd'.via = rd.via /\ rd'.oids = rd.oids /\ rd'.names = rd.names
        /\ rd'.sources = rd.sources /\ rd'.policies = rd.policies
    BY <1>2, <1>4, <1>5 DEF Row, Report
  <1>7. DOMAIN rd.granted = RowsDone(stage) /\ DOMAIN rd.owner = DOMAIN rd.granted
        /\ DOMAIN rd.sources = AclsDone(stage)
    BY <1>1, <1>2 DEF ReportInv, Idle, Report, Stage
  <1>8. ReportInv'
    <2>1. /\ DOMAIN rd'.granted = RowsDone(rd'.stage)
          /\ DOMAIN rd'.owner = DOMAIN rd'.granted
          /\ DOMAIN rd'.sources = AclsDone(rd'.stage)
      BY <1>4, <1>5, <1>6, <1>7
    <2>2. rd.super = (rd.role \in cat.super) /\ rd.oids = DOMAIN rd.via /\ PgDatabaseOwner \in rd.names
      BY <1>0, <1>1, <1>2 DEF ReportInv, Idle, Report, Stage
    <2> QED BY <1>1, <1>6, <2>1, <2>2 DEF ReportInv
  <1>9. RolesKept' => RolesKept
    BY <1>1, <1>6 DEF RolesKept, Stage
  <1>10. ViaInv'
    BY <1>1, <1>6, <1>9 DEF IInv, ViaInv
  <1>11. RowInv'
    <2> SUFFICES ASSUME RolesKept', NEW p \in (DOMAIN rd.granted \cup {o}) \ DOMAIN rd.sources,
                        p \notin rd.spoilt
                 PROVE  Granted(o)[p] = HasPrivilege(cat, rd.role, p)
      BY <1>1, <1>4, <1>6 DEF RowInv
    <2>1. CASE p = o
      BY <1>4, <2>1
    <2>2. CASE p # o
      BY <1>4, <1>9, <2>2 DEF IInv, RowInv
    <2> QED BY <2>1, <2>2
  <1>12. SourceInv'
    <2> SUFFICES ASSUME RolesKept', NEW p \in DOMAIN rd.sources, p \notin rd.spoilt
                 PROVE  Explains(cat, rd.role, p, Granted(o)[p], rd.sources[p])
      BY <1>1, <1>6 DEF SourceInv
    <2>1. p \in DOMAIN rd.granted /\ p # o
      <3>1. AclsDone(stage) = AclsDone(next) /\ o \notin RowsDone(stage)
        OBVIOUS
      <3>2. AclsDone(stage) \subseteq RowsDone(stage)
        BY StagesDone DEF Stage
      <3> QED BY <1>7, <3>2
    <2>2. Explains(cat, rd.role, p, rd.granted[p], rd.sources[p])
      BY <1>9 DEF IInv, SourceInv
    <2>3. Granted(o)[p] = rd.granted[p]
      BY <1>4, <2>1
    <2> QED BY <2>2, <2>3
  <1>13. OwnerInv'
    <2> SUFFICES ASSUME "rows" \notin rd.spoilt, "table" \in DOMAIN rd.owner \cup {o}
                 PROVE  Owner(o)["table"] = cat.owner["table"]
      BY <1>1, <1>5, <1>6 DEF OwnerInv
    <2>1. CASE o = "table"
      BY <1>5, <2>1
    <2>2. CASE o # "table"
      BY <1>1, <1>5, <2>2 DEF IInv, OwnerInv, Stage
    <2> QED BY <2>1, <2>2
  <1>14. PolicyInv'
    BY <1>1, <1>6, <1>9 DEF IInv, PolicyInv, PolicyStage
  <1> QED BY <1>1, <1>3, <1>8, <1>10, <1>11, <1>12, <1>13, <1>14 DEF IInv

\* The entries the query of the ACL of o returns.
AclEntries(o) == cat.acl[o] \cap (rd.oids \cup {PUBLIC})

\* build_privileges makes sources.
LEMMA SourcesAreTyped ==
  ASSUME cat \in Catalog, rd \in Report, NEW o \in Object
  PROVE  Sources(o, AclEntries(o)) \in SUBSET Source
  <1>1. rd.role \in Role /\ rd.oids \subseteq Role
        /\ \A g \in DOMAIN rd.via : rd.via[g] \in Seq(Role)
    BY DEF Report, Partial
  <1>2. ASSUME NEW g \in AclEntries(o) PROVE source(g, o) \in Source
    <2>1. g \in Grantee
      BY <1>1 DEF AclEntries, Grantee
    <2>2. (IF g \in DOMAIN rd.via THEN rd.via[g] ELSE <<>>) \in Seq(Role)
      BY <1>1
    <2> QED BY <2>1, <2>2 DEF source, Source
  <1>3. [kind |-> "superuser", grantee |-> rd.role, via |-> <<>>] \in Source
    BY <1>1 DEF Source, Grantee
  <1> QED BY <1>2, <1>3 DEF Sources

\* The entries of the roles read explain what the server said.
LEMMA SourcesExplain ==
  ASSUME cat \in Catalog, ReportInv, rd \in Report, NEW o \in Object,
         Known(rd.via, Edges(cat), rd.role), rd.granted[o] = HasPrivilege(cat, rd.role, o)
  PROVE  Explains(cat, rd.role, o, rd.granted[o], Sources(o, AclEntries(o)))
  <1> DEFINE r == rd.role
             found == {source(g, o) : g \in AclEntries(o)}
             super == [kind |-> "superuser", grantee |-> r, via |-> <<>>]
  <1>0. r \in Role /\ rd.stage # "idle"
    BY DEF Report, Stage
  <1>1. rd.oids = PrivsOf(cat, r) /\ rd.oids = DOMAIN rd.via /\ (rd.super <=> r \in cat.super)
    <2>1. rd.oids = DOMAIN rd.via /\ rd.super = (r \in cat.super)
      BY <1>0 DEF ReportInv, Idle
    <2>2. DOMAIN rd.via = PrivsOf(cat, r)
      BY PrivilegesAreReached DEF Known
    <2> QED BY <2>1, <2>2
  <1>2. found # {} <=> cat.acl[o] \cap (PrivsOf(cat, r) \cup {PUBLIC}) # {}
    BY <1>1 DEF AclEntries
  <1>3. /\ ~(rd.granted[o] /\ found = {} /\ rd.super) => Sources(o, AclEntries(o)) = found
        /\ rd.granted[o] /\ found = {} /\ rd.super => Sources(o, AclEntries(o)) = {super}
    BY DEF Sources
  <1>4. <<r>> \o <<>> = <<r>>
    BY <1>0
  <1>5. ASSUME NEW g \in AclEntries(o)
        PROVE  /\ Path(Edges(cat), <<r>> \o source(g, o).via)
               /\ source(g, o).grantee # PUBLIC => Last(<<r>> \o source(g, o).via) = source(g, o).grantee
    <2>1. CASE g \in DOMAIN rd.via
      <3>1. source(g, o).via = rd.via[g] /\ source(g, o).grantee = g
        BY <2>1 DEF source
      <3>2. Leads(Edges(cat), <<r>> \o rd.via[g], g)
        BY <2>1 DEF Known
      <3> QED BY <3>1, <3>2 DEF Leads, Last
    <2>2. CASE g \notin DOMAIN rd.via
      <3>1. source(g, o).via = <<>> /\ source(g, o).grantee = PUBLIC
        BY <1>1, <2>2 DEF source, AclEntries
      <3> QED BY <1>4, <3>1 DEF Path
    <2> QED BY <2>1, <2>2
  <1>6. Path(Edges(cat), <<r>> \o super.via) /\ Last(<<r>> \o super.via) = super.grantee
    BY <1>0, <1>4 DEF Path, Last
  <1>7. rd.granted[o] <=> \/ r \in cat.super
                          \/ found # {}
                          \/ o \in {"schema", "table"} /\ PgReadAllData \in PrivsOf(cat, r)
    BY <1>2 DEF HasPrivilege
  <1> HIDE DEF super
  <1>8. CASE rd.granted[o] /\ found = {} /\ rd.super
    BY <1>3, <1>6, <1>8 DEF Explains
  <1>9. CASE ~(rd.granted[o] /\ found = {} /\ rd.super)
    <2>1. \A s \in found : /\ Path(Edges(cat), <<r>> \o s.via)
                           /\ s.grantee # PUBLIC => Last(<<r>> \o s.via) = s.grantee
      BY <1>5
    <2>2. found # {} => rd.granted[o]
      BY <1>7
    <2>3. rd.granted[o] => \/ found # {}
                           \/ o \in {"schema", "table"} /\ PgReadAllData \in PrivsOf(cat, r)
      BY <1>1, <1>7, <1>9
    <2> HIDE DEF found
    <2> QED BY <1>3, <1>9, <2>1, <2>2, <2>3 DEF Explains
  <1> QED BY <1>8, <1>9

\* The query of the ACL of o explains what was said of it.
LEMMA AclKeepsIInv ==
  ASSUME IInv, NEW o \in Object, NEW stage \in Stage, NEW next \in Stage, Acl(o, stage, next),
         {stage, next} \cap {"names", "closure", "database"} = {},
         RowsDone(next) = RowsDone(stage), AclsDone(next) = AclsDone(stage) \cup {o},
         o \in RowsDone(stage) \ AclsDone(stage),
         next \in PolicyStage => stage \in PolicyStage
  PROVE  IInv'
  <1>0. /\ stage \notin {"names", "closure", "database"}
        /\ next \notin {"names", "closure", "database"}
    OBVIOUS
  <1>1. cat' = cat /\ rd.stage = stage
    BY DEF Acl
  <1>2. rd \in Report /\ ReportInv /\ cat \in Catalog
    BY <1>1 DEF IInv, ReportInv, Idle, Stage
  <1> DEFINE new == Sources(o, AclEntries(o))
             all == With(rd.sources, o, new)
  <1>3. /\ all \in Partial(Object, SUBSET Source)
        /\ DOMAIN all = DOMAIN rd.sources \cup {o}
        /\ all[o] = new
        /\ \A p \in DOMAIN rd.sources : p # o => all[p] = rd.sources[p]
    <2>1. new \in SUBSET Source
      BY <1>2, SourcesAreTyped
    <2>2. rd.sources \in Partial(Object, SUBSET Source)
      BY <1>2 DEF Report
    <2> HIDE DEF new
    <2>3. all \in Partial(Object, SUBSET Source)
      BY <2>1, <2>2, WithIsPartial, Zenon
    <2> QED BY <2>3 DEF With
  <1>4. rd' = [rd EXCEPT !.stage = next, !.sources = all]
    BY DEF Acl, AclEntries
  <1> HIDE DEF all, new
  <1>6. /\ rd' \in Report
        /\ rd'.stage = next /\ rd'.granted = rd.granted /\ rd'.owner = rd.owner
        /\ rd'.role = rd.role /\ rd'.super = rd.super /\ rd'.spoilt = rd.spoilt
        /\ rd'.via = rd.via /\ rd'.oids = rd.oids /\ rd'.names = rd.names
        /\ rd'.sources = all /\ rd'.policies = rd.policies
    BY <1>2, <1>3, <1>4 DEF Report
  <1>7. DOMAIN rd.granted = RowsDone(stage) /\ DOMAIN rd.owner = DOMAIN rd.granted
        /\ DOMAIN rd.sources = AclsDone(stage)
    BY <1>1, <1>2 DEF ReportInv, Idle, Report, Stage
  <1>8. ReportInv'
    <2>1. /\ DOMAIN rd'.granted = RowsDone(rd'.stage)
          /\ DOMAIN rd'.owner = DOMAIN rd'.granted
          /\ DOMAIN rd'.sources = AclsDone(rd'.stage)
      BY <1>3, <1>6, <1>7
    <2>2. rd.super = (rd.role \in cat.super) /\ rd.oids = DOMAIN rd.via /\ PgDatabaseOwner \in rd.names
      BY <1>0, <1>1, <1>2 DEF ReportInv, Idle, Report, Stage
    <2> QED BY <1>1, <1>6, <2>1, <2>2 DEF ReportInv
  <1>9. RolesKept' => RolesKept
    BY <1>1, <1>6 DEF RolesKept, Stage
  <1>10. ViaInv'
    BY <1>0, <1>1, <1>6, <1>9 DEF IInv, ViaInv
  <1>11. RowInv'
    BY <1>1, <1>3, <1>6, <1>9 DEF IInv, RowInv
  <1>12. SourceInv'
    <2> SUFFICES ASSUME RolesKept', NEW p \in DOMAIN rd.sources \cup {o}, p \notin rd.spoilt
                 PROVE  Explains(cat, rd.role, p, rd.granted[p], all[p])
      BY <1>1, <1>3, <1>6 DEF SourceInv
    <2>1. CASE p = o
      <3>1. Known(rd.via, Edges(cat), rd.role)
        BY <1>0, <1>1, <1>9 DEF IInv, ViaInv
      <3>2. rd.granted[o] = HasPrivilege(cat, rd.role, o)
        BY <1>7, <1>9, <2>1 DEF IInv, RowInv
      <3> QED BY <1>2, <1>3, <2>1, <3>1, <3>2, SourcesExplain DEF new
    <2>2. CASE p # o
      BY <1>3, <1>9, <2>2 DEF IInv, SourceInv
    <2> QED BY <2>1, <2>2
  <1>13. OwnerInv'
    BY <1>1, <1>6 DEF IInv, OwnerInv, Stage
  <1>14. PolicyInv'
    BY <1>1, <1>6, <1>9 DEF IInv, PolicyInv, PolicyStage
  <1> QED BY <1>1, <1>2, <1>8, <1>10, <1>11, <1>12, <1>13, <1>14 DEF IInv

\* Row security is read with the closure there is.
LEMMA PoliciesKeepIInv ==
  ASSUME IInv, Policies
  PROVE  IInv'
  <1>1. cat' = cat /\ rd.stage = "policies"
    BY DEF Policies
  <1>2. rd \in Report /\ ReportInv /\ cat \in Catalog
    BY <1>1 DEF IInv, ReportInv, Idle
  <1> DEFINE new == cat.policy \cap (rd.oids \cup {PUBLIC}) # {}
  <1>3. rd' = [rd EXCEPT !.stage = "function", !.policies = new] /\ new \in BOOLEAN
    BY DEF Policies
  <1> HIDE DEF new
  <1>4. /\ rd' \in Report
        /\ rd'.stage = "function" /\ rd'.granted = rd.granted /\ rd'.owner = rd.owner
        /\ rd'.role = rd.role /\ rd'.super = rd.super /\ rd'.spoilt = rd.spoilt
        /\ rd'.via = rd.via /\ rd'.oids = rd.oids /\ rd'.names = rd.names
        /\ rd'.sources = rd.sources /\ rd'.policies = new
    BY <1>2, <1>3 DEF Report, Stage
  <1>5. RowsDone("function") = RowsDone("policies") /\ AclsDone("function") = AclsDone("policies")
    BY StagesDone
  <1>6. ReportInv'
    <2>1. /\ DOMAIN rd.granted = RowsDone("policies") /\ DOMAIN rd.owner = DOMAIN rd.granted
          /\ DOMAIN rd.sources = AclsDone("policies")
          /\ rd.super = (rd.role \in cat.super) /\ rd.oids = DOMAIN rd.via /\ PgDatabaseOwner \in rd.names
      BY <1>1, <1>2 DEF ReportInv, Idle
    <2> QED BY <1>1, <1>4, <1>5, <2>1 DEF ReportInv
  <1>7. RolesKept' => RolesKept
    BY <1>1, <1>4 DEF RolesKept
  <1>8. ViaInv'
    BY <1>1, <1>4, <1>7 DEF IInv, ViaInv
  <1>9. RowInv'
    BY <1>1, <1>4, <1>7 DEF IInv, RowInv
  <1>10. SourceInv'
    BY <1>1, <1>4, <1>7 DEF IInv, SourceInv
  <1>11. OwnerInv'
    BY <1>1, <1>4 DEF IInv, OwnerInv
  <1>12. PolicyInv'
    <2> SUFFICES ASSUME RolesKept'
                 PROVE  new = (cat.policy \cap (PrivsOf(cat, rd.role) \cup {PUBLIC}) # {})
      BY <1>1, <1>4 DEF PolicyInv
    <2>1. Known(rd.via, Edges(cat), rd.role)
      BY <1>1, <1>7 DEF IInv, ViaInv
    <2>2. rd.oids = DOMAIN rd.via
      BY <1>1, <1>2 DEF ReportInv, Idle
    <2>3. rd.oids = PrivsOf(cat, rd.role)
      BY <2>1, <2>2, PrivilegesAreReached DEF Known
    <2> QED BY <2>3 DEF new
  <1> QED BY <1>1, <1>2, <1>6, <1>8, <1>9, <1>10, <1>11, <1>12 DEF IInv

\* The names are read, pg_database_owner among them.
LEMMA NamesKeepIInv ==
  ASSUME IInv, Names
  PROVE  IInv'
  <1>1. cat' = cat /\ rd.stage = "names" /\ rd' = [rd EXCEPT !.stage = "closure", !.names = cat.roles]
    BY DEF Names
  <1>2. rd \in Report /\ ReportInv /\ cat \in Catalog
    BY <1>1 DEF IInv, ReportInv, Idle
  <1>3. cat.roles \in SUBSET Role /\ PgDatabaseOwner \in cat.roles
    BY <1>2 DEF Catalog
  <1>4. /\ rd' \in Report
        /\ rd'.stage = "closure" /\ rd'.granted = rd.granted /\ rd'.owner = rd.owner
        /\ rd'.role = rd.role /\ rd'.super = rd.super /\ rd'.spoilt = rd.spoilt
        /\ rd'.via = rd.via /\ rd'.oids = rd.oids /\ rd'.names = cat.roles
        /\ rd'.sources = rd.sources /\ rd'.policies = rd.policies
    BY <1>1, <1>2, <1>3 DEF Report, Stage
  <1>5. RowsDone("names") = {} /\ AclsDone("names") = {} /\ RowsDone("closure") = {} /\ AclsDone("closure") = {}
    BY StagesDone
  <1>6. /\ DOMAIN rd.granted = {} /\ DOMAIN rd.owner = DOMAIN rd.granted /\ DOMAIN rd.sources = {}
        /\ rd.super = (rd.role \in cat.super) /\ rd.oids = DOMAIN rd.via
    BY <1>1, <1>2, <1>5 DEF ReportInv, Idle
  <1>7. ReportInv'
    BY <1>1, <1>3, <1>4, <1>5, <1>6 DEF ReportInv
  <1>8. ViaInv' /\ RowInv' /\ SourceInv' /\ OwnerInv' /\ PolicyInv'
    BY <1>1, <1>4, <1>6 DEF ViaInv, RowInv, SourceInv, OwnerInv, PolicyInv
  <1> QED BY <1>1, <1>2, <1>7, <1>8 DEF IInv

\* The memberships are read.
LEMMA ClosureKeepsIInv ==
  ASSUME IInv, Closure
  PROVE  IInv'
  <1> DEFINE via == Via(dedupe_closure(membership_closure(cat, rd.role)))
  <1>1. cat' = cat /\ rd.stage = "closure"
        /\ rd' = [rd EXCEPT !.stage = "database", !.via = via, !.oids = DOMAIN via]
    BY DEF Closure
  <1>2. rd \in Report /\ ReportInv /\ cat \in Catalog
    BY <1>1 DEF IInv, ReportInv, Idle
  <1>3. via \in Partial(Role, Seq(Role)) /\ Known(via, Inheriting(cat), rd.role)
    BY <1>2, ViaIsKnown DEF Report
  <1> HIDE DEF via
  <1>4. /\ rd' \in Report
        /\ rd'.stage = "database" /\ rd'.granted = rd.granted /\ rd'.owner = rd.owner
        /\ rd'.role = rd.role /\ rd'.super = rd.super /\ rd'.spoilt = rd.spoilt
        /\ rd'.via = via /\ rd'.oids = DOMAIN via /\ rd'.names = rd.names
        /\ rd'.sources = rd.sources /\ rd'.policies = rd.policies
    <2>1. DOMAIN via \in SUBSET Role
      BY <1>3 DEF Partial
    <2> QED BY <1>1, <1>2, <1>3, <2>1 DEF Report, Stage
  <1>5. RowsDone("database") = {} /\ AclsDone("database") = {} /\ RowsDone("closure") = {} /\ AclsDone("closure") = {}
    BY StagesDone
  <1>6. /\ DOMAIN rd.granted = {} /\ DOMAIN rd.owner = DOMAIN rd.granted /\ DOMAIN rd.sources = {}
        /\ rd.super = (rd.role \in cat.super) /\ PgDatabaseOwner \in rd.names
    BY <1>1, <1>2, <1>5 DEF ReportInv, Idle
  <1>7. ReportInv'
    <2>1. /\ DOMAIN rd'.granted = RowsDone(rd'.stage) /\ DOMAIN rd'.owner = DOMAIN rd'.granted
          /\ DOMAIN rd'.sources = AclsDone(rd'.stage)
      BY <1>4, <1>5, <1>6
    <2> QED BY <1>1, <1>3, <1>4, <1>6, <2>1 DEF ReportInv
  <1>8. RowInv' /\ SourceInv' /\ OwnerInv' /\ PolicyInv'
    BY <1>1, <1>4, <1>6 DEF RowInv, SourceInv, OwnerInv, PolicyInv
  <1>9. ViaInv'
    BY <1>1, <1>3, <1>4 DEF ViaInv
  <1> QED BY <1>1, <1>2, <1>7, <1>8, <1>9 DEF IInv

\* The row of the database, and its owner's implicit membership.
LEMMA DatabaseRowKeepsIInv ==
  ASSUME IInv, DatabaseRow
  PROVE  IInv'
  <1> DEFINE o == "database"
             via == add_database_owner(rd.via, cat.owner["database"])
  <1>1. cat' = cat /\ rd.stage = "database"
        /\ rd' = [rd EXCEPT !.stage = "database_acl", !.via = via, !.oids = DOMAIN via,
                    !.granted = Granted("database"), !.owner = Owner("database")]
    BY DEF DatabaseRow
  <1>2. rd \in Report /\ ReportInv /\ cat \in Catalog
    BY <1>1 DEF IInv, ReportInv, Idle
  <1>3. via \in Partial(Role, Seq(Role))
    <2>1. rd.via \in Partial(Role, Seq(Role))
      BY <1>2 DEF Report
    <2>2. CASE via = rd.via
      BY <2>1, <2>2
    <2>3. CASE via # rd.via
      <3>1. /\ cat.owner["database"] \in DOMAIN rd.via
            /\ via = With(rd.via, PgDatabaseOwner, Append(rd.via[cat.owner["database"]], PgDatabaseOwner))
        BY <2>3 DEF add_database_owner
      <3> DEFINE f == rd.via
                 v == Append(rd.via[cat.owner["database"]], PgDatabaseOwner)
      <3>2. v \in Seq(Role) /\ PgDatabaseOwner \in Role /\ f \in Partial(Role, Seq(Role))
        <4>1. rd.via[cat.owner["database"]] \in Seq(Role)
          BY <2>1, <3>1 DEF Partial
        <4> QED BY <2>1, <4>1, PredefinedRoles
      <3> HIDE DEF via
      <3>3. via = With(f, PgDatabaseOwner, v)
        BY <3>1
      <3> HIDE DEF f, v
      <3> QED BY <3>2, <3>3, WithIsPartial, Zenon
    <2> QED BY <2>2, <2>3
  <1>4. "roles" \notin rd.spoilt => Known(via, Edges(cat), rd.role)
    <2>1. PgDatabaseOwner \in rd.names /\ rd.role \in Role /\ rd.via \in Partial(Role, Seq(Role))
      BY <1>1, <1>2 DEF ReportInv, Idle, Report
    <2>2. "roles" \notin rd.spoilt => Known(rd.via, Inheriting(cat), rd.role)
      BY <1>1 DEF IInv, ViaInv, RolesKept
    <2> QED BY <1>2, <2>1, <2>2, OwnerIsAdded
  <1> HIDE DEF via
  <1>5. /\ Granted(o) \in Partial(Object, BOOLEAN)
        /\ DOMAIN Granted(o) = DOMAIN rd.granted \cup {o}
        /\ Granted(o)[o] = HasPrivilege(cat, rd.role, o)
        /\ Owner(o) \in Partial(Object, Role)
        /\ DOMAIN Owner(o) = DOMAIN rd.owner \cup {o}
        /\ Owner(o)[o] = cat.owner[o]
    BY <1>2, RowIsTyped DEF Object
  <1>6. /\ rd' \in Report
        /\ rd'.stage = "database_acl" /\ rd'.granted = Granted(o) /\ rd'.owner = Owner(o)
        /\ rd'.role = rd.role /\ rd'.super = rd.super /\ rd'.spoilt = rd.spoilt
        /\ rd'.via = via /\ rd'.oids = DOMAIN via /\ rd'.names = rd.names
        /\ rd'.sources = rd.sources /\ rd'.policies = rd.policies
    <2>1. DOMAIN via \in SUBSET Role
      BY <1>3 DEF Partial
    <2> QED BY <1>1, <1>2, <1>3, <1>5, <2>1 DEF Report, Stage
  <1>7. RowsDone("database") = {} /\ AclsDone("database") = {}
        /\ RowsDone("database_acl") = {"database"} /\ AclsDone("database_acl") = {}
    BY StagesDone
  <1>8. /\ DOMAIN rd.granted = {} /\ DOMAIN rd.owner = DOMAIN rd.granted /\ DOMAIN rd.sources = {}
        /\ rd.super = (rd.role \in cat.super) /\ PgDatabaseOwner \in rd.names
    BY <1>1, <1>2, <1>7 DEF ReportInv, Idle
  <1>9. ReportInv'
    BY <1>1, <1>5, <1>6, <1>7, <1>8 DEF ReportInv
  <1>10. ViaInv'
    BY <1>1, <1>4, <1>6 DEF ViaInv, RolesKept
  <1>11. RowInv'
    BY <1>1, <1>5, <1>6, <1>8 DEF RowInv
  <1>12. SourceInv' /\ OwnerInv' /\ PolicyInv'
    BY <1>1, <1>5, <1>6, <1>8 DEF SourceInv, OwnerInv, PolicyInv
  <1> QED BY <1>1, <1>2, <1>9, <1>10, <1>11, <1>12 DEF IInv

\* A report starts with nothing read.
LEMMA BeginKeepsIInv ==
  ASSUME IInv, NEW r \in Subject, Begin(r)
  PROVE  IInv'
  <1>1. cat' = cat /\ cat \in Catalog /\ r \in Role
    BY SubjectAssumption DEF Begin, IInv
  <1>2. rd' = [stage |-> "names", role |-> r, super |-> r \in cat.super, spoilt |-> {},
               via |-> <<>>, oids |-> {}, names |-> {}, granted |-> <<>>, owner |-> <<>>,
               sources |-> <<>>, policies |-> FALSE]
    BY DEF Begin
  <1>3. \A D, T : <<>> \in Partial(D, T) /\ DOMAIN <<>> = {}
    <2> TAKE D, T
    <2>1. <<>> \in [{} -> T] /\ {} \in SUBSET D
      OBVIOUS
    <2> QED BY <2>1 DEF Partial
  <1>4. rd' \in Report
    <2>1. /\ <<>> \in Partial(Role, Seq(Role)) /\ <<>> \in Partial(Object, BOOLEAN)
          /\ <<>> \in Partial(Object, Role) /\ <<>> \in Partial(Object, SUBSET Source)
      BY <1>3, Zenon
    <2> QED BY <1>1, <1>2, <2>1 DEF Report, Stage
  <1>5. /\ rd'.stage = "names" /\ rd'.role = r /\ rd'.super = (r \in cat.super)
        /\ rd'.via = <<>> /\ rd'.oids = {} /\ rd'.granted = <<>> /\ rd'.owner = <<>>
        /\ rd'.sources = <<>>
    BY <1>2
  <1>6. RowsDone("names") = {} /\ AclsDone("names") = {}
    BY StagesDone
  <1>7. DOMAIN rd'.granted = {} /\ DOMAIN rd'.owner = {} /\ DOMAIN rd'.sources = {} /\ DOMAIN rd'.via = {}
    BY <1>3, <1>5
  <1>8. ReportInv'
    BY <1>1, <1>4, <1>5, <1>6, <1>7 DEF ReportInv
  <1>9. ViaInv' /\ RowInv' /\ SourceInv' /\ OwnerInv' /\ PolicyInv'
    BY <1>5, <1>7 DEF ViaInv, RowInv, SourceInv, OwnerInv, PolicyInv
  <1> QED BY <1>1, <1>8, <1>9 DEF IInv

\* With no report under way there is nothing to keep.
LEMMA IdleKeepsIInv ==
  ASSUME cat' \in Catalog, rd' = Idle
  PROVE  IInv'
  <1>1. rd'.stage = "idle"
    BY DEF Idle
  <1> QED BY <1>1 DEF IInv, ReportInv, ViaInv, RowInv, SourceInv, OwnerInv, PolicyInv, RolesKept

\* What a change of the catalog does not spoil of the report it keeps.
Keeps(spoilt, c) ==
  /\ c.super = cat.super
  /\ rd.stage \notin {"names", "closure"} /\ "roles" \notin spoilt =>
       Inheriting(c) = Inheriting(cat)
  /\ rd.stage \notin {"names", "closure", "database"} /\ "roles" \notin spoilt =>
       c.owner["database"] = cat.owner["database"]
  /\ \A o \in (DOMAIN rd.granted \ DOMAIN rd.sources) \ spoilt : c.acl[o] = cat.acl[o]
  /\ "table" \in DOMAIN rd.granted /\ "rows" \notin spoilt => c.owner["table"] = cat.owner["table"]
  /\ rd.stage \in PolicyStage /\ "rows" \notin spoilt => c.policy = cat.policy

\* A change that spoils all it touches keeps the invariant.
LEMMA ChangeKeepsIInv ==
  ASSUME IInv, NEW c \in Catalog, NEW spoilt \in SUBSET Spoilt, Change(c, spoilt),
         rd.stage # "idle" => Keeps(spoilt, c)
  PROVE  IInv'
  <1>1. cat' = c
    BY DEF Change
  <1>2. CASE rd = Idle
    BY <1>1, <1>2, IdleKeepsIInv DEF Change, Idle
  <1>3. CASE rd # Idle
    <2>1. rd \in Report /\ ReportInv /\ rd.stage # "idle" /\ rd.stage \in Stage
      BY <1>3 DEF IInv, ReportInv, Report, Stage
    <2>2. rd' = [rd EXCEPT !.spoilt = rd.spoilt \cup spoilt] /\ Keeps(spoilt, c)
      BY <2>1 DEF Change
    <2>3. /\ rd' \in Report
          /\ rd'.stage = rd.stage /\ rd'.granted = rd.granted /\ rd'.owner = rd.owner
          /\ rd'.role = rd.role /\ rd'.super = rd.super /\ rd'.spoilt = rd.spoilt \cup spoilt
          /\ rd'.via = rd.via /\ rd'.oids = rd.oids /\ rd'.names = rd.names
          /\ rd'.sources = rd.sources /\ rd'.policies = rd.policies
      BY <2>1, <2>2 DEF Report
    <2>4. /\ DOMAIN rd.granted = RowsDone(rd.stage)
          /\ DOMAIN rd.owner = DOMAIN rd.granted
          /\ DOMAIN rd.sources = AclsDone(rd.stage)
          /\ rd.super = (rd.role \in cat.super)
          /\ rd.oids = DOMAIN rd.via
          /\ rd.stage # "names" => PgDatabaseOwner \in rd.names
      BY <1>3, <2>1 DEF ReportInv
    <2>5. ReportInv'
      BY <1>1, <2>2, <2>3, <2>4 DEF ReportInv, Keeps
    <2>6. RolesKept' => RolesKept /\ "roles" \notin spoilt
      BY <2>1, <2>3 DEF RolesKept
    <2>7. rd.stage \notin {"names", "closure", "database"} /\ "roles" \notin spoilt =>
            Edges(c) = Edges(cat) /\ PrivsOf(c, rd.role) = PrivsOf(cat, rd.role)
      BY <2>2 DEF Keeps, Edges, PrivsOf
    <2>8. ViaInv'
      BY <1>1, <2>2, <2>3, <2>6, <2>7 DEF IInv, ViaInv, Keeps
    <2>9. rd.stage \in {"names", "closure", "database"} => DOMAIN rd.granted = {} /\ DOMAIN rd.sources = {}
      BY <2>4, StagesDone
    <2>10. RowInv'
      <3> SUFFICES ASSUME RolesKept', NEW o \in DOMAIN rd.granted \ DOMAIN rd.sources,
                          o \notin rd.spoilt, o \notin spoilt
                   PROVE  rd.granted[o] = HasPrivilege(c, rd.role, o)
        BY <1>1, <2>3 DEF RowInv
      <3>1. rd.granted[o] = HasPrivilege(cat, rd.role, o)
        BY <2>6 DEF IInv, RowInv
      <3>2. PrivsOf(c, rd.role) = PrivsOf(cat, rd.role) /\ c.acl[o] = cat.acl[o] /\ c.super = cat.super
        BY <2>2, <2>6, <2>7, <2>9 DEF Keeps
      <3> QED BY <3>1, <3>2 DEF HasPrivilege
    <2>11. SourceInv'
      <3> SUFFICES ASSUME RolesKept', NEW o \in DOMAIN rd.sources, o \notin rd.spoilt
                   PROVE  Explains(c, rd.role, o, rd.granted[o], rd.sources[o])
        BY <1>1, <2>3 DEF SourceInv
      <3>1. Explains(cat, rd.role, o, rd.granted[o], rd.sources[o])
        BY <2>6 DEF IInv, SourceInv
      <3>2. PrivsOf(c, rd.role) = PrivsOf(cat, rd.role) /\ Edges(c) = Edges(cat)
        BY <2>6, <2>7, <2>9
      <3> QED BY <3>1, <3>2 DEF Explains
    <2>12. OwnerInv'
      BY <1>1, <2>1, <2>2, <2>3, <2>4 DEF IInv, OwnerInv, Keeps
    <2>13. PolicyInv'
      <3>1. rd.stage \in PolicyStage => rd.stage \notin {"names", "closure", "database"}
        BY DEF PolicyStage
      <3> QED BY <1>1, <2>2, <2>3, <2>6, <2>7, <3>1 DEF IInv, PolicyInv, PolicyStage, Keeps
    <2> QED BY <1>1, <2>5, <2>8, <2>10, <2>11, <2>12, <2>13 DEF IInv
  <1> QED BY <1>2, <1>3

\* Privileges flow as the memberships and their options say.
LEMMA SameInheritance ==
  ASSUME NEW c, NEW d, c.members = d.members, c.modern = d.modern, c.rolinherit = d.rolinherit
  PROVE  Inheriting(c) = Inheriting(d)
  BY DEF Inheriting, Flows

\* Memberships are changed only with "roles" spoilt, once they are read.
LEMMA MembershipsKeepIInv ==
  ASSUME IInv, NEW c \in Catalog, Change(c, RolesSpoilt),
         c.super = cat.super, c.owner = cat.owner, c.acl = cat.acl, c.policy = cat.policy
  PROVE  IInv'
  <1>1. RolesSpoilt \in SUBSET Spoilt
    BY DEF RolesSpoilt, Spoilt
  <1>2. rd.stage # "idle" => Keeps(RolesSpoilt, c)
    BY DEF Keeps, RolesSpoilt, Past
  <1> QED BY <1>1, <1>2, ChangeKeepsIInv

\* A membership is granted.
LEMMA GrantRoleKeepsIInv ==
  ASSUME IInv, NEW e \in Member, NEW inherit \in BOOLEAN, GrantRole(e, inherit)
  PROVE  IInv'
  <1> DEFINE m == [member |-> e[1], role |-> e[2], inherit |-> inherit]
             c == [cat EXCEPT !.members = @ \cup {m}]
  <1>1. cat \in Catalog /\ e[1] \in Role \ {PgDatabaseOwner} /\ e[2] \in Role
    BY MembersAssumption DEF IInv
  <1>2. m \in [member : Role, role : Role, inherit : BOOLEAN] /\ m.member # PgDatabaseOwner
    BY <1>1
  <1> HIDE DEF m
  <1>3. c \in Catalog
    BY <1>1, <1>2 DEF Catalog
  <1>4. c.super = cat.super /\ c.owner = cat.owner /\ c.acl = cat.acl /\ c.policy = cat.policy
    BY <1>1 DEF Catalog
  <1>5. Change(c, RolesSpoilt)
    BY DEF GrantRole, m
  <1> HIDE DEF c
  <1> QED BY <1>3, <1>4, <1>5, MembershipsKeepIInv

\* A membership is revoked.
LEMMA RevokeRoleKeepsIInv ==
  ASSUME IInv, NEW m \in cat.members, RevokeRole(m)
  PROVE  IInv'
  <1> DEFINE c == [cat EXCEPT !.members = @ \ {m}]
  <1>1. cat \in Catalog
    BY DEF IInv
  <1>2. c \in Catalog
    BY <1>1 DEF Catalog
  <1>3. c.super = cat.super /\ c.owner = cat.owner /\ c.acl = cat.acl /\ c.policy = cat.policy
    BY <1>1 DEF Catalog
  <1>4. Change(c, RolesSpoilt)
    BY DEF RevokeRole
  <1> HIDE DEF c
  <1> QED BY <1>2, <1>3, <1>4, MembershipsKeepIInv

\* A role is dropped.
LEMMA DropRoleKeepsIInv ==
  ASSUME IInv, NEW r \in Role, DropRole(r)
  PROVE  IInv'
  <1> DEFINE c == [cat EXCEPT !.roles = @ \ {r},
                     !.members = {m \in @ : r \notin {m.member, m.role}}]
  <1>1. cat \in Catalog /\ r # PgDatabaseOwner
    BY DEF IInv, DropRole
  <1>2. c \in Catalog
    BY <1>1 DEF Catalog
  <1>3. c.super = cat.super /\ c.owner = cat.owner /\ c.acl = cat.acl /\ c.policy = cat.policy
    BY <1>1 DEF Catalog
  <1>4. Change(c, RolesSpoilt)
    BY DEF DropRole
  <1> HIDE DEF c
  <1> QED BY <1>2, <1>3, <1>4, MembershipsKeepIInv

\* The ACL of one object.
LEMMA AclChangeKeepsIInv ==
  ASSUME IInv, NEW o \in Object, NEW entries \in SUBSET Grantee,
         Change([cat EXCEPT !.acl[o] = entries], AclSpoilt(o))
  PROVE  IInv'
  <1> DEFINE c == [cat EXCEPT !.acl[o] = entries]
  <1>1. cat \in Catalog
    BY DEF IInv
  <1>2. c \in Catalog
    BY <1>1 DEF Catalog
  <1>3. /\ c.super = cat.super /\ c.owner = cat.owner /\ c.policy = cat.policy
        /\ c.members = cat.members /\ c.modern = cat.modern /\ c.rolinherit = cat.rolinherit
        /\ \A p \in Object : p # o => c.acl[p] = cat.acl[p]
    BY <1>1 DEF Catalog
  <1>4. Change(c, AclSpoilt(o))
    OBVIOUS
  <1>5. AclSpoilt(o) \in SUBSET Spoilt
    BY DEF AclSpoilt, Spoilt
  <1> HIDE DEF c
  <1>6. Inheriting(c) = Inheriting(cat)
    BY <1>3, SameInheritance
  <1>7. ASSUME rd.stage # "idle" PROVE Keeps(AclSpoilt(o), c)
    <2>1. DOMAIN rd.granted \subseteq Object
      BY <1>7 DEF IInv, ReportInv, Idle, RowsDone
    <2>2. ASSUME NEW p \in (DOMAIN rd.granted \ DOMAIN rd.sources) \ AclSpoilt(o)
          PROVE  c.acl[p] = cat.acl[p]
      <3>1. p # o
        BY <1>7 DEF AclSpoilt, Between
      <3> QED BY <1>3, <2>1, <3>1
    <2> QED BY <1>3, <1>6, <2>2 DEF Keeps
  <1> QED BY <1>2, <1>4, <1>5, <1>7, ChangeKeepsIInv

\* A privilege is granted.
LEMMA GrantKeepsIInv ==
  ASSUME IInv, NEW o \in Object, NEW g \in Grantee, Grant(o, g)
  PROVE  IInv'
  <1>1. cat.acl[o] \in SUBSET Grantee
    BY DEF IInv, Catalog
  <1> DEFINE entries == cat.acl[o] \cup {g}
  <1>2. entries \in SUBSET Grantee
    BY <1>1
  <1>3. Change([cat EXCEPT !.acl[o] = entries], AclSpoilt(o))
    BY DEF Grant
  <1> HIDE DEF entries
  <1> QED BY <1>2, <1>3, AclChangeKeepsIInv

\* A privilege is revoked.
LEMMA RevokeKeepsIInv ==
  ASSUME IInv, NEW o \in Object, NEW g, Revoke(o, g)
  PROVE  IInv'
  <1>1. cat.acl[o] \in SUBSET Grantee
    BY DEF IInv, Catalog
  <1> DEFINE entries == cat.acl[o] \ {g}
  <1>2. entries \in SUBSET Grantee
    BY <1>1
  <1>3. Change([cat EXCEPT !.acl[o] = entries], AclSpoilt(o))
    BY DEF Revoke
  <1> HIDE DEF entries
  <1> QED BY <1>2, <1>3, AclChangeKeepsIInv

\* An object gets another owner.
LEMMA AlterOwnerKeepsIInv ==
  ASSUME IInv, NEW o \in Object, NEW r \in Role, AlterOwner(o, r)
  PROVE  IInv'
  <1> DEFINE entries == IF cat.owner[o] \in cat.acl[o]
                        THEN (cat.acl[o] \ {cat.owner[o]}) \cup {r} ELSE cat.acl[o]
             c == [cat EXCEPT !.owner[o] = r, !.acl[o] = entries]
  <1>1. cat \in Catalog
    BY DEF IInv
  <1>2. entries \in SUBSET Grantee
    BY <1>1 DEF Catalog, Grantee
  <1>3. Change(c, OwnerSpoilt(o))
    BY DEF AlterOwner
  <1> HIDE DEF entries
  <1>4. c \in Catalog
    BY <1>1, <1>2 DEF Catalog
  <1>5. /\ c.super = cat.super /\ c.policy = cat.policy
        /\ c.members = cat.members /\ c.modern = cat.modern /\ c.rolinherit = cat.rolinherit
        /\ \A p \in Object : p # o => c.acl[p] = cat.acl[p] /\ c.owner[p] = cat.owner[p]
    BY <1>1 DEF Catalog
  <1>6. OwnerSpoilt(o) \in SUBSET Spoilt
    BY DEF OwnerSpoilt, AclSpoilt, Spoilt
  <1> HIDE DEF c
  <1>7. Inheriting(c) = Inheriting(cat)
    BY <1>5, SameInheritance
  <1>8. ASSUME rd.stage # "idle" PROVE Keeps(OwnerSpoilt(o), c)
    <2>1. DOMAIN rd.granted \subseteq Object
      BY <1>8 DEF IInv, ReportInv, Idle, RowsDone
    <2>2. ASSUME NEW p \in (DOMAIN rd.granted \ DOMAIN rd.sources) \ OwnerSpoilt(o)
          PROVE  c.acl[p] = cat.acl[p]
      <3>1. p # o
        BY <1>8 DEF OwnerSpoilt, AclSpoilt, Between
      <3> QED BY <1>5, <2>1, <3>1
    <2>3. ASSUME rd.stage \notin {"names", "closure", "database"}, "roles" \notin OwnerSpoilt(o)
          PROVE  c.owner["database"] = cat.owner["database"]
      <3>1. o # "database"
        BY <1>8, <2>3 DEF OwnerSpoilt, Past
      <3> QED BY <1>5, <3>1 DEF Object
    <2>4. ASSUME "table" \in DOMAIN rd.granted, "rows" \notin OwnerSpoilt(o)
          PROVE  c.owner["table"] = cat.owner["table"]
      <3>1. o # "table"
        BY <1>8, <2>4 DEF OwnerSpoilt
      <3> QED BY <1>5, <3>1 DEF Object
    <2> QED BY <1>5, <1>7, <2>2, <2>3, <2>4 DEF Keeps
  <1> QED BY <1>3, <1>4, <1>6, <1>8, ChangeKeepsIInv

\* A policy is made for another grantee.
LEMMA AlterPolicyKeepsIInv ==
  ASSUME IInv, NEW g \in Grantee, AlterPolicy(g)
  PROVE  IInv'
  <1> DEFINE c == [cat EXCEPT !.policy = {g}]
  <1>1. cat \in Catalog
    BY DEF IInv
  <1>2. c \in Catalog
    BY <1>1 DEF Catalog
  <1>3. /\ c.super = cat.super /\ c.owner = cat.owner /\ c.acl = cat.acl
        /\ c.members = cat.members /\ c.modern = cat.modern /\ c.rolinherit = cat.rolinherit
    BY <1>1 DEF Catalog
  <1>4. Change(c, PolicySpoilt)
    BY DEF AlterPolicy
  <1>5. PolicySpoilt \in SUBSET Spoilt
    BY DEF PolicySpoilt, Spoilt
  <1> HIDE DEF c
  <1>6. Inheriting(c) = Inheriting(cat)
    BY <1>3, SameInheritance
  <1>7. Keeps(PolicySpoilt, c)
    BY <1>3, <1>6 DEF Keeps, PolicySpoilt, PolicyStage
  <1> QED BY <1>2, <1>4, <1>5, <1>7, ChangeKeepsIInv

-----------------------------------------------------------------------------
(* The theorems                                                              *)

\* The invariant holds at the start.
LEMMA InitIsIInv ==
  ASSUME Init
  PROVE  IInv
  <1>1. cat \in Catalog /\ rd = Idle /\ rd.stage = "idle"
    BY CatalogsAssumption DEF Init, Idle
  <1> QED BY <1>1 DEF IInv, ReportInv, ViaInv, RowInv, SourceInv, OwnerInv, PolicyInv, RolesKept

\* Every step keeps the invariant.
LEMMA NextKeepsIInv ==
  ASSUME IInv, [Next]_vars
  PROVE  IInv'
  <1>1. cat \in Catalog
    BY DEF IInv
  <1>2. CASE UNCHANGED vars
    BY <1>2 DEF vars, IInv, ReportInv, ViaInv, RowInv, SourceInv, OwnerInv, PolicyInv, RolesKept
  <1>3. ASSUME NEW r \in Subject, Begin(r) \/ Unknown(r) PROVE IInv'
    BY <1>2, <1>3, BeginKeepsIInv DEF Unknown
  <1>4. ASSUME Names \/ Closure \/ DatabaseRow \/ Policies PROVE IInv'
    BY <1>4, NamesKeepIInv, ClosureKeepsIInv, DatabaseRowKeepsIInv, PoliciesKeepIInv
  <1>5. ASSUME SchemaRow \/ TableRow \/ FunctionRow PROVE IInv'
    <2>1. CASE SchemaRow
      BY <2>1, RowKeepsIInv, StagesDone DEF SchemaRow, Stage, Object, PolicyStage
    <2>2. CASE TableRow
      BY <2>2, RowKeepsIInv, StagesDone DEF TableRow, Stage, Object, PolicyStage
    <2>3. CASE FunctionRow
      BY <2>3, RowKeepsIInv, StagesDone DEF FunctionRow, Stage, Object, PolicyStage
    <2> QED BY <1>5, <2>1, <2>2, <2>3
  <1>6. ASSUME DatabaseAcl \/ SchemaAcl \/ TableAcl \/ FunctionAcl PROVE IInv'
    <2>1. CASE DatabaseAcl
      BY <2>1, AclKeepsIInv, StagesDone DEF DatabaseAcl, Stage, Object, PolicyStage
    <2>2. CASE SchemaAcl
      BY <2>2, AclKeepsIInv, StagesDone DEF SchemaAcl, Stage, Object, PolicyStage
    <2>3. CASE TableAcl
      BY <2>3, AclKeepsIInv, StagesDone DEF TableAcl, Stage, Object, PolicyStage
    <2>4. CASE FunctionAcl
      BY <2>4, AclKeepsIInv, StagesDone DEF FunctionAcl, Stage, Object, PolicyStage
    <2> QED BY <1>6, <2>1, <2>2, <2>3, <2>4
  <1>7. ASSUME Answer \/ \E s \in {"database", "schema", "table", "function"} : RowFails(s)
        PROVE  IInv'
    BY <1>1, <1>7, IdleKeepsIInv DEF Answer, RowFails
  <1>8. ASSUME Others PROVE IInv'
    <2>1. ASSUME NEW e \in Member, NEW inherit \in BOOLEAN, GrantRole(e, inherit) PROVE IInv'
      BY <2>1, GrantRoleKeepsIInv
    <2>2. ASSUME NEW m \in cat.members, RevokeRole(m) PROVE IInv'
      BY <2>2, RevokeRoleKeepsIInv
    <2>3. ASSUME NEW o \in Object, NEW g \in Grantee, Grant(o, g) PROVE IInv'
      BY <2>3, GrantKeepsIInv
    <2>4. ASSUME NEW o \in Object, NEW g \in cat.acl[o], Revoke(o, g) PROVE IInv'
      BY <2>4, RevokeKeepsIInv
    <2>5. ASSUME NEW o \in Object, NEW r \in Role, AlterOwner(o, r) PROVE IInv'
      BY <2>5, AlterOwnerKeepsIInv
    <2>6. ASSUME NEW r \in Role, DropRole(r) PROVE IInv'
      BY <2>6, DropRoleKeepsIInv
    <2>7. ASSUME NEW g \in Grantee, AlterPolicy(g) PROVE IInv'
      BY <2>7, AlterPolicyKeepsIInv
    <2> QED BY <1>8, <2>1, <2>2, <2>3, <2>4, <2>5, <2>6, <2>7 DEF Others
  <1> QED BY <1>2, <1>3, <1>4, <1>5, <1>6, <1>7, <1>8 DEF Next, Reading

\* The inductive invariant, for any roles, memberships and catalogs to start
\* from, and any number of changes between any two queries of a report.
THEOREM Invariance == Spec => []IInv
  <1>1. Init => IInv
    BY InitIsIInv
  <1>2. IInv /\ [Next]_vars => IInv'
    BY NextKeepsIInv
  <1> QED BY <1>1, <1>2, PTL DEF Spec

\* inherits_from and inherited_by of the role page are what PostgreSQL lets
\* privileges flow along, whatever the depth of the memberships, with cycles or
\* without: the recursive query and dedupe_closure lose no role.
THEOREM ListsAgree == Spec => []ClosureIsInheritance
  <1>1. IInv => ClosureIsInheritance
    <2> SUFFICES ASSUME IInv, NEW r \in cat.roles, NEW s \in cat.roles
                 PROVE  /\ InheritsFrom(cat, r) = Reached(Inheriting(cat), r) \ {r}
                        /\ s \in InheritsFrom(cat, r) <=> r \in InheritedBy(cat, s)
      BY DEF ClosureIsInheritance
    <2>1. cat \in Catalog /\ r \in Role /\ s \in Role
      BY DEF IInv, Catalog
    <2> QED BY <2>1, ListsAreInheritance
  <1> QED BY <1>1, Invariance, PTL

\* Whatever others change between the queries of a report, of an object no
\* change fell between the two queries of, a privilege has a source exactly when
\* it is granted, and the chain shown for the source is there.
THEOREM PrivilegesAreExplained == Spec => []Explained
  <1>1. IInv => Explained
    <2> SUFFICES ASSUME IInv, rd.stage = "done", "roles" \notin rd.spoilt,
                        NEW o \in Object \ rd.spoilt
                 PROVE  /\ rd.sources[o] # {} => rd.granted[o]
                        /\ rd.granted[o] =>
                             \/ rd.sources[o] # {}
                             \/ o \in {"schema", "table"} /\ PgReadAllData \in PrivsOf(cat, rd.role)
                        /\ \A s \in rd.sources[o] :
                             /\ Chain(<<rd.role>> \o s.via)
                             /\ s.grantee # PUBLIC => Last(<<rd.role>> \o s.via) = s.grantee
      BY DEF Explained, Complete
    <2>1. DOMAIN rd.sources = Object
      BY StagesDone DEF IInv, ReportInv, Idle, Object
    <2>2. Explains(cat, rd.role, o, rd.granted[o], rd.sources[o])
      BY <2>1 DEF IInv, SourceInv, RolesKept
    <2> QED BY <2>2 DEF Explains, Chain, Path, Edges
  <1> QED BY <1>1, Invariance, PTL

\* "No policy applies to this role: all rows are hidden" is said exactly when
\* the role, no superuser, sees none of the rows.
THEOREM HiddenIsTrue == Spec => []HiddenRowsAreHidden
  <1>1. IInv => HiddenRowsAreHidden
    <2> SUFFICES ASSUME IInv, rd.stage = "done", "roles" \notin rd.spoilt, "rows" \notin rd.spoilt,
                        rd.role \notin cat.super
                 PROVE  SaysHidden <=> ~SeesRows(cat, rd.role)
      BY DEF HiddenRowsAreHidden, Complete
    <2>1. DOMAIN rd.owner = Object
      BY StagesDone DEF IInv, ReportInv, Idle, Object
    <2>2. rd.owner["table"] = cat.owner["table"]
      BY <2>1 DEF IInv, OwnerInv, Object
    <2>3. DOMAIN rd.via = PrivsOf(cat, rd.role)
      BY PrivilegesAreReached DEF IInv, ViaInv, RolesKept, Known
    <2>4. rd.policies = (cat.policy \cap (PrivsOf(cat, rd.role) \cup {PUBLIC}) # {})
      BY DEF IInv, PolicyInv, RolesKept
    <2> QED BY <2>2, <2>3, <2>4 DEF SaysHidden, SeesRows, IsOwner
  <1> QED BY <1>1, Invariance, PTL
=============================================================================
