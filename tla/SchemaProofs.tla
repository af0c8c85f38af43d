-------------------------------- MODULE SchemaProofs -------------------------------
(***********************************************************************************)
(* The passage budget of SchemaAdmission covers every output, and what a decoder sees   *)
(* by DecoderOrder is the admitted schema in the order it requires, for every set of     *)
(* documents and every limit.                                                       *)
(***********************************************************************************)
EXTENDS DecoderOrder, FiniteSetTheorems, WellFoundedInduction, TLAPS

-----------------------------------------------------------------------------------
(* Induction over the natural numbers, as the existence of least elements.          *)

\* A set of natural numbers has a least one.
LEMMA LeastElement ==
  ASSUME NEW S, S \subseteq Nat, S # {}
  PROVE  \E n \in S : \A m \in S : n <= m
<1> DEFINE R == OpToRel(<, Nat)
<1>1. IsWellFoundedOn(R, Nat)
  BY NatLessThanWellFounded
<1>2. \A m, n \in Nat : m < n => <<m, n>> \in R
  BY DEF OpToRel
<1> HIDE DEF R
<1>3. PICK n \in S : \A m \in S : <<m, n>> \notin R
  BY <1>1, WFMin
<1>4. ASSUME NEW m \in S PROVE n <= m
  <2>1. m \in Nat /\ n \in Nat
    OBVIOUS
  <2>2. ~ (m < n)
    BY <1>2, <1>3, <2>1
  <2> QED
    BY <2>1, <2>2
<1> QED
  BY <1>4

\* A set of natural numbers that has a bound has a greatest one.
LEMMA GreatestElement ==
  ASSUME NEW S, S \subseteq Nat, S # {}, NEW b \in Nat, \A n \in S : n <= b
  PROVE  \E n \in S : \A m \in S : n >= m
<1> DEFINE Distances == {b - n : n \in S}
<1>1. PICK d \in Distances : \A e \in Distances : d <= e
  <2>1. \A n \in S : b - n \in Nat
    OBVIOUS
  <2>2. Distances \subseteq Nat /\ Distances # {}
    BY <2>1
  <2> QED
    BY <2>2, LeastElement
<1>2. PICK n \in S : d = b - n
  BY <1>1
<1>3. \A m \in S : b - n <= b - m
  BY <1>1, <1>2
<1> QED
  BY <1>3

\* f is what D makes of it, up to depth n.
SolvedBelow(f, D, V, depth, n) == \A v \in V : depth[v] < n => f[v] = D[f][v]

\* D looks only at what has smaller depth.
LooksBelow(D, V, T, depth) ==
  \A g, h \in [V -> T] : \A v \in V :
    (\A w \in V : depth[w] < depth[v] => g[w] = h[w]) => D[g][v] = D[h][v]

\* Two solutions agree as far as both go.
Agree(D, V, T, depth) ==
  \A n, m \in Nat : \A g, h \in [V -> T] :
    SolvedBelow(g, D, V, depth, n) /\ SolvedBelow(h, D, V, depth, m) =>
      \A v \in V : depth[v] < n /\ depth[v] < m => g[v] = h[v]

\* Such a D can be solved up to one depth more.
LEMMA SolvedFurther ==
  ASSUME NEW V, NEW depth \in [V -> Nat], NEW T, NEW D \in [[V -> T] -> [V -> T]],
         LooksBelow(D, V, T, depth),
         NEW n \in Nat, NEW g \in [V -> T], SolvedBelow(g, D, V, depth, n)
  PROVE  SolvedBelow(D[g], D, V, depth, n + 1)
<1>1. D[g] \in [V -> T]
  OBVIOUS
<1>2. SUFFICES ASSUME NEW v \in V, depth[v] < n + 1 PROVE D[g][v] = D[D[g]][v]
  BY DEF SolvedBelow
<1>3. \A w \in V : depth[w] < depth[v] => g[w] = D[g][w]
  <2> SUFFICES ASSUME NEW w \in V, depth[w] < depth[v] PROVE g[w] = D[g][w]
    OBVIOUS
  <2>1. depth[w] \in Nat /\ depth[v] \in Nat
    OBVIOUS
  <2>2. depth[w] < n
    BY <1>2, <2>1
  <2> QED
    BY <2>2 DEF SolvedBelow
<1> QED
  BY <1>1, <1>3 DEF LooksBelow

\* The solutions of such a D agree.
LEMMA SolutionsAgree ==
  ASSUME NEW V, NEW depth \in [V -> Nat], NEW T, NEW D \in [[V -> T] -> [V -> T]],
         LooksBelow(D, V, T, depth)
  PROVE  Agree(D, V, T, depth)
<1> SUFFICES ASSUME NEW n \in Nat, NEW m \in Nat, NEW g \in [V -> T], NEW h \in [V -> T],
                    SolvedBelow(g, D, V, depth, n), SolvedBelow(h, D, V, depth, m),
                    NEW v \in V, depth[v] < n, depth[v] < m
             PROVE  g[v] = h[v]
  BY DEF Agree
<1> DEFINE Differ == {w \in V : depth[w] < n /\ depth[w] < m /\ g[w] # h[w]}
           Depths == {depth[w] : w \in Differ}
<1> SUFFICES ASSUME g[v] # h[v] PROVE FALSE
  OBVIOUS
<1>1. \A w \in Differ : depth[w] \in Nat
  OBVIOUS
<1>2. v \in Differ
  OBVIOUS
<1> HIDE DEF Differ
<1>3. Depths \subseteq Nat /\ Depths # {}
  BY <1>1, <1>2
<1>4. PICK k \in Depths : \A j \in Depths : k <= j
  BY <1>3, LeastElement
<1>5. PICK w \in Differ : k = depth[w]
  BY <1>4
<1> USE DEF Differ
<1>6. ASSUME NEW u \in V, depth[u] < depth[w] PROVE g[u] = h[u]
  <2>1. depth[u] \in Nat /\ depth[w] \in Nat
    BY <1>5
  <2>2. depth[u] < n /\ depth[u] < m
    BY <1>5, <1>6, <2>1
  <2>3. u \in Differ => depth[w] <= depth[u]
    BY <1>4, <1>5
  <2> QED
    BY <1>6, <2>1, <2>2, <2>3
<1>7. D[g][w] = D[h][w]
  BY <1>5, <1>6 DEF LooksBelow
<1> QED
  BY <1>5, <1>7 DEF SolvedBelow

\* Some function is what D makes of it.
Solvable(D, V, T) == \E f \in [V -> T] : f = D[f]

\* A function that such a D makes of itself exists.
LEMMA Recursion ==
  ASSUME NEW V, NEW depth \in [V -> Nat], NEW T, NEW t \in T,
         NEW D \in [[V -> T] -> [V -> T]], LooksBelow(D, V, T, depth)
  PROVE  Solvable(D, V, T)
<1> DEFINE Unsolved == {n \in Nat : ~ \E g \in [V -> T] : SolvedBelow(g, D, V, depth, n)}
<1>1. Unsolved = {}
  <2> SUFFICES ASSUME Unsolved # {} PROVE FALSE
    OBVIOUS
  <2>1. PICK n \in Unsolved : \A m \in Unsolved : n <= m
    BY LeastElement
  <2>2. CASE n = 0
    <3>1. [v \in V |-> t] \in [V -> T]
      OBVIOUS
    <3>2. SolvedBelow([v \in V |-> t], D, V, depth, 0)
      BY DEF SolvedBelow
    <3> QED
      BY <2>1, <2>2, <3>1, <3>2
  <2>3. CASE n # 0
    <3>1. n - 1 \in Nat /\ n - 1 \notin Unsolved /\ n = (n - 1) + 1
      BY <2>1, <2>3
    <3>2. PICK g \in [V -> T] : SolvedBelow(g, D, V, depth, n - 1)
      BY <3>1
    <3>3. SolvedBelow(D[g], D, V, depth, (n - 1) + 1)
      BY <3>1, <3>2, SolvedFurther
    <3>4. D[g] \in [V -> T]
      OBVIOUS
    <3> QED
      BY <2>1, <3>1, <3>3, <3>4
  <2> QED
    BY <2>2, <2>3
<1> DEFINE G == [n \in Nat |-> CHOOSE g \in [V -> T] : SolvedBelow(g, D, V, depth, n)]
<1>2. \A n \in Nat : G[n] \in [V -> T] /\ SolvedBelow(G[n], D, V, depth, n)
  BY <1>1
<1> HIDE DEF G
<1> DEFINE f == [v \in V |-> G[depth[v] + 1][v]]
<1>3. \A v \in V : depth[v] \in Nat /\ depth[v] + 1 \in Nat
  OBVIOUS
<1>4. f \in [V -> T]
  BY <1>2, <1>3
<1>5. \A v \in V : f[v] = G[depth[v] + 1][v]
  OBVIOUS
<1> HIDE DEF f
<1>6. ASSUME NEW v \in V PROVE f[v] = D[f][v]
  <2>1. PICK g \in [V -> T] : g = G[depth[v] + 1] /\ SolvedBelow(g, D, V, depth, depth[v] + 1)
    BY <1>2, <1>3
  <2>2. ASSUME NEW w \in V, depth[w] < depth[v] PROVE f[w] = g[w]
    <3>1. PICK h \in [V -> T] : h = G[depth[w] + 1] /\ SolvedBelow(h, D, V, depth, depth[w] + 1)
      BY <1>2, <1>3
    <3>2. depth[w] < depth[w] + 1 /\ depth[w] < depth[v] + 1
      BY <1>3, <2>2
    <3>3. depth[v] + 1 \in Nat /\ depth[w] + 1 \in Nat
      BY <1>3
    <3>4. SolvedBelow(h, D, V, depth, depth[w] + 1)
      BY <3>1
    <3>5. SolvedBelow(g, D, V, depth, depth[v] + 1)
      BY <2>1
    <3>6. Agree(D, V, T, depth)
      BY SolutionsAgree
    <3>7. h[w] = g[w]
      BY <3>2, <3>3, <3>4, <3>5, <3>6 DEF Agree
    <3> QED
      BY <1>5, <3>1, <3>7
  <2>3. D[f][v] = D[g][v]
    BY <1>4, <2>2 DEF LooksBelow
  <2>4. g[v] = D[g][v]
    BY <1>3, <2>1 DEF SolvedBelow
  <2> QED
    BY <1>5, <2>1, <2>3, <2>4
<1>7. D[f] \in [V -> T]
  BY <1>4
<1>8. f = D[f]
  BY <1>4, <1>6, <1>7
<1> QED
  BY <1>4, <1>8 DEF Solvable

-----------------------------------------------------------------------------------
(* Totals and largest numbers.                                                      *)

\* Induction up to n: S holds 0, and with each number the next.
LEMMA Stepwise ==
  ASSUME NEW n \in Nat, NEW S, 0 \in S, \A i \in 1..n : i - 1 \in S => i \in S
  PROVE  0..n \subseteq S
<1> DEFINE Missing == {i \in 0..n : i \notin S}
<1> SUFFICES ASSUME Missing # {} PROVE FALSE
  OBVIOUS
<1>1. PICK i \in Missing : \A j \in Missing : i <= j
  <2>1. Missing \subseteq Nat
    OBVIOUS
  <2> QED
    BY <2>1, LeastElement
<1>2. i \in 1..n /\ i - 1 \in 0..n /\ i - 1 \notin Missing
  BY <1>1
<1> QED
  BY <1>1, <1>2

\* Total is the last of the sums of the first i numbers.
LEMMA TotalIsASum ==
  ASSUME NEW numbers \in Seq(Nat)
  PROVE  \E sum \in [0..Len(numbers) -> Nat] :
           /\ sum[0] = 0
           /\ \A i \in 1..Len(numbers) : sum[i] = sum[i - 1] + numbers[i]
           /\ Total(numbers) = sum[Len(numbers)]
<1> DEFINE n == Len(numbers)
           V == {0} \cup DOMAIN numbers
           depth == [i \in V |-> i]
           D == [g \in [V -> Nat] |-> [i \in V |-> IF i = 0 THEN 0 ELSE g[i - 1] + numbers[i]]]
<1>1. n \in Nat /\ DOMAIN numbers = 1..n /\ V = 0..n /\ \A i \in 1..n : numbers[i] \in Nat
  OBVIOUS
<1>2. Cardinality(DOMAIN numbers) = n
  <2> HIDE DEF n
  <2>1. Cardinality(1..n) = IF 1 > n THEN 0 ELSE n - 1 + 1
    BY <1>1, FS_Interval
  <2> QED
    BY <1>1, <2>1
<1>3. depth \in [V -> Nat] /\ \A i \in V : depth[i] = i
  BY <1>1
<1>4. \A i \in V \ {0} : i \in 1..n /\ i - 1 \in V /\ i - 1 < i
  BY <1>1
<1> HIDE DEF n, V, depth
<1>5. D \in [[V -> Nat] -> [V -> Nat]]
  BY <1>1, <1>4
<1>6. \A g \in [V -> Nat] : \A i \in V :
        D[g][i] = IF i = 0 THEN 0 ELSE g[i - 1] + numbers[i]
  OBVIOUS
<1> HIDE DEF D
<1>7. LooksBelow(D, V, Nat, depth)
  BY <1>3, <1>4, <1>6 DEF LooksBelow
<1>8. PICK f \in [V -> Nat] : f = D[f]
  <2>1. Solvable(D, V, Nat)
    BY <1>3, <1>5, <1>7, Recursion
  <2> QED
    BY <2>1 DEF Solvable
<1>9. f = [i \in V |-> IF i = 0 THEN 0 ELSE f[i - 1] + numbers[i]]
  BY <1>6, <1>8
<1> DEFINE sum == CHOOSE h : h = [i \in V |-> IF i = 0 THEN 0 ELSE h[i - 1] + numbers[i]]
<1>10. sum = [i \in V |-> IF i = 0 THEN 0 ELSE sum[i - 1] + numbers[i]]
  BY <1>9
<1>11. Total(numbers) = sum[n]
  BY <1>2 DEF Total, V
<1> HIDE DEF sum
<1>12. sum[0] = 0 /\ \A i \in 1..n : sum[i] = sum[i - 1] + numbers[i]
  BY <1>1, <1>10
<1>13. 0..n \subseteq {i \in 0..n : sum[i] \in Nat}
  <2> DEFINE S == {i \in 0..n : sum[i] \in Nat}
  <2>1. 0 \in S
    BY <1>1, <1>12
  <2>2. \A i \in 1..n : i - 1 \in S => i \in S
    BY <1>1, <1>12
  <2> HIDE DEF S
  <2>3. 0..n \subseteq S
    BY <1>1, <2>1, <2>2, Stepwise
  <2> QED
    BY <2>3 DEF S
<1>14. sum \in [0..n -> Nat]
  BY <1>1, <1>10, <1>13
<1> QED
  BY <1>11, <1>12, <1>14 DEF n

\* A total is a natural number no smaller than any number it is of.
LEMMA TotalBounds ==
  ASSUME NEW numbers \in Seq(Nat)
  PROVE  Total(numbers) \in Nat /\ \A i \in DOMAIN numbers : numbers[i] <= Total(numbers)
<1> DEFINE n == Len(numbers)
<1>1. n \in Nat /\ DOMAIN numbers = 1..n /\ \A i \in 1..n : numbers[i] \in Nat
  OBVIOUS
<1>2. PICK sum \in [0..n -> Nat] :
        /\ sum[0] = 0
        /\ \A i \in 1..n : sum[i] = sum[i - 1] + numbers[i]
        /\ Total(numbers) = sum[n]
  BY TotalIsASum
<1> HIDE DEF n
<1> DEFINE S == {i \in 0..n : \A j \in 1..i : numbers[j] <= sum[i]}
<1>3. 0 \in S
  BY <1>1
<1>4. ASSUME NEW i \in 1..n, i - 1 \in S PROVE i \in S
  <2>1. ASSUME NEW j \in 1..i PROVE numbers[j] <= sum[i]
    <3>1. sum[i - 1] \in Nat /\ sum[i] \in Nat /\ numbers[i] \in Nat /\ numbers[j] \in Nat
      BY <1>1, <1>2
    <3>2. sum[i] = sum[i - 1] + numbers[i]
      BY <1>2
    <3>3. j \in 1..(i - 1) \/ j = i
      OBVIOUS
    <3> QED
      BY <1>4, <3>1, <3>2, <3>3
  <2> QED
    BY <2>1
<1> HIDE DEF S
<1>5. n \in S
  <2>1. 0..n \subseteq S
    BY <1>1, <1>3, <1>4, Stepwise
  <2> QED
    BY <1>1, <2>1
<1> QED
  BY <1>1, <1>2, <1>5 DEF S

\* Bounds on two products bound the product of the sum.
LEMMA ScaledSum ==
  ASSUME NEW k \in Nat, NEW a \in Nat, NEW b \in Nat, NEW c \in Nat, NEW d \in Nat,
         k * a <= c, k * b <= d
  PROVE  k * (a + b) <= c + d
<1>1. k * (a + b) = k * a + k * b
  OBVIOUS
<1>2. k * a \in Int /\ k * b \in Int
  OBVIOUS
<1>3. \A x, y \in Int : x <= c /\ y <= d => x + y <= c + d
  OBVIOUS
<1> QED
  BY <1>1, <1>2, <1>3

\* Numbers k times as large have a total k times as large.
LEMMA TotalScales ==
  ASSUME NEW few \in Seq(Nat), NEW many \in Seq(Nat), Len(few) = Len(many), NEW k \in Nat,
         \A i \in DOMAIN few : k * few[i] <= many[i]
  PROVE  k * Total(few) <= Total(many)
<1> DEFINE n == Len(few)
<1>1. n \in Nat /\ DOMAIN few = 1..n /\ \A i \in 1..n : few[i] \in Nat /\ many[i] \in Nat
  OBVIOUS
<1>2. PICK f \in [0..n -> Nat] :
        /\ f[0] = 0
        /\ \A i \in 1..n : f[i] = f[i - 1] + few[i]
        /\ Total(few) = f[n]
  BY TotalIsASum
<1>3. PICK m \in [0..n -> Nat] :
        /\ m[0] = 0
        /\ \A i \in 1..n : m[i] = m[i - 1] + many[i]
        /\ Total(many) = m[n]
  BY TotalIsASum
<1> HIDE DEF n
<1> DEFINE S == {i \in 0..n : k * f[i] <= m[i]}
<1>4. 0 \in S
  BY <1>1, <1>2, <1>3
<1>5. ASSUME NEW i \in 1..n, i - 1 \in S PROVE i \in S
  <2>1. f[i - 1] \in Nat /\ few[i] \in Nat /\ m[i - 1] \in Nat /\ many[i] \in Nat
    <3>1. i - 1 \in 0..n
      BY <1>1
    <3> QED
      BY <1>1, <1>2, <1>3, <3>1
  <2>2. k * f[i - 1] <= m[i - 1] /\ k * few[i] <= many[i]
    BY <1>1, <1>5
  <2>3. k * (f[i - 1] + few[i]) <= m[i - 1] + many[i]
    BY <2>1, <2>2, ScaledSum
  <2> QED
    BY <1>2, <1>3, <2>3
<1> HIDE DEF S
<1>6. n \in S
  <2>1. 0..n \subseteq S
    BY <1>1, <1>4, <1>5, Stepwise
  <2> QED
    BY <1>1, <2>1
<1> QED
  BY <1>2, <1>3, <1>6 DEF S

\* The largest of some numbers is one of them or 0.
LEMMA LargestBounds ==
  ASSUME NEW numbers \in Seq(Nat)
  PROVE  /\ Largest(numbers) \in Nat
         /\ \A i \in DOMAIN numbers : numbers[i] <= Largest(numbers)
         /\ Largest(numbers) = 0 \/ \E i \in DOMAIN numbers : Largest(numbers) = numbers[i]
<1> DEFINE S == {0} \cup ToSet(numbers)
<1>1. S = {0} \cup {numbers[i] : i \in DOMAIN numbers}
  BY DEF ToSet
<1>2. Total(numbers) \in Nat /\ \A i \in DOMAIN numbers : numbers[i] <= Total(numbers)
  BY TotalBounds
<1>3. S \subseteq Nat /\ S # {} /\ \A m \in S : m <= Total(numbers)
  BY <1>1, <1>2
<1>4. \E m \in S : \A j \in S : m >= j
  <2> HIDE DEF S
  <2> QED
    BY <1>2, <1>3, GreatestElement
<1>5. Largest(numbers) \in S /\ \A j \in S : Largest(numbers) >= j
  BY <1>4 DEF Largest, Max
<1> QED
  BY <1>1, <1>3, <1>5

-----------------------------------------------------------------------------------
(* Sequences that keep the order of another.                                        *)

\* The values of r come in s in the same order.
InOrder(r, s) ==
  \A a, b \in DOMAIN r :
    a < b => \E p, q \in DOMAIN s : p < q /\ r[a] = s[p] /\ r[b] = s[q]

\* kept has at i what is kept of the first i values.
KeptSteps(kept, s, P) ==
  /\ kept[0] = <<>>
  /\ \A i \in 1..Len(s) :
       kept[i] = IF s[i] \in P THEN Append(kept[i - 1], s[i]) ELSE kept[i - 1]
  /\ Kept(s, P) = kept[Len(s)]

\* Kept is the last of such sequences.
LEMMA KeptIsStepwise ==
  ASSUME NEW U, NEW s \in Seq(U), NEW P
  PROVE  \E kept \in [0..Len(s) -> Seq(U)] : KeptSteps(kept, s, P)
<1> DEFINE n == Len(s)
           V == {0} \cup DOMAIN s
           T == Seq(U)
           depth == [i \in V |-> i]
           Next1(g, i) == IF i = 0 THEN <<>>
                          ELSE IF s[i] \in P THEN Append(g[i - 1], s[i]) ELSE g[i - 1]
           D == [g \in [V -> T] |-> [i \in V |-> Next1(g, i)]]
<1>1. n \in Nat /\ DOMAIN s = 1..n /\ V = 0..n /\ \A i \in 1..n : s[i] \in U
  OBVIOUS
<1>2. depth \in [V -> Nat] /\ \A i \in V : depth[i] = i
  BY <1>1
<1>3. \A i \in V \ {0} : i \in 1..n /\ i - 1 \in V /\ i - 1 < i
  BY <1>1
<1>4. <<>> \in T /\ \A t \in T, i \in 1..n : Append(t, s[i]) \in T
  BY <1>1
<1> HIDE DEF n, V, depth, T
<1>5. D \in [[V -> T] -> [V -> T]]
  BY <1>1, <1>3, <1>4
<1>6. \A g \in [V -> T] : \A i \in V : D[g][i] = Next1(g, i)
  OBVIOUS
<1> HIDE DEF D
<1>7. LooksBelow(D, V, T, depth)
  BY <1>2, <1>3, <1>6 DEF LooksBelow
<1>8. PICK f \in [V -> T] : f = D[f]
  <2>1. Solvable(D, V, T)
    BY <1>2, <1>4, <1>5, <1>7, Recursion
  <2> QED
    BY <2>1 DEF Solvable
<1>9. f = [i \in V |-> Next1(f, i)]
  BY <1>6, <1>8
<1> DEFINE kept == CHOOSE h : h = [i \in V |-> Next1(h, i)]
<1>10. kept = [i \in V |-> Next1(kept, i)]
  BY <1>9
<1>11. Kept(s, P) = kept[n]
  BY DEF Kept, V, n
<1> HIDE DEF kept
<1>12. /\ kept[0] = <<>>
       /\ \A i \in 1..n :
            kept[i] = IF s[i] \in P THEN Append(kept[i - 1], s[i]) ELSE kept[i - 1]
  <2>1. \A i \in V : kept[i] = Next1(kept, i)
    BY <1>10
  <2>2. 0 \in V /\ \A i \in 1..n : i \in V /\ i # 0
    BY <1>1
  <2> QED
    BY <2>1, <2>2
<1>13. 0..n \subseteq {i \in 0..n : kept[i] \in T}
  <2> DEFINE S == {i \in 0..n : kept[i] \in T}
  <2>1. 0 \in S
    BY <1>1, <1>4, <1>12
  <2>2. \A i \in 1..n : i - 1 \in S => i \in S
    BY <1>1, <1>4, <1>12
  <2> HIDE DEF S
  <2>3. 0..n \subseteq S
    BY <1>1, <2>1, <2>2, Stepwise
  <2> QED
    BY <2>3 DEF S
<1>14. kept \in [0..n -> T]
  BY <1>1, <1>10, <1>13
<1> QED
  BY <1>11, <1>12, <1>14 DEF n, T, KeptSteps

\* What is kept of a sequence is what it has in P, in its order.
LEMMA KeptInOrder ==
  ASSUME NEW U, NEW s \in Seq(U), NEW P
  PROVE  /\ Kept(s, P) \in Seq(U)
         /\ ToSet(Kept(s, P)) = ToSet(s) \cap P
         /\ InOrder(Kept(s, P), s)
<1> DEFINE n == Len(s)
           First(i) == {s[j] : j \in 1..i}
<1>1. n \in Nat /\ DOMAIN s = 1..n /\ \A i \in 1..n : s[i] \in U
  OBVIOUS
<1>2. PICK kept \in [0..n -> Seq(U)] :
        /\ kept[0] = <<>>
        /\ \A i \in 1..n : kept[i] = IF s[i] \in P THEN Append(kept[i - 1], s[i]) ELSE kept[i - 1]
        /\ Kept(s, P) = kept[n]
  <2>1. PICK kept \in [0..n -> Seq(U)] : KeptSteps(kept, s, P)
    BY KeptIsStepwise
  <2> QED
    BY <2>1 DEF KeptSteps
<1> HIDE DEF n
<1> DEFINE S == {i \in 0..n : ToSet(kept[i]) = First(i) \cap P /\ InOrder(kept[i], s)}
<1>3. 0 \in S
  <2>1. kept[0] = <<>> /\ First(0) = {} /\ 0 \in 0..n
    BY <1>1, <1>2
  <2>2. ToSet(<<>>) = {} /\ InOrder(<<>>, s)
    BY DEF ToSet, InOrder
  <2> QED
    BY <2>1, <2>2
<1>4. ASSUME NEW i \in 1..n, i - 1 \in S PROVE i \in S
  <2> DEFINE r == kept[i - 1]
  <2>1. i - 1 \in 0..n /\ i \in 0..n /\ i \in Nat
    BY <1>1
  <2>2. r \in Seq(U) /\ ToSet(r) = First(i - 1) \cap P /\ InOrder(r, s)
    BY <1>2, <1>4, <2>1
  <2>3. First(i) = First(i - 1) \cup {s[i]}
    <3>1. 1..i = 1..(i - 1) \cup {i}
      BY <2>1
    <3> QED
      BY <3>1
  <2> HIDE DEF r
  <2>4. CASE s[i] \notin P
    <3>1. kept[i] = r
      BY <1>2, <2>4 DEF r
    <3> QED
      BY <2>1, <2>2, <2>3, <2>4, <3>1
  <2>5. CASE s[i] \in P
    <3>1. kept[i] = Append(r, s[i])
      BY <1>2, <2>5 DEF r
    <3>2. s[i] \in U /\ Len(r) \in Nat /\ DOMAIN r = 1..Len(r)
      BY <1>1, <2>2
    <3> DEFINE k == kept[i]
               m == Len(r)
    <3>3. /\ DOMAIN k = 1..(m + 1) /\ k[m + 1] = s[i]
          /\ \A a \in 1..m : k[a] = r[a]
      BY <2>2, <3>1, <3>2
    <3> HIDE DEF k, m
    <3>4. m \in Nat /\ DOMAIN r = 1..m
      BY <3>2 DEF m
    <3>5. 1..(m + 1) = 1..m \cup {m + 1}
      BY <3>4
    <3>6. ToSet(k) = ToSet(r) \cup {s[i]}
      BY <3>3, <3>4, <3>5 DEF ToSet
    <3>7. InOrder(k, s)
      <4> SUFFICES ASSUME NEW a \in DOMAIN k, NEW b \in DOMAIN k, a < b
                   PROVE  \E p, q \in DOMAIN s : p < q /\ k[a] = s[p] /\ k[b] = s[q]
        BY DEF InOrder
      <4>1. a \in 1..m /\ k[a] = r[a] /\ a \in DOMAIN r
        BY <3>3, <3>4
      <4>2. CASE b \in 1..m
        <5>1. k[b] = r[b] /\ b \in DOMAIN r
          BY <3>3, <3>4, <4>2
        <5> QED
          BY <2>2, <4>1, <5>1 DEF InOrder
      <4>3. CASE b = m + 1
        <5>1. r[a] \in First(i - 1)
          BY <2>2, <4>1 DEF ToSet
        <5>2. PICK p \in 1..(i - 1) : r[a] = s[p]
          BY <5>1
        <5>3. p \in DOMAIN s /\ i \in DOMAIN s /\ p < i
          BY <1>1
        <5> QED
          BY <3>3, <4>1, <4>3, <5>2, <5>3
      <4> QED
        BY <3>3, <3>5, <4>2, <4>3
    <3> QED
      BY <2>1, <2>2, <2>3, <2>5, <3>6, <3>7 DEF k
  <2> QED
    BY <2>4, <2>5
<1>5. n \in S
  <2> HIDE DEF S
  <2>1. 0..n \subseteq S
    BY <1>1, <1>3, <1>4, Stepwise
  <2> QED
    BY <1>1, <2>1
<1>6. First(n) = ToSet(s)
  BY <1>1 DEF ToSet
<1>7. Kept(s, P) \in Seq(U)
  BY <1>1, <1>2
<1> QED
  BY <1>2, <1>5, <1>6, <1>7

-----------------------------------------------------------------------------------
(* The parts of a schema.                                                           *)

\* What f is at each value of a sequence.
Along(f, inner) == [i \in DOMAIN inner |-> f[inner[i]]]

\* Every value of the sequence is of a schema's universe and of less depth than s.
Inner(inner, s) ==
  /\ inner \in Seq(Values)
  /\ \A i \in DOMAIN inner : inner[i] \in Values /\ Depth[inner[i]] < Depth[s]

\* f is in T for every value of less depth than s.
Below(f, T, s) == \A w \in Values : Depth[w] < Depth[s] => f[w] \in T

\* What such an f is along what s holds is a sequence.
LEMMA AlongIsASequence ==
  ASSUME NEW T, NEW f, NEW s, Below(f, T, s), NEW inner, Inner(inner, s)
  PROVE  /\ Along(f, inner) \in Seq(T) /\ Len(Along(f, inner)) = Len(inner)
         /\ DOMAIN Along(f, inner) = DOMAIN inner
         /\ \A i \in DOMAIN inner : Along(f, inner)[i] = f[inner[i]]
BY DEF Along, Below, Inner

\* Induction on the depth of values.
LEMMA DepthInduction ==
  ASSUME NEW S,
         \A v \in Values : (\A w \in Values : Depth[w] < Depth[v] => w \in S) => v \in S
  PROVE  Values \subseteq S
<1> DEFINE Depths == {Depth[v] : v \in Values \ S}
<1> SUFFICES ASSUME Values \ S # {} PROVE FALSE
  OBVIOUS
<1>1. \A v \in Values : Depth[v] \in Nat
  BY ValuesAssumption
<1>2. PICK d \in Depths : \A e \in Depths : d <= e
  <2>1. Depths \subseteq Nat
    BY <1>1
  <2>2. Depths # {}
    OBVIOUS
  <2> QED
    BY <2>1, <2>2, LeastElement
<1>3. PICK v \in Values \ S : d = Depth[v]
  BY <1>2
<1>4. \A w \in Values : Depth[w] < Depth[v] => w \in S
  <2> SUFFICES ASSUME NEW w \in Values, Depth[w] < Depth[v], w \notin S PROVE FALSE
    OBVIOUS
  <2>1. Depth[w] \in Nat /\ Depth[v] \in Nat /\ Depth[v] <= Depth[w]
    BY <1>1, <1>2, <1>3
  <2> QED
    BY <2>1
<1> QED
  BY <1>3, <1>4

\* The values of a dict are values of less depth, and so is what they are made of.
LEMMA KeyIsInner ==
  ASSUME NEW s \in Values, NEW key, Has(s, key)
  PROVE  /\ s.at[key] \in Values /\ Depth[s.at[key]] < Depth[s]
         /\ Inner(Parts(s.at[key]), s)
<1>1. s.kind = "dict" /\ key \in ToSet(s.keys) /\ s.keys \in Seq(STRING)
  BY ValuesAssumption DEF Has
<1>2. PICK i \in DOMAIN s.keys : s.keys[i] = key
  BY <1>1 DEF ToSet
<1>3. Parts(s) = [j \in DOMAIN s.keys |-> s.at[s.keys[j]]]
  BY <1>1 DEF Parts
<1>4. i \in DOMAIN Parts(s) /\ Parts(s)[i] = s.at[key]
  BY <1>2, <1>3
<1>5. Parts(s) \in Seq(Values) /\ Depth[Parts(s)[i]] < Depth[s]
  BY <1>4, ValuesAssumption
<1>6. s.at[key] \in Values /\ Depth[s.at[key]] < Depth[s]
  BY <1>4, <1>5
<1> DEFINE inner == Parts(s.at[key])
<1>7. /\ inner \in Seq(Values) /\ Depth[s.at[key]] \in Nat /\ Depth[s] \in Nat
      /\ \A j \in DOMAIN inner : Depth[inner[j]] < Depth[s.at[key]]
  BY <1>6, ValuesAssumption
<1>8. ASSUME NEW j \in DOMAIN inner
      PROVE  inner[j] \in Values /\ Depth[inner[j]] < Depth[s]
  <2>1. inner[j] \in Values
    BY <1>7
  <2>2. Depth[inner[j]] \in Nat
    BY <2>1, ValuesAssumption
  <2> QED
    BY <1>6, <1>7, <2>1, <2>2
<1> QED
  BY <1>6, <1>7, <1>8 DEF Inner

\* The schemas a schema holds are values of less depth.
LEMMA SchemasAreInner ==
  ASSUME NEW s \in Values
  PROVE  Inner(Fields(s), s) /\ Inner(Items(s), s) /\ Inner(Branches(s), s)
<1>1. Inner(<<>>, s)
  BY DEF Inner
<1>2. ASSUME NEW key PROVE Inner(At(s, key), s)
  BY <1>1, KeyIsInner DEF At
<1>3. Inner(Items(s), s)
  <2>1. CASE Has(s, "items")
    <3>1. Items(s) = <<s.at["items"]>>
      BY <2>1 DEF Items
    <3>2. s.at["items"] \in Values /\ Depth[s.at["items"]] < Depth[s]
      BY <2>1, KeyIsInner
    <3> QED
      BY <3>1, <3>2 DEF Inner
  <2>2. CASE ~ Has(s, "items")
    BY <1>1, <2>2 DEF Items
  <2> QED
    BY <2>1, <2>2
<1> QED
  BY <1>2, <1>3 DEF Fields, Branches

\* The depth of every value is a natural number.
LEMMA DepthsAreNatural == [v \in Values |-> Depth[v]] \in [Values -> Nat]
BY ValuesAssumption

\* The item limit of a schema is a natural number.
LEMMA ItemLimitIsNatural ==
  ASSUME NEW s
  PROVE  ItemLimit(s) \in Nat
<1>1. 0..MaxArrayItems \subseteq Nat
  BY LimitsAssumption
<1>2. TypeIs(s, "array") /\ ArrayRules(s) => Magnitude(s.at["maxItems"]) \in 0..MaxArrayItems
  BY DEF ArrayRules
<1> QED
  BY <1>1, <1>2 DEF ItemLimit

-----------------------------------------------------------------------------------
(* What the functions on schemas are, each the solution of its own equation.        *)

\* The most passages of s, when f counts them for what s holds.
MostOf(f, s) ==
  LET own == CASE TypeIs(s, "array") -> Largest(Along(f, Items(s))) * ItemLimit(s)
               [] ~ Has(s, "type") \/ TypeIs(s, "object") -> Total(Along(f, Fields(s)))
               [] OTHER -> 0
  IN  (IF Has(s, "$ref") THEN 1 ELSE own) + Largest(Along(f, Branches(s)))

\* The passages of s repeated, when f counts them for what s holds.
PassagesOf(f, s) ==
  [times \in Nat |->
     LET of(inner, n) == [i \in DOMAIN inner |-> f[inner[i]][n]]
     IN  IF Has(s, "$ref") THEN times
         ELSE Total(of(Fields(s), times)) + Total(of(Items(s), Repeated(s, times)))
                + Largest(of(Branches(s), times))]

\* Whether s is supported at each place, when f says it of what s holds.
SupportedOf(f, s) ==
  [place \in Places |->
     IF Has(s, "$ref")
     THEN DOMAIN s.at = {"$ref"} /\ s.at["$ref"] \in {Reference(name) : name \in place.names}
     ELSE /\ s.kind = "dict"
          /\ DOMAIN s.at \subseteq Keywords
          /\ ScalarRules(s)
          /\ ArrayRules(s)
          /\ \A inner \in ToSet(Fields(s)) \cup ToSet(Items(s)) : f[inner][Within(place)]
          /\ Has(s, "anyOf") =>
               /\ IF OffersChoice(s, place) THEN IsRootChoice(s)
                                            ELSE place.nullable /\ NullableUnion(s)
               /\ \A branch \in ToSet(Branches(s)) : f[branch][UnderAnyOf(s, place)]]

\* Two functions that agree below s are the same along what s holds.
LEMMA SameAlong ==
  ASSUME NEW g, NEW h, NEW s \in Values,
         \A w \in Values : Depth[w] < Depth[s] => g[w] = h[w],
         NEW inner, Inner(inner, s)
  PROVE  /\ \A i \in DOMAIN inner : g[inner[i]] = h[inner[i]]
         /\ Along(g, inner) = Along(h, inner)
BY DEF Inner, Along

\* The passages of the branches and the rest are natural numbers.
LEMMA MostIsNatural ==
  ASSUME NEW f, NEW s \in Values, Below(f, Nat, s)
  PROVE  MostOf(f, s) \in Nat
<1>1. \A inner : Inner(inner, s) => Along(f, inner) \in Seq(Nat)
  BY AlongIsASequence
<1>2. /\ Largest(Along(f, Items(s))) \in Nat
      /\ Total(Along(f, Fields(s))) \in Nat
      /\ Largest(Along(f, Branches(s))) \in Nat
  BY <1>1, SchemasAreInner, LargestBounds, TotalBounds
<1>3. ItemLimit(s) \in Nat
  BY ItemLimitIsNatural
<1>4. Largest(Along(f, Items(s))) * ItemLimit(s) \in Nat
  BY <1>2, <1>3
<1> QED
  BY <1>2, <1>4 DEF MostOf

\* MostPassages is a function to natural numbers that satisfies its equation.
LEMMA MostUnfolds ==
  /\ MostPassages \in [Values -> Nat]
  /\ \A s \in Values : MostPassages[s] = MostOf(MostPassages, s)
<1> DEFINE D == [f \in [Values -> Nat] |-> [s \in Values |-> MostOf(f, s)]]
           depth == [v \in Values |-> Depth[v]]
<1>1. depth \in [Values -> Nat] /\ \A v \in Values : depth[v] = Depth[v]
  BY DepthsAreNatural
<1>2. D \in [[Values -> Nat] -> [Values -> Nat]]
  BY MostIsNatural DEF Below
<1>3. ASSUME NEW g \in [Values -> Nat], NEW h \in [Values -> Nat], NEW s \in Values,
             \A w \in Values : depth[w] < depth[s] => g[w] = h[w]
      PROVE  D[g][s] = D[h][s]
  <2>1. \A w \in Values : Depth[w] < Depth[s] => g[w] = h[w]
    BY <1>1, <1>3
  <2>2. /\ Along(g, Items(s)) = Along(h, Items(s))
        /\ Along(g, Fields(s)) = Along(h, Fields(s))
        /\ Along(g, Branches(s)) = Along(h, Branches(s))
    BY <2>1, SchemasAreInner, SameAlong
  <2> QED
    BY <2>2 DEF MostOf
<1> HIDE DEF depth, D
<1>4. LooksBelow(D, Values, Nat, depth)
  BY <1>3 DEF LooksBelow
<1>5. Solvable(D, Values, Nat)
  BY <1>1, <1>2, <1>4, Recursion
<1>6. PICK f \in [Values -> Nat] : f = [s \in Values |-> MostOf(f, s)]
  BY <1>5 DEF Solvable, D
<1>7. MostPassages = CHOOSE h : h = [s \in Values |-> MostOf(h, s)]
  BY DEF MostPassages, MostOf, Along
<1>8. MostPassages = [s \in Values |-> MostOf(MostPassages, s)]
  BY <1>6, <1>7
<1>9. Values \subseteq {s \in Values : MostPassages[s] \in Nat}
  <2> DEFINE S == {s \in Values : MostPassages[s] \in Nat}
  <2>1. ASSUME NEW s \in Values, \A w \in Values : Depth[w] < Depth[s] => w \in S
        PROVE  s \in S
    <3>1. Below(MostPassages, Nat, s)
      BY <2>1 DEF Below
    <3> QED
      BY <1>8, <3>1, MostIsNatural
  <2> HIDE DEF S
  <2>2. Values \subseteq S
    BY <2>1, DepthInduction
  <2> QED
    BY <2>2 DEF S
<1> QED
  BY <1>8, <1>9

\* The sequence of what f counts at n.
Counts(f, inner, n) == [i \in DOMAIN inner |-> f[inner[i]][n]]

\* Counts at n of what s holds are a sequence of natural numbers.
LEMMA CountsAreASequence ==
  ASSUME NEW f, NEW s, Below(f, [Nat -> Nat], s), NEW inner, Inner(inner, s), NEW n \in Nat
  PROVE  /\ Counts(f, inner, n) \in Seq(Nat) /\ Len(Counts(f, inner, n)) = Len(inner)
         /\ DOMAIN Counts(f, inner, n) = DOMAIN inner
         /\ \A i \in DOMAIN inner : Counts(f, inner, n)[i] = f[inner[i]][n]
<1>1. \A i \in DOMAIN inner : f[inner[i]][n] \in Nat
  BY DEF Below, Inner
<1> QED
  BY <1>1 DEF Counts, Inner

\* The passages of s repeated are natural numbers.
LEMMA PassagesAreNatural ==
  ASSUME NEW f, NEW s \in Values, Below(f, [Nat -> Nat], s)
  PROVE  /\ PassagesOf(f, s) \in [Nat -> Nat]
         /\ \A times \in Nat :
              /\ Repeated(s, times) \in Nat
              /\ Total(Counts(f, Fields(s), times)) \in Nat
              /\ Total(Counts(f, Items(s), Repeated(s, times))) \in Nat
              /\ Largest(Counts(f, Branches(s), times)) \in Nat
<1>1. ASSUME NEW times \in Nat
      PROVE  /\ Repeated(s, times) \in Nat
             /\ Total(Counts(f, Fields(s), times)) \in Nat
             /\ Total(Counts(f, Items(s), Repeated(s, times))) \in Nat
             /\ Largest(Counts(f, Branches(s), times)) \in Nat
  <2>1. Repeated(s, times) \in Nat
    BY ItemLimitIsNatural DEF Repeated
  <2>2. \A inner, n : Inner(inner, s) /\ n \in Nat => Counts(f, inner, n) \in Seq(Nat)
    BY CountsAreASequence
  <2> QED
    BY <2>1, <2>2, SchemasAreInner, LargestBounds, TotalBounds
<1> QED
  BY <1>1 DEF PassagesOf, Counts

\* PassageValues is a function to counts that satisfies its equation.
LEMMA PassagesUnfold ==
  /\ PassageValues \in [Values -> [Nat -> Nat]]
  /\ \A s \in Values : PassageValues[s] = PassagesOf(PassageValues, s)
<1> DEFINE T == [Nat -> Nat]
           D == [f \in [Values -> T] |-> [s \in Values |-> PassagesOf(f, s)]]
           depth == [v \in Values |-> Depth[v]]
<1>1. depth \in [Values -> Nat] /\ \A v \in Values : depth[v] = Depth[v]
  BY DepthsAreNatural
<1>2. [n \in Nat |-> n] \in T
  OBVIOUS
<1>3. ASSUME NEW f \in [Values -> T], NEW s \in Values PROVE PassagesOf(f, s) \in T
  BY PassagesAreNatural DEF Below
<1>4. D \in [[Values -> T] -> [Values -> T]]
  <2> HIDE DEF T
  <2> QED
    BY <1>3
<1>5. ASSUME NEW g \in [Values -> T], NEW h \in [Values -> T], NEW s \in Values,
             \A w \in Values : depth[w] < depth[s] => g[w] = h[w]
      PROVE  D[g][s] = D[h][s]
  <2>1. \A w \in Values : Depth[w] < Depth[s] => g[w] = h[w]
    BY <1>1, <1>5
  <2>2. \A inner, n : Inner(inner, s) => Counts(g, inner, n) = Counts(h, inner, n)
    BY <2>1, SameAlong DEF Counts
  <2>3. PassagesOf(g, s) = PassagesOf(h, s)
    <3>1. /\ \A n : Counts(g, Items(s), n) = Counts(h, Items(s), n)
          /\ \A n : Counts(g, Fields(s), n) = Counts(h, Fields(s), n)
          /\ \A n : Counts(g, Branches(s), n) = Counts(h, Branches(s), n)
      BY <2>2, SchemasAreInner
    <3> QED
      BY <3>1 DEF PassagesOf, Counts
  <2> QED
    BY <2>3
<1> HIDE DEF depth, D, T
<1>6. LooksBelow(D, Values, T, depth)
  BY <1>5 DEF LooksBelow
<1>7. Solvable(D, Values, T)
  BY <1>1, <1>2, <1>4, <1>6, Recursion
<1>8. PICK f \in [Values -> T] : f = [s \in Values |-> PassagesOf(f, s)]
  BY <1>7 DEF Solvable, D
<1>9. PassageValues = CHOOSE h : h = [s \in Values |-> PassagesOf(h, s)]
  BY DEF PassageValues, PassagesOf
<1>10. PassageValues = [s \in Values |-> PassagesOf(PassageValues, s)]
  BY <1>8, <1>9
<1>11. Values \subseteq {s \in Values : PassageValues[s] \in T}
  <2> DEFINE S == {s \in Values : PassageValues[s] \in T}
  <2>1. ASSUME NEW s \in Values, \A w \in Values : Depth[w] < Depth[s] => w \in S
        PROVE  s \in S
    <3>1. Below(PassageValues, T, s)
      BY <2>1 DEF Below
    <3> QED
      BY <1>10, <3>1, PassagesAreNatural DEF T
  <2> HIDE DEF S
  <2>2. Values \subseteq S
    BY <2>1, DepthInduction
  <2> QED
    BY <2>2 DEF S
<1> QED
  BY <1>10, <1>11 DEF T

\* Supported satisfies its equation.
LEMMA SupportedUnfolds ==
  \A s \in Values : Supported[s] = SupportedOf(Supported, s)
<1> DEFINE T == [Places -> BOOLEAN]
           D == [f \in [Values -> T] |-> [s \in Values |-> SupportedOf(f, s)]]
           depth == [v \in Values |-> Depth[v]]
<1>1. depth \in [Values -> Nat] /\ \A v \in Values : depth[v] = Depth[v]
  BY DepthsAreNatural
<1>2. [place \in Places |-> TRUE] \in T
  OBVIOUS
<1>3. ASSUME NEW f \in [Values -> T], NEW s \in Values PROVE SupportedOf(f, s) \in T
  BY DEF SupportedOf
<1>4. D \in [[Values -> T] -> [Values -> T]]
  <2> HIDE DEF T
  <2> QED
    BY <1>3
<1>5. ASSUME NEW g \in [Values -> T], NEW h \in [Values -> T], NEW s \in Values,
             \A w \in Values : depth[w] < depth[s] => g[w] = h[w]
      PROVE  D[g][s] = D[h][s]
  <2>1. \A w \in Values : Depth[w] < Depth[s] => g[w] = h[w]
    BY <1>1, <1>5
  <2>2. \A inner : Inner(inner, s) => \A w \in ToSet(inner) : g[w] = h[w]
    BY <2>1 DEF Inner, ToSet
  <2>3. /\ \A w \in ToSet(Fields(s)) : g[w] = h[w]
        /\ \A w \in ToSet(Items(s)) : g[w] = h[w]
        /\ \A w \in ToSet(Branches(s)) : g[w] = h[w]
    BY <2>2, SchemasAreInner
  <2>4. SupportedOf(g, s) = SupportedOf(h, s)
    BY <2>3 DEF SupportedOf
  <2> QED
    BY <2>4
<1> HIDE DEF depth, D, T
<1>6. LooksBelow(D, Values, T, depth)
  BY <1>5 DEF LooksBelow
<1>7. Solvable(D, Values, T)
  BY <1>1, <1>2, <1>4, <1>6, Recursion
<1>8. PICK f \in [Values -> T] : f = [s \in Values |-> SupportedOf(f, s)]
  BY <1>7 DEF Solvable, D
<1>9. Supported = CHOOSE h : h = [s \in Values |-> SupportedOf(h, s)]
  BY DEF Supported, SupportedOf
<1>10. Supported = [s \in Values |-> SupportedOf(Supported, s)]
  BY <1>8, <1>9
<1> QED
  BY <1>10

-----------------------------------------------------------------------------------
(* The count of the admission covers what an output may hold.                       *)

\* At every place s is supported, its count repeated covers its most passages repeated.
Covered(s) ==
  \A place \in Places, times \in Nat :
    Supported[s][place] => times * MostPassages[s] <= PassageValues[s][times]

\* The count covers a sequence of covered schemas, whether outputs hold all or one of them.
LEMMA SequencesCovered ==
  ASSUME NEW s \in Values, NEW inner, Inner(inner, s), NEW times \in Nat,
         NEW place \in Places,
         \A w \in ToSet(inner) : Covered(w) /\ Supported[w][place]
  PROVE  /\ times * Total(Along(MostPassages, inner)) <= Total(Counts(PassageValues, inner, times))
         /\ times * Largest(Along(MostPassages, inner))
              <= Largest(Counts(PassageValues, inner, times))
         /\ times * Largest(Along(MostPassages, inner))
              <= Total(Counts(PassageValues, inner, times))
<1> DEFINE few == Along(MostPassages, inner)
           many == Counts(PassageValues, inner, times)
<1>1. /\ few \in Seq(Nat) /\ Len(few) = Len(inner) /\ DOMAIN few = DOMAIN inner
      /\ \A i \in DOMAIN inner : few[i] = MostPassages[inner[i]]
  <2>1. Below(MostPassages, Nat, s)
    BY MostUnfolds DEF Below
  <2> QED
    BY <2>1, AlongIsASequence
<1>2. /\ many \in Seq(Nat) /\ Len(many) = Len(inner) /\ DOMAIN many = DOMAIN inner
      /\ \A i \in DOMAIN inner : many[i] = PassageValues[inner[i]][times]
  <2>1. Below(PassageValues, [Nat -> Nat], s)
    BY PassagesUnfold DEF Below
  <2> QED
    BY <2>1, CountsAreASequence
<1>3. \A i \in DOMAIN inner : inner[i] \in ToSet(inner)
  BY DEF ToSet
<1>4. \A i \in DOMAIN few : times * few[i] <= many[i]
  BY <1>1, <1>2, <1>3 DEF Covered
<1> HIDE DEF few, many
<1>5. times * Total(few) <= Total(many)
  BY <1>1, <1>2, <1>4, TotalScales
<1>6. /\ Largest(many) \in Nat /\ \A i \in DOMAIN many : many[i] <= Largest(many)
      /\ Total(many) \in Nat /\ \A i \in DOMAIN many : many[i] <= Total(many)
      /\ Largest(few) = 0 \/ \E i \in DOMAIN few : Largest(few) = few[i]
  BY <1>1, <1>2, LargestBounds, TotalBounds
<1>7. times * Largest(few) <= Largest(many) /\ times * Largest(few) <= Total(many)
  <2>1. CASE Largest(few) = 0
    BY <1>6, <2>1
  <2>2. CASE \E i \in DOMAIN few : Largest(few) = few[i]
    <3>1. PICK i \in DOMAIN few : Largest(few) = few[i]
      BY <2>2
    <3>2. times * Largest(few) <= many[i]
      BY <1>4, <3>1
    <3>3. many[i] \in Nat /\ few[i] \in Nat /\ many[i] <= Largest(many) /\ many[i] <= Total(many)
      BY <1>1, <1>2, <1>6
    <3>4. times * Largest(few) \in Int
      BY <3>1, <3>3
    <3> QED
      BY <1>6, <3>2, <3>3, <3>4
  <2> QED
    BY <1>6, <2>1, <2>2
<1> QED
  BY <1>5, <1>7 DEF few, many

\* Where s is supported, so is all it holds.
LEMMA SupportedInside ==
  ASSUME NEW s \in Values, NEW place \in Places, Supported[s][place], ~ Has(s, "$ref")
  PROVE  /\ ArrayRules(s)
         /\ \A w \in ToSet(Fields(s)) \cup ToSet(Items(s)) : Supported[w][Within(place)]
         /\ \A w \in ToSet(Branches(s)) : Supported[w][UnderAnyOf(s, place)]
<1>1. SupportedOf(Supported, s)[place]
  BY SupportedUnfolds
<1>2. /\ ArrayRules(s)
      /\ \A w \in ToSet(Fields(s)) \cup ToSet(Items(s)) : Supported[w][Within(place)]
      /\ Has(s, "anyOf") => \A w \in ToSet(Branches(s)) : Supported[w][UnderAnyOf(s, place)]
  BY <1>1 DEF SupportedOf
<1>3. ~ Has(s, "anyOf") => ToSet(Branches(s)) = {}
  BY DEF Branches, At, ToSet
<1> QED
  BY <1>2, <1>3

\* The places inside a schema are places.
LEMMA PlacesInside ==
  ASSUME NEW s, NEW place \in Places
  PROVE  Within(place) \in Places /\ UnderAnyOf(s, place) \in Places
BY DEF Places, Within, UnderAnyOf, OffersChoice

\* A reference stands alone.
LEMMA ReferenceHoldsNothing ==
  ASSUME NEW s \in Values, NEW place \in Places, Supported[s][place], Has(s, "$ref")
  PROVE  MostPassages[s] = 1 /\ \A times \in Nat : PassageValues[s][times] = times
<1>1. SupportedOf(Supported, s)[place]
  BY SupportedUnfolds
<1>2. DOMAIN s.at = {"$ref"}
  BY <1>1 DEF SupportedOf
<1>3. Branches(s) = <<>>
  BY <1>2 DEF Branches, At, Has
<1>4. Largest(Along(MostPassages, Branches(s))) = 0
  <2>1. Along(MostPassages, <<>>) = <<>>
    BY DEF Along
  <2>2. <<>> \in Seq(Nat) /\ DOMAIN <<>> = {}
    OBVIOUS
  <2>3. Largest(<<>>) = 0
    BY <2>2, LargestBounds
  <2> QED
    BY <1>3, <2>1, <2>3
<1>5. MostPassages[s] = 1
  BY <1>4, MostUnfolds DEF MostOf
<1>6. \A times \in Nat : PassageValues[s][times] = times
  BY PassagesUnfold DEF PassagesOf
<1> QED
  BY <1>5, <1>6

\* What an array repeats is repeated as often in both counts.
LEMMA Regroup ==
  ASSUME NEW times \in Nat, NEW most \in Nat, NEW limit \in Nat
  PROVE  times * (most * limit) = (times * limit) * most
OBVIOUS

\* A supported schema is covered when all it holds is.
LEMMA CoveredStep ==
  ASSUME NEW s \in Values, \A w \in Values : Depth[w] < Depth[s] => Covered(w)
  PROVE  Covered(s)
<1> SUFFICES ASSUME NEW place \in Places, NEW times \in Nat, Supported[s][place]
             PROVE  times * MostPassages[s] <= PassageValues[s][times]
  BY DEF Covered
<1>1. CASE Has(s, "$ref")
  <2>1. MostPassages[s] = 1 /\ PassageValues[s][times] = times
    BY <1>1, ReferenceHoldsNothing
  <2> QED
    BY <2>1
<1>2. CASE ~ Has(s, "$ref")
  <2> DEFINE limit == ItemLimit(s)
             inFields == Total(Counts(PassageValues, Fields(s), times))
             inItems == Total(Counts(PassageValues, Items(s), Repeated(s, times)))
             inBranches == Largest(Counts(PassageValues, Branches(s), times))
             fields == Total(Along(MostPassages, Fields(s)))
             item == Largest(Along(MostPassages, Items(s)))
             branch == Largest(Along(MostPassages, Branches(s)))
  <2>1. PassageValues[s][times] = inFields + inItems + inBranches
    BY <1>2, PassagesUnfold DEF PassagesOf, Counts
  <2>2. /\ inFields \in Nat /\ inItems \in Nat /\ inBranches \in Nat
        /\ Repeated(s, times) \in Nat
    <3>1. Below(PassageValues, [Nat -> Nat], s)
      BY PassagesUnfold DEF Below
    <3> QED
      BY <3>1, PassagesAreNatural
  <2>3. fields \in Nat /\ item \in Nat /\ branch \in Nat /\ limit \in Nat
    <3>1. Below(MostPassages, Nat, s)
      BY MostUnfolds DEF Below
    <3>2. \A inner : Inner(inner, s) => Along(MostPassages, inner) \in Seq(Nat)
      BY <3>1, AlongIsASequence
    <3> QED
      BY <3>2, SchemasAreInner, LargestBounds, TotalBounds, ItemLimitIsNatural
  <2>4. \A inner : Inner(inner, s) => \A w \in ToSet(inner) : Covered(w)
    BY DEF Inner, ToSet
  <2>5. /\ \A w \in ToSet(Fields(s)) : Covered(w) /\ Supported[w][Within(place)]
        /\ \A w \in ToSet(Items(s)) : Covered(w) /\ Supported[w][Within(place)]
        /\ \A w \in ToSet(Branches(s)) : Covered(w) /\ Supported[w][UnderAnyOf(s, place)]
    BY <1>2, <2>4, SchemasAreInner, SupportedInside
  <2>6. Within(place) \in Places /\ UnderAnyOf(s, place) \in Places
    BY PlacesInside
  <2>7. times * fields <= inFields
    BY <2>5, <2>6, SchemasAreInner, SequencesCovered
  <2>8. Repeated(s, times) * item <= inItems
    BY <2>2, <2>5, <2>6, SchemasAreInner, SequencesCovered
  <2>9. times * branch <= inBranches
    BY <2>5, <2>6, SchemasAreInner, SequencesCovered
  <2>10. Repeated(s, times) = times * limit
    BY DEF Repeated
  <2> HIDE DEF limit, inFields, inItems, inBranches, fields, item, branch
  <2>11. times * (item * limit) <= inItems
    BY <2>3, <2>8, <2>10, Regroup
  <2>12. PICK own \in Nat : MostPassages[s] = own + branch /\ own \in {item * limit, fields, 0}
    <3>1. item * limit \in Nat
      BY <2>3
    <3>2. MostPassages[s] = MostOf(MostPassages, s)
      BY MostUnfolds
    <3> QED
      BY <1>2, <2>3, <3>1, <3>2 DEF MostOf, item, limit, fields, branch
  <2>13. times * own <= inFields + inItems
    <3>1. times * own <= inItems \/ times * own <= inFields
      BY <2>2, <2>7, <2>11, <2>12
    <3>2. times * own \in Int
      BY <2>12
    <3> QED
      BY <2>2, <3>1, <3>2
  <2> QED
    <3>1. inFields + inItems \in Nat
      BY <2>2
    <3>2. times * (own + branch) <= (inFields + inItems) + inBranches
      BY <2>2, <2>3, <2>9, <2>12, <2>13, <3>1, ScaledSum
    <3> QED
      BY <2>1, <2>12, <3>2
<1> QED
  BY <1>1, <1>2

\* Every supported schema is covered.
LEMMA SchemasCovered == \A s \in Values : Covered(s)
<1> DEFINE S == {s \in Values : Covered(s)}
<1>1. ASSUME NEW s \in Values, \A w \in Values : Depth[w] < Depth[s] => w \in S
      PROVE  s \in S
  BY <1>1, CoveredStep
<1> HIDE DEF S
<1>2. Values \subseteq S
  BY <1>1, DepthInduction
<1> QED
  BY <1>2 DEF S

\* The definitions of passages are no part of what an output holds.
LEMMA DefinitionsHoldNoPassages ==
  ASSUME NEW root \in Values, root.kind = "dict"
  PROVE  MostPassages[WithoutDefinitions(root)] = MostPassages[root]
<1> DEFINE body == WithoutDefinitions(root)
<1>1. body \in Values
  BY BodiesAssumption
<1>2. /\ body.kind = "dict" /\ DOMAIN body.at = DOMAIN root.at \ {"$defs"}
      /\ \A key \in DOMAIN root.at \ {"$defs"} : body.at[key] = root.at[key]
  BY DEF WithoutDefinitions, Dict
<1> HIDE DEF body
<1>3. \A key : key # "$defs" =>
        (Has(body, key) <=> Has(root, key)) /\ (Has(root, key) => body.at[key] = root.at[key])
  BY <1>2 DEF Has
<1>4. /\ Fields(body) = Fields(root) /\ Items(body) = Items(root)
      /\ Branches(body) = Branches(root)
  BY <1>3 DEF Fields, Items, Branches, At
<1>5. \A type : TypeIs(body, type) <=> TypeIs(root, type)
  BY <1>3 DEF TypeIs
<1>6. ItemLimit(body) = ItemLimit(root)
  <2>1. TypeIs(root, "array") => (ArrayRules(body) <=> ArrayRules(root))
    BY <1>3, <1>5 DEF ArrayRules
  <2>2. TypeIs(root, "array") /\ ArrayRules(root) => body.at["maxItems"] = root.at["maxItems"]
    BY <1>3 DEF ArrayRules
  <2> QED
    BY <1>5, <2>1, <2>2 DEF ItemLimit
<1>7. MostOf(MostPassages, body) = MostOf(MostPassages, root)
  BY <1>3, <1>4, <1>5, <1>6 DEF MostOf
<1> QED
  BY <1>1, <1>7, MostUnfolds DEF body

\* The names a root's body may refer to are strings.
LEMMA RootIsAPlace ==
  ASSUME NEW root \in Values, PassageDefinitionsOK(root)
  PROVE  Root(IF Has(root, "$defs") THEN DOMAIN root.at["$defs"].at ELSE {}) \in Places
<1> DEFINE names == IF Has(root, "$defs") THEN DOMAIN root.at["$defs"].at ELSE {}
<1>1. names \subseteq STRING
  <2>1. CASE Has(root, "$defs")
    <3>1. root.at["$defs"] \in Values /\ root.at["$defs"].kind = "dict"
      BY <2>1, KeyIsInner DEF PassageDefinitionsOK
    <3>2. /\ root.at["$defs"].keys \in Seq(STRING)
          /\ DOMAIN root.at["$defs"].at = ToSet(root.at["$defs"].keys)
      BY <3>1, ValuesAssumption
    <3> QED
      BY <2>1, <3>2 DEF ToSet
  <2>2. CASE ~ Has(root, "$defs")
    BY <2>2
  <2> QED
    BY <2>1, <2>2
<1> HIDE DEF names
<1>2. Root(names) \in Places
  BY <1>1 DEF Root, Places
<1> QED
  BY <1>2 DEF names

\* An output of a schema that the gateway admits holds no more passages than the budget
\* (Generation.validate_generation_shape), for every set of documents and all limits.
THEOREM PassagesStayInBudget == Writes => []BudgetCoversOutputs
<1>1. ASSUME sent \in Values PROVE BudgetCoversOutputs
  <2> SUFFICES ASSUME Admitted(sent) PROVE MostPassages[sent] <= MaxPassageValues
    BY DEF BudgetCoversOutputs
  <2> DEFINE body == WithoutDefinitions(sent)
             names == IF Has(sent, "$defs") THEN DOMAIN sent.at["$defs"].at ELSE {}
  <2>1. /\ sent.kind = "dict" /\ PassageDefinitionsOK(sent)
        /\ Supported[body][Root(names)] /\ PassageValues[body][1] <= MaxPassageValues
    BY DEF Admitted
  <2>2. body \in Values
    BY <1>1, <2>1, BodiesAssumption
  <2>3. Root(names) \in Places
    BY <1>1, <2>1, RootIsAPlace
  <2>4. MostPassages[body] = MostPassages[sent]
    BY <1>1, <2>1, DefinitionsHoldNoPassages
  <2> HIDE DEF body, names
  <2>5. 1 * MostPassages[body] <= PassageValues[body][1]
    BY <2>1, <2>2, <2>3, SchemasCovered DEF Covered
  <2>6. MostPassages[body] \in Nat /\ PassageValues[body][1] \in Nat /\ MaxPassageValues \in Nat
    BY <2>2, MostUnfolds, PassagesUnfold, LimitsAssumption
  <2> QED
    BY <2>1, <2>4, <2>5, <2>6
<1>2. Writes => [](sent \in Values)
  <2>1. sent \in Values /\ [sent' \in Values]_sent => (sent \in Values)'
    OBVIOUS
  <2> QED
    BY <2>1, PTL DEF Writes
<1> QED
  BY <1>1, <1>2, PTL

-----------------------------------------------------------------------------------
(* Orders of keys.                                                                  *)

\* Sorted keys are the same keys.
LEMMA SortedKeysAreTheKeys ==
  ASSUME NEW keys, keys \subseteq ToSet(KeyOrder)
  PROVE  SortedKeys(keys) \in Seq(STRING) /\ ToSet(SortedKeys(keys)) = keys
<1>1. KeyOrder \in Seq(STRING)
  BY KeyOrderAssumption
<1>2. /\ Kept(KeyOrder, keys) \in Seq(STRING)
      /\ ToSet(Kept(KeyOrder, keys)) = ToSet(KeyOrder) \cap keys
  BY <1>1, KeptInOrder
<1> QED
  BY <1>2 DEF SortedKeys

\* Of two names in order, the second is required only if both are, in this order.
RequiredFirst(order, required) ==
  \A i, j \in DOMAIN order :
    i < j /\ order[j] \in ToSet(required) =>
      \E p, q \in DOMAIN required : p < q /\ order[i] = required[p] /\ order[j] = required[q]

\* The field order is an order of the names that begins with the required ones.
LEMMA FieldOrderIsRight ==
  ASSUME NEW names, names \subseteq ToSet(KeyOrder), NEW required \in Seq(STRING)
  PROVE  /\ FieldOrder(names, required) \in Seq(STRING)
         /\ ToSet(FieldOrder(names, required)) = names
         /\ RequiredFirst(FieldOrder(names, required), required)
<1> DEFINE known == Kept(required, names)
           rest == SortedKeys(names \ ToSet(known))
           order == known \o rest
<1>1. /\ known \in Seq(STRING) /\ ToSet(known) = ToSet(required) \cap names
      /\ InOrder(known, required)
  BY KeptInOrder
<1>2. rest \in Seq(STRING) /\ ToSet(rest) = names \ ToSet(known)
  <2>1. names \ ToSet(known) \subseteq ToSet(KeyOrder)
    OBVIOUS
  <2> QED
    BY <2>1, SortedKeysAreTheKeys
<1>3. FieldOrder(names, required) = order
  BY DEF FieldOrder
<1> HIDE DEF known, rest
<1> DEFINE k == Len(known)
           m == Len(rest)
<1>4. /\ k \in Nat /\ m \in Nat /\ DOMAIN known = 1..k /\ DOMAIN rest = 1..m
      /\ order \in Seq(STRING) /\ DOMAIN order = 1..(k + m)
      /\ \A i \in 1..k : order[i] = known[i]
      /\ \A i \in (k + 1)..(k + m) : order[i] = rest[i - k]
  BY <1>1, <1>2
<1> HIDE DEF k, m, order
<1>5. 1..(k + m) = 1..k \cup (k + 1)..(k + m)
  BY <1>4
<1>6. \A i \in (k + 1)..(k + m) : i - k \in DOMAIN rest
  BY <1>4
<1>7. \A i \in DOMAIN rest : i + k \in (k + 1)..(k + m) /\ (i + k) - k = i
  BY <1>4
<1>8. ToSet(order) = names
  <2>1. ToSet(order) \subseteq ToSet(known) \cup ToSet(rest)
    BY <1>4, <1>5, <1>6 DEF ToSet
  <2>2. ToSet(known) \subseteq ToSet(order)
    BY <1>4, <1>5 DEF ToSet
  <2>3. ToSet(rest) \subseteq ToSet(order)
    <3> SUFFICES ASSUME NEW i \in DOMAIN rest PROVE rest[i] \in ToSet(order)
      BY DEF ToSet
    <3>1. i + k \in DOMAIN order /\ order[i + k] = rest[i]
      BY <1>4, <1>5, <1>7
    <3> QED
      BY <3>1 DEF ToSet
  <2> QED
    BY <1>1, <1>2, <2>1, <2>2, <2>3
<1>9. RequiredFirst(order, required)
  <2> SUFFICES ASSUME NEW i \in DOMAIN order, NEW j \in DOMAIN order,
                      i < j, order[j] \in ToSet(required)
               PROVE  \E p, q \in DOMAIN required :
                        p < q /\ order[i] = required[p] /\ order[j] = required[q]
    BY DEF RequiredFirst
  <2>1. j \in 1..k
    <3> SUFFICES ASSUME j \in (k + 1)..(k + m) PROVE FALSE
      BY <1>4, <1>5
    <3>1. order[j] \in ToSet(rest)
      BY <1>4, <1>6 DEF ToSet
    <3> QED
      BY <1>1, <1>2, <3>1
  <2>2. i \in 1..k
    BY <1>4, <2>1
  <2> QED
    BY <1>1, <1>4, <2>1, <2>2 DEF InOrder
<1> QED
  BY <1>3, <1>4, <1>8, <1>9

-----------------------------------------------------------------------------------
(* What Ordered is.  Its values are in no set known beforehand, so that Recursion does  *)
(* not apply: that it satisfies its equation is shown step by step.                  *)

\* v with its keys in order, when f puts what v is made of in order.
OrderedOf(f, v) ==
  [isSchema \in BOOLEAN |->
     LET Fielded(fields, required) ==
           Dict(FieldOrder(Names(fields), required),
                [name \in Names(fields) |-> f[fields.at[name]][TRUE]])
         Under(key) ==
           CASE isSchema /\ key = "properties" -> Fielded(v.at[key], Required(v))
             [] isSchema /\ key = "$defs" -> Fielded(v.at[key], <<>>)
             [] isSchema /\ key = "anyOf" ->
                  List([i \in DOMAIN Branches(v) |-> f[Branches(v)[i]][TRUE]])
             [] OTHER -> f[v.at[key]][isSchema /\ key = "items"]
     IN  CASE v.kind = "list" -> List([i \in DOMAIN v.items |-> f[v.items[i]][FALSE]])
           [] v.kind = "dict" ->
                Dict(SortedKeys(DOMAIN v.at), [key \in DOMAIN v.at |-> Under(key)])
           [] OTHER -> v]

\* The values of a dict in a dict are values of less depth.
LEMMA FieldsAreInner ==
  ASSUME NEW v \in Values, NEW key, Has(v, key), NEW name \in Names(v.at[key])
  PROVE  v.at[key].at[name] \in Values /\ Depth[v.at[key].at[name]] < Depth[v]
<1>1. v.at[key] \in Values /\ Depth[v.at[key]] < Depth[v]
  BY KeyIsInner
<1>2. Has(v.at[key], name)
  BY DEF Names, Has
<1>3. v.at[key].at[name] \in Values /\ Depth[v.at[key].at[name]] < Depth[v.at[key]]
  BY <1>1, <1>2, KeyIsInner
<1>4. Depth[v] \in Nat /\ Depth[v.at[key]] \in Nat /\ Depth[v.at[key].at[name]] \in Nat
  BY <1>1, <1>3, ValuesAssumption
<1> QED
  BY <1>1, <1>3, <1>4

\* The items of a list are values of less depth.
LEMMA ListIsInner ==
  ASSUME NEW v \in Values, v.kind = "list"
  PROVE  Inner(v.items, v)
<1>1. Parts(v) = v.items
  BY DEF Parts
<1> QED
  BY <1>1, ValuesAssumption DEF Inner

\* OrderedOf looks only at what has less depth.
LEMMA OrderedLooksBelow ==
  ASSUME NEW v \in Values, NEW g, NEW h, \A w \in Values : Depth[w] < Depth[v] => g[w] = h[w]
  PROVE  OrderedOf(g, v) = OrderedOf(h, v)
<1>1. CASE v.kind = "list"
  <2>1. \A i \in DOMAIN v.items : g[v.items[i]] = h[v.items[i]]
    BY <1>1, ListIsInner DEF Inner
  <2> QED
    BY <1>1, <2>1 DEF OrderedOf
<1>2. CASE v.kind = "dict"
  <2>1. \A key \in DOMAIN v.at : g[v.at[key]] = h[v.at[key]]
    BY <1>2, KeyIsInner DEF Has
  <2>2. \A key \in DOMAIN v.at : \A name \in Names(v.at[key]) :
          g[v.at[key].at[name]] = h[v.at[key].at[name]]
    BY <1>2, FieldsAreInner DEF Has
  <2>3. \A i \in DOMAIN Branches(v) : g[Branches(v)[i]] = h[Branches(v)[i]]
    BY SchemasAreInner DEF Inner
  <2> DEFINE Field(f, key) == [name \in Names(v.at[key]) |-> f[v.at[key].at[name]][TRUE]]
             Branch(f) == [i \in DOMAIN Branches(v) |-> f[Branches(v)[i]][TRUE]]
  <2>4. \A key \in DOMAIN v.at : Field(g, key) = Field(h, key)
    BY <2>2
  <2>5. Branch(g) = Branch(h)
    BY <2>3
  <2> DEFINE Under(f, isSchema, key) ==
               CASE isSchema /\ key = "properties"
                      -> Dict(FieldOrder(Names(v.at[key]), Required(v)), Field(f, key))
                 [] isSchema /\ key = "$defs"
                      -> Dict(FieldOrder(Names(v.at[key]), <<>>), Field(f, key))
                 [] isSchema /\ key = "anyOf" -> List(Branch(f))
                 [] OTHER -> f[v.at[key]][isSchema /\ key = "items"]
  <2> HIDE DEF Field, Branch
  <2>6. ASSUME NEW isSchema \in BOOLEAN, NEW key \in DOMAIN v.at
        PROVE  Under(g, isSchema, key) = Under(h, isSchema, key)
    BY <2>1, <2>4, <2>5
  <2> HIDE DEF Under
  <2>7. \A isSchema \in BOOLEAN :
          [key \in DOMAIN v.at |-> Under(g, isSchema, key)]
            = [key \in DOMAIN v.at |-> Under(h, isSchema, key)]
    BY <2>6
  <2> DEFINE Arranged(f) ==
               [isSchema \in BOOLEAN |->
                  Dict(SortedKeys(DOMAIN v.at), [key \in DOMAIN v.at |-> Under(f, isSchema, key)])]
  <2>8. Arranged(g) = Arranged(h)
    BY <2>7
  <2>9. ASSUME NEW f PROVE OrderedOf(f, v) = Arranged(f)
    BY <1>2 DEF OrderedOf, Under, Field, Branch
  <2> QED
    BY <2>8, <2>9
<1>3. CASE v.kind \notin {"list", "dict"}
  BY <1>3 DEF OrderedOf
<1> QED
  BY <1>1, <1>2, <1>3

\* f is what OrderedOf makes of it, up to depth n.
OrderedBelow(f, n) == \A v \in Values : Depth[v] < n => f[v] = OrderedOf(f, v)

\* Two such functions agree as far as both go.
LEMMA OrdersAgree ==
  ASSUME NEW n \in Nat, NEW m \in Nat, NEW g, NEW h, OrderedBelow(g, n), OrderedBelow(h, m),
         NEW v \in Values, Depth[v] < n, Depth[v] < m
  PROVE  g[v] = h[v]
<1> DEFINE S == {w \in Values : Depth[w] < n /\ Depth[w] < m => g[w] = h[w]}
<1>1. ASSUME NEW w \in Values, \A u \in Values : Depth[u] < Depth[w] => u \in S
      PROVE  w \in S
  <2> SUFFICES ASSUME Depth[w] < n, Depth[w] < m PROVE g[w] = h[w]
    OBVIOUS
  <2>1. ASSUME NEW u \in Values, Depth[u] < Depth[w] PROVE g[u] = h[u]
    <3>1. Depth[u] \in Nat /\ Depth[w] \in Nat
      BY ValuesAssumption
    <3>2. Depth[u] < n /\ Depth[u] < m
      BY <2>1, <3>1
    <3> QED
      BY <1>1, <2>1, <3>2
  <2>2. OrderedOf(g, w) = OrderedOf(h, w)
    BY <2>1, OrderedLooksBelow
  <2> QED
    BY <2>2 DEF OrderedBelow
<1> HIDE DEF S
<1>2. Values \subseteq S
  BY <1>1, DepthInduction
<1> QED
  BY <1>2 DEF S

\* For every depth there is such a function.
LEMMA OrdersExist == \A n \in Nat : \E g : OrderedBelow(g, n)
<1> DEFINE Unsolved == {n \in Nat : ~ \E g : OrderedBelow(g, n)}
<1> SUFFICES ASSUME Unsolved # {} PROVE FALSE
  OBVIOUS
<1>1. PICK n \in Unsolved : \A m \in Unsolved : n <= m
  BY LeastElement
<1>2. CASE n = 0
  <2>1. \A v \in Values : ~ (Depth[v] < 0)
    <3> SUFFICES ASSUME NEW v \in Values PROVE ~ (Depth[v] < 0)
      OBVIOUS
    <3>1. Depth[v] \in Nat
      BY ValuesAssumption
    <3> QED
      BY <3>1
  <2>2. OrderedBelow([v \in Values |-> 0], 0)
    BY <2>1 DEF OrderedBelow
  <2> QED
    BY <1>1, <1>2, <2>2
<1>3. CASE n # 0
  <2>1. n - 1 \in Nat /\ n - 1 \notin Unsolved
    BY <1>1, <1>3
  <2>2. PICK g : OrderedBelow(g, n - 1)
    BY <2>1
  <2> DEFINE h == [v \in Values |-> OrderedOf(g, v)]
  <2>3. ASSUME NEW v \in Values, Depth[v] < n PROVE h[v] = OrderedOf(h, v)
    <3>1. ASSUME NEW w \in Values, Depth[w] < Depth[v] PROVE g[w] = h[w]
      <4>1. Depth[w] \in Nat /\ Depth[v] \in Nat
        BY ValuesAssumption
      <4>2. Depth[w] < n - 1
        BY <2>3, <3>1, <4>1
      <4>3. g[w] = OrderedOf(g, w)
        BY <2>2, <4>2 DEF OrderedBelow
      <4> QED
        BY <4>3
    <3> HIDE DEF h
    <3>2. OrderedOf(g, v) = OrderedOf(h, v)
      BY <3>1, OrderedLooksBelow
    <3> QED
      BY <3>2 DEF h
  <2> HIDE DEF h
  <2>4. OrderedBelow(h, n)
    BY <2>3 DEF OrderedBelow
  <2> QED
    BY <1>1, <2>4
<1> QED
  BY <1>2, <1>3

\* Ordered satisfies its equation.
LEMMA OrderedUnfolds == \A v \in Values : Ordered[v] = OrderedOf(Ordered, v)
<1> DEFINE G == [n \in Nat |-> CHOOSE g : OrderedBelow(g, n)]
           f == [v \in Values |-> G[Depth[v] + 1][v]]
<1>1. \A n \in Nat : OrderedBelow(G[n], n)
  BY OrdersExist
<1> HIDE DEF G
<1>2. \A v \in Values : Depth[v] \in Nat /\ Depth[v] + 1 \in Nat
  BY ValuesAssumption
<1>3. \A v \in Values : f[v] = G[Depth[v] + 1][v]
  OBVIOUS
<1> HIDE DEF f
<1>4. ASSUME NEW v \in Values PROVE f[v] = OrderedOf(f, v)
  <2> DEFINE g == G[Depth[v] + 1]
  <2>1. OrderedBelow(g, Depth[v] + 1)
    BY <1>1, <1>2
  <2>2. ASSUME NEW w \in Values, Depth[w] < Depth[v] PROVE g[w] = f[w]
    <3> DEFINE h == G[Depth[w] + 1]
    <3>1. OrderedBelow(h, Depth[w] + 1)
      BY <1>1, <1>2
    <3>2. /\ Depth[w] < Depth[w] + 1 /\ Depth[w] < Depth[v] + 1
          /\ Depth[w] + 1 \in Nat /\ Depth[v] + 1 \in Nat
      BY <1>2, <2>2
    <3> HIDE DEF g, h
    <3>3. g[w] = h[w]
      BY <2>1, <3>1, <3>2, OrdersAgree
    <3> QED
      BY <1>3, <3>3 DEF h
  <2>3. g[v] = OrderedOf(g, v)
    BY <1>2, <2>1 DEF OrderedBelow
  <2>4. f[v] = g[v]
    BY <1>3
  <2> HIDE DEF g
  <2>5. OrderedOf(g, v) = OrderedOf(f, v)
    BY <2>2, OrderedLooksBelow
  <2> QED
    BY <2>3, <2>4, <2>5
<1>5. f = [v \in Values |-> OrderedOf(f, v)]
  <2>1. f = [v \in Values |-> f[v]]
    BY DEF f
  <2> QED
    BY <1>4, <2>1
<1>6. Ordered = CHOOSE h : h = [v \in Values |-> OrderedOf(h, v)]
  BY DEF Ordered, OrderedIn, OrderedOf
<1>7. Ordered = [v \in Values |-> OrderedOf(Ordered, v)]
  BY <1>5, <1>6
<1> QED
  BY <1>7

-----------------------------------------------------------------------------------
(* What the other functions on schemas are.                                         *)

\* What a sequence of four parts is made of.
LEMMA ConcatenationsAreUnions ==
  ASSUME NEW U, NEW a \in Seq(U), NEW b \in Seq(U)
  PROVE  a \o b \in Seq(U) /\ ToSet(a \o b) = ToSet(a) \cup ToSet(b)
<1> DEFINE k == Len(a)
           m == Len(b)
           c == a \o b
<1>1. /\ k \in Nat /\ m \in Nat /\ DOMAIN a = 1..k /\ DOMAIN b = 1..m
      /\ c \in Seq(U) /\ DOMAIN c = 1..(k + m)
      /\ \A i \in 1..k : c[i] = a[i]
      /\ \A i \in (k + 1)..(k + m) : c[i] = b[i - k]
  OBVIOUS
<1> HIDE DEF k, m, c
<1>2. 1..(k + m) = 1..k \cup (k + 1)..(k + m)
  BY <1>1
<1>3. \A i \in (k + 1)..(k + m) : i - k \in DOMAIN b
  BY <1>1
<1>4. \A i \in DOMAIN b : i + k \in (k + 1)..(k + m) /\ (i + k) - k = i
  BY <1>1
<1>5. ToSet(c) \subseteq ToSet(a) \cup ToSet(b)
  BY <1>1, <1>2, <1>3 DEF ToSet
<1>6. ToSet(a) \subseteq ToSet(c)
  BY <1>1, <1>2 DEF ToSet
<1>7. ToSet(b) \subseteq ToSet(c)
  <2> SUFFICES ASSUME NEW i \in DOMAIN b PROVE b[i] \in ToSet(c)
    BY DEF ToSet
  <2>1. i + k \in DOMAIN c /\ c[i + k] = b[i]
    BY <1>1, <1>2, <1>4
  <2> QED
    BY <2>1 DEF ToSet
<1> QED
  BY <1>1, <1>5, <1>6, <1>7 DEF c

\* What a schema contains are values of less depth, of one of four kinds.
LEMMA SubschemasAreInner ==
  ASSUME NEW s \in Values
  PROVE  /\ ToSet(Subschemas(s)) = ToSet(At(s, "$defs")) \cup ToSet(Fields(s))
                                     \cup ToSet(Items(s)) \cup ToSet(Branches(s))
         /\ \A w \in ToSet(Subschemas(s)) : w \in Values /\ Depth[w] < Depth[s]
<1>1. Inner(At(s, "$defs"), s)
  <2>1. Inner(<<>>, s)
    BY DEF Inner
  <2> QED
    BY <2>1, KeyIsInner DEF At
<1>2. Inner(Fields(s), s) /\ Inner(Items(s), s) /\ Inner(Branches(s), s)
  BY SchemasAreInner
<1>3. /\ At(s, "$defs") \in Seq(Values) /\ Fields(s) \in Seq(Values)
      /\ Items(s) \in Seq(Values) /\ Branches(s) \in Seq(Values)
  BY <1>1, <1>2 DEF Inner
<1> DEFINE a == At(s, "$defs")
           b == Fields(s)
           c == Items(s)
           d == Branches(s)
<1>4. Subschemas(s) = ((a \o b) \o c) \o d
  BY DEF Subschemas
<1> HIDE DEF a, b, c, d
<1>5. a \in Seq(Values) /\ b \in Seq(Values) /\ c \in Seq(Values) /\ d \in Seq(Values)
  BY <1>3 DEF a, b, c, d
<1> DEFINE ab == a \o b
           abc == ab \o c
<1>6. ab \in Seq(Values) /\ ToSet(ab) = ToSet(a) \cup ToSet(b)
  BY <1>5, ConcatenationsAreUnions
<1> HIDE DEF ab
<1>7. abc \in Seq(Values) /\ ToSet(abc) = ToSet(ab) \cup ToSet(c)
  BY <1>5, <1>6, ConcatenationsAreUnions
<1> HIDE DEF abc
<1>8. ToSet(Subschemas(s)) = ToSet(a) \cup ToSet(b) \cup ToSet(c) \cup ToSet(d)
  <2>1. ToSet(abc \o d) = ToSet(abc) \cup ToSet(d)
    BY <1>5, <1>7, ConcatenationsAreUnions
  <2>2. Subschemas(s) = abc \o d
    BY <1>4 DEF abc, ab
  <2> QED
    BY <1>6, <1>7, <2>1, <2>2
<1>9. \A inner : Inner(inner, s) => \A w \in ToSet(inner) : w \in Values /\ Depth[w] < Depth[s]
  BY DEF Inner, ToSet
<1> QED
  BY <1>1, <1>2, <1>8, <1>9 DEF a, b, c, d

\* Whether v is the same document as others, when f says it of what v is made of.
SameOf(f, v) ==
  [w \in Values |->
     /\ v.kind = w.kind
     /\ v.kind = "num" => SameNumber(v, w)
     /\ v.kind = "list" => /\ Len(v.items) = Len(w.items)
                           /\ \A i \in DOMAIN v.items : f[v.items[i]][w.items[i]]
     /\ v.kind = "dict" => /\ DOMAIN v.at = DOMAIN w.at
                           /\ \A key \in DOMAIN v.at : f[v.at[key]][w.at[key]]
     /\ v.kind \notin {"num", "list", "dict"} => v = w]

\* Whether s is well formed, when f says it of what s contains.
WellFormedOf(f, s) ==
  /\ s.kind = "dict"
  /\ \A key \in {"properties", "$defs"} : Has(s, key) => s.at[key].kind = "dict"
  /\ Has(s, "anyOf") => s.at["anyOf"].kind = "list"
  /\ Has(s, "required") =>
       /\ s.at["required"].kind = "list"
       /\ \A i \in DOMAIN At(s, "required") : At(s, "required")[i].kind = "str"
       /\ IsInjective(At(s, "required"))
  /\ \A inner \in ToSet(Subschemas(s)) : f[inner]

\* Whether the fields of s stand as s requires them.
FieldsFollow(s) ==
  LET names == s.at["properties"].keys
      place(name) == CHOOSE i \in DOMAIN Required(s) : Required(s)[i] = name
  IN  Has(s, "properties") =>
        \A i, j \in DOMAIN names :
          i < j /\ names[j] \in ToSet(Required(s))
            => names[i] \in ToSet(Required(s)) /\ place(names[i]) < place(names[j])

\* Whether all of s stands as s requires it, when f says it of what s contains.
FollowsOf(f, s) == FieldsFollow(s) /\ \A inner \in ToSet(Subschemas(s)) : f[inner]

\* SameJson satisfies its equation.
LEMMA SameJsonUnfolds == \A v \in Values : SameJson[v] = SameOf(SameJson, v)
<1> DEFINE T == [Values -> BOOLEAN]
           D == [f \in [Values -> T] |-> [v \in Values |-> SameOf(f, v)]]
           depth == [v \in Values |-> Depth[v]]
<1>1. depth \in [Values -> Nat] /\ \A v \in Values : depth[v] = Depth[v]
  BY DepthsAreNatural
<1>2. [w \in Values |-> TRUE] \in T
  OBVIOUS
<1>3. ASSUME NEW f \in [Values -> T], NEW v \in Values PROVE SameOf(f, v) \in T
  BY DEF SameOf
<1>4. D \in [[Values -> T] -> [Values -> T]]
  <2> HIDE DEF T
  <2> QED
    BY <1>3
<1>5. ASSUME NEW g \in [Values -> T], NEW h \in [Values -> T], NEW v \in Values,
             \A w \in Values : depth[w] < depth[v] => g[w] = h[w]
      PROVE  D[g][v] = D[h][v]
  <2>1. \A w \in Values : Depth[w] < Depth[v] => g[w] = h[w]
    BY <1>1, <1>5
  <2>2. SameOf(g, v) = SameOf(h, v)
    <3>1. CASE v.kind = "list"
      <4>1. \A i \in DOMAIN v.items : g[v.items[i]] = h[v.items[i]]
        BY <2>1, <3>1, ListIsInner DEF Inner
      <4> QED
        BY <3>1, <4>1 DEF SameOf
    <3>2. CASE v.kind = "dict"
      <4>1. \A key \in DOMAIN v.at : g[v.at[key]] = h[v.at[key]]
        BY <2>1, <3>2, KeyIsInner DEF Has
      <4> QED
        BY <3>2, <4>1 DEF SameOf
    <3>3. CASE v.kind \notin {"list", "dict"}
      BY <3>3 DEF SameOf
    <3> QED
      BY <3>1, <3>2, <3>3
  <2> QED
    BY <2>2
<1> HIDE DEF depth, D, T
<1>6. LooksBelow(D, Values, T, depth)
  BY <1>5 DEF LooksBelow
<1>7. Solvable(D, Values, T)
  BY <1>1, <1>2, <1>4, <1>6, Recursion
<1>8. PICK f \in [Values -> T] : f = [v \in Values |-> SameOf(f, v)]
  BY <1>7 DEF Solvable, D
<1>9. SameJson = CHOOSE h : h = [v \in Values |-> SameOf(h, v)]
  BY DEF SameJson, SameOf
<1>10. SameJson = [v \in Values |-> SameOf(SameJson, v)]
  BY <1>8, <1>9
<1> QED
  BY <1>10

\* WellFormed satisfies its equation.
LEMMA WellFormedUnfolds == \A v \in Values : WellFormed[v] = WellFormedOf(WellFormed, v)
<1> DEFINE T == BOOLEAN
           D == [f \in [Values -> T] |-> [v \in Values |-> WellFormedOf(f, v)]]
           depth == [v \in Values |-> Depth[v]]
<1>1. depth \in [Values -> Nat] /\ \A v \in Values : depth[v] = Depth[v]
  BY DepthsAreNatural
<1>2. TRUE \in T
  OBVIOUS
<1>3. ASSUME NEW f \in [Values -> T], NEW v \in Values PROVE WellFormedOf(f, v) \in T
  BY DEF WellFormedOf
<1>4. D \in [[Values -> T] -> [Values -> T]]
  <2> HIDE DEF T
  <2> QED
    BY <1>3
<1>5. ASSUME NEW g \in [Values -> T], NEW h \in [Values -> T], NEW v \in Values,
             \A w \in Values : depth[w] < depth[v] => g[w] = h[w]
      PROVE  D[g][v] = D[h][v]
  <2>1. \A w \in Values : Depth[w] < Depth[v] => g[w] = h[w]
    BY <1>1, <1>5
  <2>2. \A w \in ToSet(Subschemas(v)) : g[w] = h[w]
    BY <2>1, SubschemasAreInner
  <2>3. WellFormedOf(g, v) = WellFormedOf(h, v)
    BY <2>2 DEF WellFormedOf
  <2> QED
    BY <2>3
<1> HIDE DEF depth, D, T
<1>6. LooksBelow(D, Values, T, depth)
  BY <1>5 DEF LooksBelow
<1>7. Solvable(D, Values, T)
  BY <1>1, <1>2, <1>4, <1>6, Recursion
<1>8. PICK f \in [Values -> T] : f = [v \in Values |-> WellFormedOf(f, v)]
  BY <1>7 DEF Solvable, D
<1>9. WellFormed = CHOOSE h : h = [v \in Values |-> WellFormedOf(h, v)]
  BY DEF WellFormed, WellFormedOf
<1>10. WellFormed = [v \in Values |-> WellFormedOf(WellFormed, v)]
  BY <1>8, <1>9
<1> QED
  BY <1>10

\* FollowsRequired satisfies its equation.
LEMMA FollowsRequiredUnfolds == \A v \in Values : FollowsRequired[v] = FollowsOf(FollowsRequired, v)
<1> DEFINE T == BOOLEAN
           D == [f \in [Values -> T] |-> [v \in Values |-> FollowsOf(f, v)]]
           depth == [v \in Values |-> Depth[v]]
<1>1. depth \in [Values -> Nat] /\ \A v \in Values : depth[v] = Depth[v]
  BY DepthsAreNatural
<1>2. TRUE \in T
  OBVIOUS
<1>3. ASSUME NEW f \in [Values -> T], NEW v \in Values PROVE FollowsOf(f, v) \in T
  BY DEF FollowsOf
<1>4. D \in [[Values -> T] -> [Values -> T]]
  <2> HIDE DEF T
  <2> QED
    BY <1>3
<1>5. ASSUME NEW g \in [Values -> T], NEW h \in [Values -> T], NEW v \in Values,
             \A w \in Values : depth[w] < depth[v] => g[w] = h[w]
      PROVE  D[g][v] = D[h][v]
  <2>1. \A w \in Values : Depth[w] < Depth[v] => g[w] = h[w]
    BY <1>1, <1>5
  <2>2. \A w \in ToSet(Subschemas(v)) : g[w] = h[w]
    BY <2>1, SubschemasAreInner
  <2>3. FollowsOf(g, v) = FollowsOf(h, v)
    BY <2>2 DEF FollowsOf
  <2> QED
    BY <2>3
<1> HIDE DEF depth, D, T
<1>6. LooksBelow(D, Values, T, depth)
  BY <1>5 DEF LooksBelow
<1>7. Solvable(D, Values, T)
  BY <1>1, <1>2, <1>4, <1>6, Recursion
<1>8. PICK f \in [Values -> T] : f = [v \in Values |-> FollowsOf(f, v)]
  BY <1>7 DEF Solvable, D
<1>9. FollowsRequired = CHOOSE h : h = [v \in Values |-> FollowsOf(h, v)]
  BY DEF FollowsRequired, FollowsOf, FieldsFollow
<1>10. FollowsRequired = [v \in Values |-> FollowsOf(FollowsRequired, v)]
  BY <1>8, <1>9
<1> QED
  BY <1>10

-----------------------------------------------------------------------------------
(* What the decoder sees is the admitted schema.                                    *)

\* What a dict is with its keys in order.
LEMMA OrderedDict ==
  ASSUME NEW v \in Values, v.kind = "dict", NEW isSchema \in BOOLEAN
  PROVE  /\ Ordered[v][isSchema].kind = "dict"
         /\ DOMAIN Ordered[v][isSchema].at = DOMAIN v.at
         /\ \A key \in DOMAIN v.at :
              /\ isSchema /\ key \in {"properties", "$defs"} =>
                   Ordered[v][isSchema].at[key] =
                     Dict(FieldOrder(Names(v.at[key]),
                                     IF key = "properties" THEN Required(v) ELSE <<>>),
                          [name \in Names(v.at[key]) |-> Ordered[v.at[key].at[name]][TRUE]])
              /\ isSchema /\ key = "anyOf" =>
                   Ordered[v][isSchema].at[key] =
                     List([i \in DOMAIN Branches(v) |-> Ordered[Branches(v)[i]][TRUE]])
              /\ ~ (isSchema /\ key \in {"properties", "$defs", "anyOf"}) =>
                   Ordered[v][isSchema].at[key] = Ordered[v.at[key]][isSchema /\ key = "items"]
<1> DEFINE Under(key) ==
             CASE isSchema /\ key = "properties"
                    -> Dict(FieldOrder(Names(v.at[key]), Required(v)),
                            [name \in Names(v.at[key]) |-> Ordered[v.at[key].at[name]][TRUE]])
               [] isSchema /\ key = "$defs"
                    -> Dict(FieldOrder(Names(v.at[key]), <<>>),
                            [name \in Names(v.at[key]) |-> Ordered[v.at[key].at[name]][TRUE]])
               [] isSchema /\ key = "anyOf"
                    -> List([i \in DOMAIN Branches(v) |-> Ordered[Branches(v)[i]][TRUE]])
               [] OTHER -> Ordered[v.at[key]][isSchema /\ key = "items"]
<1>1. Ordered[v][isSchema] = OrderedOf(Ordered, v)[isSchema]
  BY OrderedUnfolds
<1>2. OrderedOf(Ordered, v)[isSchema]
        = Dict(SortedKeys(DOMAIN v.at), [key \in DOMAIN v.at |-> Under(key)])
  BY DEF OrderedOf
<1>3. /\ \A key \in DOMAIN v.at : isSchema /\ key = "properties" =>
            Under(key) = Dict(FieldOrder(Names(v.at[key]), Required(v)),
                              [name \in Names(v.at[key]) |-> Ordered[v.at[key].at[name]][TRUE]])
      /\ \A key \in DOMAIN v.at : isSchema /\ key = "$defs" =>
            Under(key) = Dict(FieldOrder(Names(v.at[key]), <<>>),
                              [name \in Names(v.at[key]) |-> Ordered[v.at[key].at[name]][TRUE]])
      /\ \A key \in DOMAIN v.at : isSchema /\ key = "anyOf" =>
            Under(key) = List([i \in DOMAIN Branches(v) |-> Ordered[Branches(v)[i]][TRUE]])
      /\ \A key \in DOMAIN v.at : ~ (isSchema /\ key \in {"properties", "$defs", "anyOf"}) =>
            Under(key) = Ordered[v.at[key]][isSchema /\ key = "items"]
  OBVIOUS
<1> HIDE DEF Under
<1>4. /\ Ordered[v][isSchema].kind = "dict"
      /\ DOMAIN Ordered[v][isSchema].at = DOMAIN v.at
      /\ \A key \in DOMAIN v.at : Ordered[v][isSchema].at[key] = Under(key)
  BY <1>1, <1>2 DEF Dict
<1> QED
  BY <1>3, <1>4

\* What any other value is with its keys in order.
LEMMA OrderedOther ==
  ASSUME NEW v \in Values, NEW isSchema \in BOOLEAN
  PROVE  /\ v.kind = "list" =>
              Ordered[v][isSchema] = List([i \in DOMAIN v.items |-> Ordered[v.items[i]][FALSE]])
         /\ v.kind \notin {"list", "dict"} => Ordered[v][isSchema] = v
<1>1. Ordered[v][isSchema] = OrderedOf(Ordered, v)[isSchema]
  BY OrderedUnfolds
<1> QED
  BY <1>1 DEF OrderedOf

\* Two dicts are the same document when they have the same keys and the same under each.
LEMMA SameDicts ==
  ASSUME NEW v \in Values, NEW w \in Values, v.kind = "dict", w.kind = "dict",
         DOMAIN v.at = DOMAIN w.at, \A key \in DOMAIN v.at : SameJson[v.at[key]][w.at[key]]
  PROVE  SameJson[v][w]
<1>1. SameJson[v] = SameOf(SameJson, v)
  BY SameJsonUnfolds
<1> QED
  BY <1>1 DEF SameOf

\* Two lists are the same document when their items are.
LEMMA SameLists ==
  ASSUME NEW v \in Values, NEW w \in Values, v.kind = "list", w.kind = "list",
         Len(v.items) = Len(w.items), \A i \in DOMAIN v.items : SameJson[v.items[i]][w.items[i]]
  PROVE  SameJson[v][w]
<1>1. SameJson[v] = SameOf(SameJson, v)
  BY SameJsonUnfolds
<1> QED
  BY <1>1 DEF SameOf

\* A value without parts is the same document as itself.
LEMMA SameScalars ==
  ASSUME NEW v \in Values, v.kind \notin {"list", "dict"}
  PROVE  SameJson[v][v]
<1>1. SameJson[v] = SameOf(SameJson, v)
  BY SameJsonUnfolds
<1>2. SameNumber(v, v)
  BY DEF SameNumber
<1> QED
  BY <1>1, <1>2 DEF SameOf

\* Every value is the same document as itself.
LEMMA SameItself == \A v \in Values : SameJson[v][v]
<1> DEFINE S == {v \in Values : SameJson[v][v]}
<1>1. ASSUME NEW v \in Values, \A w \in Values : Depth[w] < Depth[v] => w \in S
      PROVE  v \in S
  <2>1. CASE v.kind = "list"
    <3>1. \A i \in DOMAIN v.items : SameJson[v.items[i]][v.items[i]]
      BY <1>1, <2>1, ListIsInner DEF Inner
    <3> QED
      BY <2>1, <3>1, SameLists
  <2>2. CASE v.kind = "dict"
    <3>1. \A key \in DOMAIN v.at : SameJson[v.at[key]][v.at[key]]
      BY <1>1, <2>2, KeyIsInner DEF Has
    <3> QED
      BY <2>2, <3>1, SameDicts
  <2>3. CASE v.kind \notin {"list", "dict"}
    BY <2>3, SameScalars
  <2> QED
    BY <2>1, <2>2, <2>3
<1> HIDE DEF S
<1>2. Values \subseteq S
  BY <1>1, DepthInduction
<1> QED
  BY <1>2 DEF S

\* What a well-formed schema contains is well formed.
LEMMA WellFormedInside ==
  ASSUME NEW s \in Values, WellFormed[s]
  PROVE  /\ s.kind = "dict"
         /\ \A key \in {"properties", "$defs"} : Has(s, key) => s.at[key].kind = "dict"
         /\ Has(s, "anyOf") => s.at["anyOf"].kind = "list"
         /\ Has(s, "required") =>
              /\ s.at["required"].kind = "list"
              /\ \A i \in DOMAIN At(s, "required") : At(s, "required")[i].kind = "str"
              /\ IsInjective(At(s, "required"))
         /\ \A w \in ToSet(Subschemas(s)) : WellFormed[w]
<1>1. WellFormed[s] = WellFormedOf(WellFormed, s)
  BY WellFormedUnfolds
<1> QED
  BY <1>1 DEF WellFormedOf

\* The fields, the definitions, the items and the branches of a schema are what it contains.
LEMMA WhatSchemasContain ==
  ASSUME NEW s \in Values, s.kind = "dict"
  PROVE  /\ \A key \in {"properties", "$defs"} \cap DOMAIN s.at : \A name \in Names(s.at[key]) :
              s.at[key].at[name] \in ToSet(Subschemas(s))
         /\ \A i \in DOMAIN Branches(s) : Branches(s)[i] \in ToSet(Subschemas(s))
         /\ "items" \in DOMAIN s.at => s.at["items"] \in ToSet(Subschemas(s))
<1>1. ToSet(Subschemas(s)) = ToSet(At(s, "$defs")) \cup ToSet(Fields(s))
                              \cup ToSet(Items(s)) \cup ToSet(Branches(s))
  BY SubschemasAreInner
<1>2. ASSUME NEW key \in DOMAIN s.at, NEW name \in Names(s.at[key])
      PROVE  s.at[key].at[name] \in ToSet(At(s, key))
  <2> DEFINE d == s.at[key]
  <2>1. d \in Values
    BY KeyIsInner DEF Has
  <2>2. d.kind = "dict" /\ name \in DOMAIN d.at
    BY DEF Names
  <2>3. d.keys \in Seq(STRING) /\ DOMAIN d.at = ToSet(d.keys)
    BY <2>1, <2>2, ValuesAssumption
  <2>4. PICK i \in DOMAIN d.keys : d.keys[i] = name
    BY <2>2, <2>3 DEF ToSet
  <2>5. Parts(d) = [j \in DOMAIN d.keys |-> d.at[d.keys[j]]]
    BY <2>2 DEF Parts
  <2>6. At(s, key) = Parts(d)
    BY DEF At, Has
  <2> HIDE DEF d
  <2>7. i \in DOMAIN At(s, key) /\ At(s, key)[i] = d.at[name]
    BY <2>4, <2>5, <2>6
  <2> QED
    BY <2>7 DEF ToSet, d
<1>3. \A i \in DOMAIN Branches(s) : Branches(s)[i] \in ToSet(Branches(s))
  BY DEF ToSet
<1>4. "items" \in DOMAIN s.at => s.at["items"] \in ToSet(Items(s))
  <2> SUFFICES ASSUME "items" \in DOMAIN s.at PROVE s.at["items"] \in ToSet(Items(s))
    OBVIOUS
  <2>1. Items(s) = <<s.at["items"]>>
    BY DEF Items, Has
  <2>2. 1 \in DOMAIN Items(s) /\ Items(s)[1] = s.at["items"]
    BY <2>1
  <2> QED
    BY <2>2 DEF ToSet
<1> QED
  BY <1>1, <1>2, <1>3, <1>4 DEF Fields

\* Two sequences with the same positions are as long.
LEMMA SameLength ==
  ASSUME NEW S, NEW s \in Seq(S), NEW t \in Seq(S), DOMAIN s = DOMAIN t
  PROVE  Len(s) = Len(t)
<1>1. Len(s) \in Nat /\ Len(t) \in Nat /\ 1..Len(s) = 1..Len(t)
  OBVIOUS
<1> QED
  BY <1>1

\* With its keys in order, a value is the same document as before: as data, and as a schema
\* if it is a well-formed one.
SameInOrder(v) ==
  \A isSchema \in BOOLEAN :
    (isSchema => WellFormed[v]) => SameJson[Ordered[v][isSchema]][v]

\* It is when all of less depth is.
LEMMA SameInOrderStep ==
  ASSUME NEW v \in Values, \A w \in Values : Depth[w] < Depth[v] => SameInOrder(w)
  PROVE  SameInOrder(v)
<1> SUFFICES ASSUME NEW isSchema \in BOOLEAN, isSchema => WellFormed[v]
             PROVE  SameJson[Ordered[v][isSchema]][v]
  BY DEF SameInOrder
<1> DEFINE o == Ordered[v][isSchema]
<1>1. o \in Values
  BY OrderAssumption
<1>2. CASE v.kind = "list"
  <2>1. o = List([i \in DOMAIN v.items |-> Ordered[v.items[i]][FALSE]])
    BY <1>2, OrderedOther
  <2>2. v.items \in Seq(Values)
    BY <1>2, ListIsInner DEF Inner
  <2>3. /\ o.kind = "list" /\ Len(o.items) = Len(v.items) /\ DOMAIN o.items = DOMAIN v.items
        /\ \A i \in DOMAIN v.items : o.items[i] = Ordered[v.items[i]][FALSE]
    <3> HIDE DEF o
    <3>1. o.kind = "list" /\ o.items = [i \in DOMAIN v.items |-> Ordered[v.items[i]][FALSE]]
      BY <2>1 DEF List
    <3>2. o.items \in Seq(Values) /\ DOMAIN o.items = DOMAIN v.items
      BY <1>1, <3>1, ListIsInner DEF Inner
    <3>3. Len(o.items) = Len(v.items)
      BY <2>2, <3>2, SameLength
    <3> QED
      BY <3>1, <3>2, <3>3
  <2>4. ASSUME NEW i \in DOMAIN v.items PROVE SameJson[o.items[i]][v.items[i]]
    <3>1. SameInOrder(v.items[i])
      BY <1>2, ListIsInner DEF Inner
    <3> QED
      BY <2>3, <3>1 DEF SameInOrder
  <2> QED
    BY <1>1, <1>2, <2>3, <2>4, SameLists
<1>3. CASE v.kind = "dict"
  <2>1. o.kind = "dict" /\ DOMAIN o.at = DOMAIN v.at
    BY <1>3, OrderedDict
  <2>2. ASSUME NEW key \in DOMAIN v.at PROVE SameJson[o.at[key]][v.at[key]]
    <3> DEFINE d == v.at[key]
               e == o.at[key]
    <3>1. d \in Values /\ Depth[d] < Depth[v] /\ e \in Values
      BY <1>1, <1>3, <2>1, KeyIsInner DEF Has
    <3>2. CASE isSchema /\ key \in {"properties", "$defs"}
      <4>1. d.kind = "dict"
        BY <1>3, <3>2, WellFormedInside DEF Has
      <4>2. e = Dict(FieldOrder(Names(d), IF key = "properties" THEN Required(v) ELSE <<>>),
                     [name \in Names(d) |-> Ordered[d.at[name]][TRUE]])
        BY <1>3, <3>2, OrderedDict
      <4>3. Names(d) = DOMAIN d.at
        BY <4>1 DEF Names
      <4> HIDE DEF d, e
      <4>4. /\ e.kind = "dict" /\ DOMAIN e.at = DOMAIN d.at
            /\ \A name \in DOMAIN d.at : e.at[name] = Ordered[d.at[name]][TRUE]
        BY <4>2, <4>3 DEF Dict
      <4>5. ASSUME NEW name \in DOMAIN d.at PROVE SameJson[e.at[name]][d.at[name]]
        <5>1. d.at[name] \in ToSet(Subschemas(v))
          BY <1>3, <3>2, <4>3, WhatSchemasContain DEF d
        <5>2. SameInOrder(d.at[name]) /\ WellFormed[d.at[name]]
          BY <3>2, <5>1, SubschemasAreInner, WellFormedInside
        <5> QED
          BY <4>4, <5>2 DEF SameInOrder
      <4>6. SameJson[e][d]
        BY <3>1, <4>1, <4>4, <4>5, SameDicts
      <4> QED
        BY <4>6 DEF d, e
    <3>3. CASE isSchema /\ key = "anyOf"
      <4>1. d.kind = "list"
        BY <1>3, <3>3, WellFormedInside DEF Has
      <4>2. Branches(v) = d.items
        BY <1>3, <3>3, <4>1 DEF Branches, At, Has, Parts
      <4>3. e = List([i \in DOMAIN d.items |-> Ordered[d.items[i]][TRUE]])
        <5>1. e = List([i \in DOMAIN Branches(v) |-> Ordered[Branches(v)[i]][TRUE]])
          BY <1>3, <3>3, OrderedDict
        <5> HIDE DEF d, e
        <5> QED
          BY <4>2, <5>1
      <4> HIDE DEF d, e
      <4>4. d.items \in Seq(Values)
        BY <3>1, <4>1, ListIsInner DEF Inner
      <4>5. /\ e.kind = "list" /\ Len(e.items) = Len(d.items) /\ DOMAIN e.items = DOMAIN d.items
            /\ \A i \in DOMAIN d.items : e.items[i] = Ordered[d.items[i]][TRUE]
        <5>1. e.kind = "list" /\ e.items = [i \in DOMAIN d.items |-> Ordered[d.items[i]][TRUE]]
          BY <4>3 DEF List
        <5>2. e.items \in Seq(Values) /\ DOMAIN e.items = DOMAIN d.items
          BY <3>1, <5>1, ListIsInner DEF Inner
        <5>3. Len(e.items) = Len(d.items)
          BY <4>4, <5>2, SameLength
        <5> QED
          BY <5>1, <5>2, <5>3
      <4>6. ASSUME NEW i \in DOMAIN d.items PROVE SameJson[e.items[i]][d.items[i]]
        <5>1. d.items[i] \in ToSet(Subschemas(v))
          BY <1>3, <4>2, WhatSchemasContain
        <5>2. SameInOrder(d.items[i]) /\ WellFormed[d.items[i]]
          BY <3>3, <5>1, SubschemasAreInner, WellFormedInside
        <5> QED
          BY <4>5, <5>2 DEF SameInOrder
      <4>7. SameJson[e][d]
        BY <3>1, <4>1, <4>5, <4>6, SameLists
      <4> QED
        BY <4>7 DEF d, e
    <3>4. CASE ~ (isSchema /\ key \in {"properties", "$defs", "anyOf"})
      <4>1. e = Ordered[d][isSchema /\ key = "items"]
        BY <1>3, <3>4, OrderedDict
      <4>2. SameInOrder(d)
        BY <3>1
      <4>3. isSchema /\ key = "items" => WellFormed[d]
        BY <1>3, SubschemasAreInner, WellFormedInside, WhatSchemasContain
      <4> HIDE DEF d, e
      <4>4. (isSchema /\ key = "items") \in BOOLEAN
        OBVIOUS
      <4> QED
        BY <4>1, <4>2, <4>3, <4>4 DEF SameInOrder, d, e
    <3> QED
      BY <3>2, <3>3, <3>4
  <2> QED
    BY <1>1, <1>3, <2>1, <2>2, SameDicts
<1>4. CASE v.kind \notin {"list", "dict"}
  <2>1. o = v
    BY <1>4, OrderedOther
  <2> QED
    BY <1>4, <2>1, SameScalars
<1> QED
  BY <1>2, <1>3, <1>4

\* Every value is the same document with its keys in order.
LEMMA OrderedIsTheSame == \A v \in Values : SameInOrder(v)
<1> DEFINE S == {v \in Values : SameInOrder(v)}
<1>1. ASSUME NEW v \in Values, \A w \in Values : Depth[w] < Depth[v] => w \in S
      PROVE  v \in S
  BY <1>1, SameInOrderStep
<1> HIDE DEF S
<1>2. Values \subseteq S
  BY <1>1, DepthInduction
<1> QED
  BY <1>2 DEF S

-----------------------------------------------------------------------------------
(* What the decoder sees stands in the required order.                              *)

\* What a well-formed schema requires are names, each once, and ordering keeps them.
LEMMA RequiredStays ==
  ASSUME NEW s \in Values, WellFormed[s]
  PROVE  /\ Required(s) \in Seq(STRING) /\ IsInjective(Required(s))
         /\ Required(Ordered[s][TRUE]) = Required(s)
<1> DEFINE o == Ordered[s][TRUE]
           names == At(s, "required")
<1>1. s.kind = "dict" /\ o.kind = "dict" /\ DOMAIN o.at = DOMAIN s.at
  BY WellFormedInside, OrderedDict
<1>2. CASE ~ Has(s, "required")
  <2>1. names = <<>> /\ At(o, "required") = <<>>
    BY <1>1, <1>2 DEF At, Has
  <2>2. Required(s) = <<>> /\ Required(o) = <<>>
    <3>1. \A x : At(x, "required") = <<>> => Required(x) = <<>>
      <4> SUFFICES ASSUME NEW x, At(x, "required") = <<>> PROVE Required(x) = <<>>
        OBVIOUS
      <4>1. Required(x) = [i \in DOMAIN <<>> |-> <<>>[i].text]
        BY DEF Required
      <4> QED
        BY <4>1
    <3> QED
      BY <2>1, <3>1
  <2>3. <<>> \in Seq(STRING) /\ IsInjective(<<>>)
    BY DEF IsInjective
  <2> QED
    BY <2>2, <2>3
<1>3. CASE Has(s, "required")
  <2> DEFINE d == s.at["required"]
  <2>1. /\ d \in Values /\ d.kind = "list" /\ Inner(names, s)
        /\ \A i \in DOMAIN names : names[i].kind = "str"
        /\ IsInjective(names)
    BY <1>3, KeyIsInner, WellFormedInside DEF At
  <2>2. names = d.items
    BY <1>3, <2>1 DEF At, Parts
  <2>3. o.at["required"] = Ordered[d][FALSE]
    BY <1>1, <1>3, OrderedDict DEF Has
  <2>4. Ordered[d][FALSE] = List([i \in DOMAIN d.items |-> Ordered[d.items[i]][FALSE]])
    BY <2>1, OrderedOther
  <2>5. Has(o, "required")
    BY <1>1, <1>3 DEF Has
  <2>6. At(o, "required") = Parts(o.at["required"])
    BY <2>5 DEF At
  <2> HIDE DEF o, names, d
  <2>7. names \in Seq(Values) /\ \A i \in DOMAIN names : names[i] \in Values
    BY <2>1 DEF Inner
  <2>8. \A i \in DOMAIN names : Ordered[names[i]][FALSE] = names[i]
    BY <2>1, <2>7, OrderedOther
  <2>9. [i \in DOMAIN names |-> Ordered[names[i]][FALSE]] = names
    <3>1. names = [i \in DOMAIN names |-> names[i]]
      BY <2>7
    <3>2. [i \in DOMAIN names |-> Ordered[names[i]][FALSE]] = [i \in DOMAIN names |-> names[i]]
      BY <2>8
    <3> QED
      BY <3>1, <3>2
  <2>10. o.at["required"] = List(names)
    BY <2>2, <2>3, <2>4, <2>9
  <2>11. Parts(List(names)) = names
    BY DEF Parts, List
  <2>12. Required(o) = Required(s)
    BY <2>6, <2>10, <2>11 DEF Required, names
  <2>13. \A i \in DOMAIN names : names[i].text \in STRING /\ names[i] = Str(names[i].text)
    BY <2>1, <2>7, ValuesAssumption
  <2>14. Required(s) = [i \in DOMAIN names |-> names[i].text]
    BY DEF Required, names
  <2>15. Required(s) \in Seq(STRING)
    BY <2>7, <2>13, <2>14
  <2>16. IsInjective(Required(s))
    <3> SUFFICES ASSUME NEW i \in DOMAIN names, NEW j \in DOMAIN names,
                        names[i].text = names[j].text
                 PROVE  i = j
      BY <2>14 DEF IsInjective
    <3>1. names[i] = names[j]
      BY <2>13
    <3> QED
      BY <2>1, <3>1 DEF IsInjective
  <2> QED
    BY <2>12, <2>15, <2>16 DEF o
<1> QED
  BY <1>2, <1>3

PlaceIn(required, name) == CHOOSE i \in DOMAIN required : required[i] = name

\* The fields of a well-formed schema follow its requirements when in order.
LEMMA OrderedFieldsFollow ==
  ASSUME NEW s \in Values, WellFormed[s]
  PROVE  FieldsFollow(Ordered[s][TRUE])
<1> DEFINE o == Ordered[s][TRUE]
           required == Required(s)
           names == o.at["properties"].keys
<1>1. required \in Seq(STRING) /\ IsInjective(required) /\ Required(o) = required
  BY RequiredStays
<1>2. s.kind = "dict" /\ o.kind = "dict" /\ DOMAIN o.at = DOMAIN s.at
  BY WellFormedInside, OrderedDict
<1>0. FieldsFollow(o) = (Has(o, "properties") =>
         \A i, j \in DOMAIN names :
           i < j /\ names[j] \in ToSet(Required(o))
             => /\ names[i] \in ToSet(Required(o))
                /\ PlaceIn(Required(o), names[i]) < PlaceIn(Required(o), names[j]))
  BY DEF FieldsFollow, PlaceIn
<1>3. SUFFICES ASSUME Has(o, "properties"), NEW i \in DOMAIN names, NEW j \in DOMAIN names,
                      i < j, names[j] \in ToSet(required)
               PROVE  names[i] \in ToSet(required) /\ PlaceIn(required, names[i]) < PlaceIn(required, names[j])
  BY <1>0, <1>1
<1> DEFINE d == s.at["properties"]
<1>4. Has(s, "properties") /\ d \in Values
  BY <1>2, <1>3, KeyIsInner DEF Has
<1>5. names = FieldOrder(Names(d), required)
  <2>1. o.at["properties"] =
          Dict(FieldOrder(Names(d), required), [name \in Names(d) |-> Ordered[d.at[name]][TRUE]])
    BY <1>2, <1>4, OrderedDict DEF Has
  <2> QED
    BY <2>1 DEF Dict
<1>6. Names(d) \subseteq ToSet(KeyOrder)
  BY <1>4, KeyOrderAssumption DEF Names
<1> HIDE DEF o, d, required, names
<1>7. RequiredFirst(names, required)
  BY <1>1, <1>5, <1>6, FieldOrderIsRight
<1>8. PICK p \in DOMAIN required, q \in DOMAIN required :
        p < q /\ names[i] = required[p] /\ names[j] = required[q]
  BY <1>3, <1>7 DEF RequiredFirst
<1>9. PlaceIn(required, required[p]) = p /\ PlaceIn(required, required[q]) = q
  BY <1>1, <1>8 DEF IsInjective, PlaceIn
<1>10. names[i] \in ToSet(required)
  BY <1>8 DEF ToSet
<1> QED
  BY <1>8, <1>9, <1>10

\* What an ordered schema contains is what the schema contains, in order.
LEMMA OrderedInside ==
  ASSUME NEW s \in Values, WellFormed[s], NEW x \in ToSet(Subschemas(Ordered[s][TRUE]))
  PROVE  \E y \in ToSet(Subschemas(s)) : x = Ordered[y][TRUE]
<1> DEFINE o == Ordered[s][TRUE]
<1>1. s.kind = "dict" /\ o.kind = "dict" /\ DOMAIN o.at = DOMAIN s.at /\ o \in Values
  BY WellFormedInside, OrderedDict, OrderAssumption
<1>2. ToSet(Subschemas(o)) = ToSet(At(o, "$defs")) \cup ToSet(Fields(o))
                              \cup ToSet(Items(o)) \cup ToSet(Branches(o))
  BY <1>1, SubschemasAreInner
<1>3. ASSUME NEW key \in {"properties", "$defs"}, x \in ToSet(At(o, key))
      PROVE  \E y \in ToSet(Subschemas(s)) : x = Ordered[y][TRUE]
  <2> DEFINE d == s.at[key]
             e == o.at[key]
  <2>1. Has(o, key) /\ Has(s, key)
    <3>1. ~ Has(o, key) => ToSet(At(o, key)) = {}
      BY DEF At, ToSet
    <3> QED
      BY <1>1, <1>3, <3>1 DEF Has
  <2>2. At(o, key) = Parts(e) /\ e \in Values
    BY <1>1, <2>1, KeyIsInner DEF At
  <2>3. \E order : e = Dict(order, [name \in Names(d) |-> Ordered[d.at[name]][TRUE]])
    <3>1. key \in DOMAIN s.at
      BY <2>1 DEF Has
    <3>2. e = Dict(FieldOrder(Names(d), IF key = "properties" THEN Required(s) ELSE <<>>),
                   [name \in Names(d) |-> Ordered[d.at[name]][TRUE]])
      BY <1>1, <1>3, <3>1, OrderedDict
    <3> QED
      BY <3>2
  <2>4. \A name \in Names(d) : d.at[name] \in ToSet(Subschemas(s))
    BY <1>1, <2>1, WhatSchemasContain DEF Has
  <2> HIDE DEF d, e
  <2>5. /\ e.kind = "dict" /\ DOMAIN e.at = Names(d)
        /\ \A name \in Names(d) : e.at[name] = Ordered[d.at[name]][TRUE]
    BY <2>3 DEF Dict
  <2>6. DOMAIN e.at = ToSet(e.keys)
    BY <2>2, <2>5, ValuesAssumption
  <2>7. Parts(e) = [i \in DOMAIN e.keys |-> e.at[e.keys[i]]]
    BY <2>5 DEF Parts
  <2>8. PICK i \in DOMAIN e.keys : x = e.at[e.keys[i]]
    BY <1>3, <2>2, <2>7 DEF ToSet
  <2>9. e.keys[i] \in Names(d)
    BY <2>5, <2>6 DEF ToSet
  <2> QED
    BY <2>4, <2>5, <2>8, <2>9
<1>4. ASSUME x \in ToSet(Items(o))
      PROVE  \E y \in ToSet(Subschemas(s)) : x = Ordered[y][TRUE]
  <2>1. "items" \in DOMAIN s.at /\ x = o.at["items"]
    <3>1. ~ Has(o, "items") => ToSet(Items(o)) = {}
      BY DEF Items, ToSet
    <3>2. Has(o, "items")
      BY <1>4, <3>1
    <3>3. Items(o) = <<o.at["items"]>>
      BY <3>2 DEF Items
    <3>4. ToSet(<<o.at["items"]>>) = {o.at["items"]}
      <4> HIDE DEF o
      <4> QED
        BY DEF ToSet
    <3> QED
      BY <1>1, <1>4, <3>2, <3>3, <3>4 DEF Has
  <2>2. o.at["items"] = Ordered[s.at["items"]][TRUE]
    BY <1>1, <2>1, OrderedDict
  <2> QED
    BY <1>1, <2>1, <2>2, WhatSchemasContain
<1>5. ASSUME x \in ToSet(Branches(o))
      PROVE  \E y \in ToSet(Subschemas(s)) : x = Ordered[y][TRUE]
  <2>1. Has(o, "anyOf")
    <3>1. ~ Has(o, "anyOf") => ToSet(Branches(o)) = {}
      BY DEF Branches, At, ToSet
    <3> QED
      BY <1>5, <3>1
  <2>2. o.at["anyOf"] = List([i \in DOMAIN Branches(s) |-> Ordered[Branches(s)[i]][TRUE]])
    BY <1>1, <2>1, OrderedDict DEF Has
  <2>3. Branches(o) = [i \in DOMAIN Branches(s) |-> Ordered[Branches(s)[i]][TRUE]]
    <3>1. Branches(o) = Parts(o.at["anyOf"])
      BY <2>1 DEF Branches, At
    <3>2. \A items : Parts(List(items)) = items
      BY DEF Parts, List
    <3> QED
      BY <2>2, <3>1, <3>2
  <2>4. PICK i \in DOMAIN Branches(s) : x = Ordered[Branches(s)[i]][TRUE]
    BY <1>5, <2>3 DEF ToSet
  <2> QED
    BY <1>1, <2>4, WhatSchemasContain
<1> QED
  BY <1>2, <1>3, <1>4, <1>5 DEF Fields

\* A well-formed schema in order follows its requirements throughout.
LEMMA OrderedFollows ==
  \A s \in Values : WellFormed[s] => FollowsRequired[Ordered[s][TRUE]]
<1> DEFINE S == {s \in Values : WellFormed[s] => FollowsRequired[Ordered[s][TRUE]]}
<1>1. ASSUME NEW s \in Values, \A w \in Values : Depth[w] < Depth[s] => w \in S
      PROVE  s \in S
  <2> SUFFICES ASSUME WellFormed[s] PROVE FollowsRequired[Ordered[s][TRUE]]
    OBVIOUS
  <2> DEFINE o == Ordered[s][TRUE]
  <2>1. o \in Values
    BY OrderAssumption
  <2>2. ASSUME NEW x \in ToSet(Subschemas(o)) PROVE FollowsRequired[x]
    <3>1. PICK y \in ToSet(Subschemas(s)) : x = Ordered[y][TRUE]
      BY OrderedInside
    <3>2. y \in Values /\ Depth[y] < Depth[s] /\ WellFormed[y]
      BY SubschemasAreInner, WellFormedInside
    <3> QED
      BY <1>1, <3>1, <3>2
  <2>3. FieldsFollow(o)
    BY OrderedFieldsFollow
  <2>4. FollowsRequired[o] = FollowsOf(FollowsRequired, o)
    BY <2>1, FollowsRequiredUnfolds
  <2> QED
    BY <2>2, <2>3, <2>4 DEF FollowsOf
<1> HIDE DEF S
<1>2. Values \subseteq S
  BY <1>1, DepthInduction
<1> QED
  BY <1>2 DEF S

\* What a worker's decoder sees of an admitted schema is the same document, its fields in
\* the order the document requires where the order counts (decoder_schema), for every set
\* of documents.
THEOREM DecoderSeesTheSchema == Writes => []DecoderFollowsSchema
<1>1. ASSUME sent \in Values PROVE DecoderFollowsSchema
  <2> SUFFICES ASSUME Admitted(sent), NEW t \in Tasks
               PROVE  /\ SameJson[DecoderSchema(sent, t)][sent]
                      /\ UsesFieldOrder(sent, t) => FollowsRequired[DecoderSchema(sent, t)]
    BY DEF DecoderFollowsSchema
  <2>1. WellFormed[sent]
    BY DEF Admitted
  <2>2. SameJson[Ordered[sent][TRUE]][sent] /\ FollowsRequired[Ordered[sent][TRUE]]
    <3>1. SameInOrder(sent)
      BY <1>1, OrderedIsTheSame
    <3>2. SameJson[Ordered[sent][TRUE]][sent]
      BY <2>1, <3>1 DEF SameInOrder
    <3> QED
      BY <1>1, <2>1, <3>2, OrderedFollows
  <2>3. SameJson[sent][sent]
    BY <1>1, SameItself
  <2> QED
    BY <2>2, <2>3 DEF DecoderSchema
<1>2. Writes => [](sent \in Values)
  <2>1. sent \in Values /\ [sent' \in Values]_sent => (sent \in Values)'
    OBVIOUS
  <2> QED
    BY <2>1, PTL DEF Writes
<1> QED
  BY <1>1, <1>2, PTL
===================================================================================
