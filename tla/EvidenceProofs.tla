--------------------------- MODULE EvidenceProofs ---------------------------
(***************************************************************************)
(* What is concluded from measurements: the verdicts of a gate             *)
(* (GateVerdict) and the drift of a run (QualityDrift), for every score,   *)
(* policy and parameter.  Both rest on order statistics, and the verdicts  *)
(* on sums, of any number of values; the lemmas on these come first.       *)
(***************************************************************************)
EXTENDS GateVerdict, QualityDrift, FiniteSetTheorems, WellFoundedInduction, TLAPS

-----------------------------------------------------------------------------
(* Least counterexamples.                                                  *)

(* A family of finite sets has a smallest member: the induction the proofs *)
(* below rest on, by which a statement that fails of some finite set fails *)
(* of one of whose parts it holds.                                         *)
LEMMA SmallestOf ==
    ASSUME NEW F, \A T \in F : IsFiniteSet(T), F # {}
    PROVE  \E T \in F : \A U \in F : U \subseteq T => U = T
<1> DEFINE All == UNION F
           R == StrictSubsetOrdering(All)
<1>1. IsWellFoundedOn(R, FiniteSubsetsOf(All))
  BY FS_StrictSubsetOrderingWellFounded
<1>2. F \subseteq FiniteSubsetsOf(All)
  BY DEF FiniteSubsetsOf
<1>3. PICK T \in F : \A U \in F : ~ (<<U, T>> \in R)
  <2> HIDE DEF R, All
  <2>. QED  BY <1>1, <1>2, WFMin
<1>4. \A U \in F : U \subseteq T => U = T
  BY <1>3 DEF StrictSubsetOrdering
<1>. QED  BY <1>4

(* A finite set of integers has a largest element, and a least.            *)
LEMMA LargestElement ==
    ASSUME NEW S \in SUBSET Int, IsFiniteSet(S), S # {}
    PROVE  \E x \in S : \A y \in S : y <= x
<1> DEFINE Over(x) == {y \in S : y > x}
           F == {Over(x) : x \in S}
<1>1. \A x, y \in S : y > x => Over(y) \subseteq Over(x)
  <2>1. \A x, y, z \in S : y > x /\ z > y => z > x
    OBVIOUS
  <2>. QED  BY <2>1
<1>2. \A x \in S : IsFiniteSet(Over(x))
  BY FS_Subset
<1>3. PICK T \in F : \A U \in F : U \subseteq T => U = T
  <2>1. (\A T \in F : IsFiniteSet(T)) /\ F # {}
    BY <1>2
  <2> HIDE DEF F
  <2>. QED  BY <2>1, SmallestOf
<1>4. PICK x \in S : T = Over(x)
  BY <1>3
<1>5. ASSUME NEW y \in S, y > x PROVE FALSE
  <2>1. Over(y) \subseteq Over(x)
    BY <1>1, <1>5
  <2>2. y \in Over(x) /\ y \notin Over(y)
    BY <1>5
  <2>. QED  BY <1>3, <1>4, <2>1, <2>2
<1>. QED  BY <1>5

LEMMA SmallestElement ==
    ASSUME NEW S \in SUBSET Int, IsFiniteSet(S), S # {}
    PROVE  \E x \in S : \A y \in S : x <= y
<1> DEFINE Below(x) == {y \in S : y < x}
           F == {Below(x) : x \in S}
<1>1. \A x, y \in S : y < x => Below(y) \subseteq Below(x)
  <2>1. \A x, y, z \in S : y < x /\ z < y => z < x
    OBVIOUS
  <2>. QED  BY <2>1
<1>2. \A x \in S : IsFiniteSet(Below(x))
  BY FS_Subset
<1>3. PICK T \in F : \A U \in F : U \subseteq T => U = T
  <2>1. (\A T \in F : IsFiniteSet(T)) /\ F # {}
    BY <1>2
  <2> HIDE DEF F
  <2>. QED  BY <2>1, SmallestOf
<1>4. PICK x \in S : T = Below(x)
  BY <1>3
<1>5. ASSUME NEW y \in S, y < x PROVE FALSE
  <2>1. Below(y) \subseteq Below(x)
    BY <1>1, <1>5
  <2>2. y \in Below(x) /\ y \notin Below(y)
    BY <1>5
  <2>. QED  BY <1>3, <1>4, <2>1, <2>2
<1>. QED  BY <1>5

(* So has any set of natural numbers a least one.                          *)
LEMMA LeastNumber ==
    ASSUME NEW S \in SUBSET Nat, S # {}
    PROVE  \E m \in S : \A n \in S : m <= n
<1>1. PICK k \in S : TRUE
  OBVIOUS
<1>2. IsFiniteSet(S \cap 0 .. k)
  <2>1. IsFiniteSet(0 .. k)
    BY FS_Interval
  <2>. QED  BY <2>1, FS_Subset
<1>3. k \in S \cap 0 .. k
  OBVIOUS
<1>4. PICK m \in S \cap 0 .. k : \A n \in S \cap 0 .. k : m <= n
  BY <1>2, <1>3, SmallestElement
<1>. QED  BY <1>4

(* Finitely many arguments have finitely many values.                      *)
LEMMA SurjectionOnto ==
    ASSUME NEW D, IsFiniteSet(D), NEW f
    PROVE  IsFiniteSet({f[i] : i \in D})
<1> DEFINE g == [i \in D |-> f[i]]
           V == {f[i] : i \in D}
<1>1. g \in Surjection(D, V)
  BY DEF Surjection
<1>2. IsFiniteSet(V)
  <2> HIDE DEF g, V
  <2>. QED  BY <1>1, FS_Surjection
<1>. QED  BY <1>2

-----------------------------------------------------------------------------
(* Order statistics.                                                       *)

(* Where the values of f on D are at most, or below, v.                    *)
AtMost(f, D, v) == {i \in D : f[i] <= v}
Below(f, D, v) == {i \in D : f[i] < v}

(* v is the k-th smallest of the values of f on D, as Ranked chooses it.   *)
IsRanked(f, D, k, v) ==
    /\ v \in {f[i] : i \in D}
    /\ Cardinality(Below(f, D, v)) < k
    /\ k <= Cardinality(AtMost(f, D, v))

(* Finitely many integers.                                                 *)
Integral(f, D) == IsFiniteSet(D) /\ \A i \in D : f[i] \in Int

LEMMA CountsFinite ==
    ASSUME NEW f, NEW D, IsFiniteSet(D), NEW v
    PROVE  /\ IsFiniteSet(Below(f, D, v)) /\ Cardinality(Below(f, D, v)) \in Nat
           /\ IsFiniteSet(AtMost(f, D, v)) /\ Cardinality(AtMost(f, D, v)) \in Nat
<1>1. Below(f, D, v) \in SUBSET D /\ AtMost(f, D, v) \in SUBSET D
  BY DEF Below, AtMost
<1>. QED  BY <1>1, FS_Subset, FS_CardinalityType

(* How the counts for two values compare.                                  *)
LEMMA BelowAndAtMost ==
    ASSUME NEW f, NEW D, Integral(f, D), NEW v \in Int, NEW w \in Int
    PROVE  /\ v < w => Cardinality(AtMost(f, D, v)) <= Cardinality(Below(f, D, w))
           /\ (\A i \in D : f[i] < w => f[i] <= v)
                => Cardinality(Below(f, D, w)) <= Cardinality(AtMost(f, D, v))
<1>1. IsFiniteSet(Below(f, D, w)) /\ IsFiniteSet(AtMost(f, D, v))
  BY CountsFinite DEF Integral
<1>2. v < w => AtMost(f, D, v) \in SUBSET Below(f, D, w)
  BY DEF AtMost, Below, Integral
<1>3. (\A i \in D : f[i] < w => f[i] <= v) => Below(f, D, w) \in SUBSET AtMost(f, D, v)
  BY DEF AtMost, Below
<1>. QED  BY <1>1, <1>2, <1>3, FS_Subset

(* Every rank is taken: by the least value that k are at most.             *)
LEMMA RankedExists ==
    ASSUME NEW f, NEW D, Integral(f, D), NEW k \in 1 .. Cardinality(D)
    PROVE  \E v : IsRanked(f, D, k, v)
<1> DEFINE V == {f[i] : i \in D}
           G == {v \in V : k <= Cardinality(AtMost(f, D, v))}
<1>1. IsFiniteSet(V) /\ V \in SUBSET Int
  BY SurjectionOnto DEF Integral
<1>2. Cardinality(D) \in Nat /\ D # {}
  BY FS_CardinalityType, FS_EmptySet DEF Integral
<1>3. PICK top \in V : \A v \in V : v <= top
  <2>1. V # {}
    BY <1>2
  <2> HIDE DEF V
  <2>. QED  BY <1>1, <2>1, LargestElement
<1>4. AtMost(f, D, top) = D
  BY <1>3 DEF AtMost
<1>5. top \in G
  BY <1>2, <1>3, <1>4
<1>6. G \in SUBSET Int /\ IsFiniteSet(G) /\ G # {}
  <2>1. G \in SUBSET V
    OBVIOUS
  <2> HIDE DEF G, V
  <2>. QED  BY <1>1, <1>5, <2>1, FS_Subset
<1>7. PICK v \in G : \A w \in G : v <= w
  <2> HIDE DEF G
  <2>. QED  BY <1>6, SmallestElement
<1>8. ASSUME ~ (Cardinality(Below(f, D, v)) < k)
      PROVE  FALSE
  <2> DEFINE B == Below(f, D, v)
             W == {f[i] : i \in B}
  <2>1. IsFiniteSet(B) /\ Cardinality(B) \in Nat /\ B \subseteq D
    BY CountsFinite DEF Integral, Below
  <2>2. B # {}
    BY <1>8, <2>1, FS_EmptySet
  <2>3. IsFiniteSet(W)
    <3> HIDE DEF B
    <3>. QED  BY <2>1, SurjectionOnto
  <2>4. W \in SUBSET Int /\ W # {}
    BY <2>1, <2>2 DEF Integral
  <2>5. PICK u \in W : \A w \in W : w <= u
    <3> HIDE DEF W
    <3>. QED  BY <2>3, <2>4, LargestElement
  <2>6. u \in V /\ u < v /\ u \in Int /\ v \in Int
    BY <2>4, <1>6 DEF Below
  <2>7. \A i \in D : f[i] < v => f[i] <= u
    BY <2>5 DEF Below
  <2>8. Cardinality(B) <= Cardinality(AtMost(f, D, u))
    BY <2>6, <2>7, BelowAndAtMost
  <2>9. Cardinality(AtMost(f, D, u)) \in Nat
    BY CountsFinite DEF Integral
  <2>10. u \in G
    BY <1>8, <2>1, <2>6, <2>8, <2>9
  <2>. QED  BY <1>7, <2>6, <2>10
<1>9. IsRanked(f, D, k, v)
  BY <1>8 DEF IsRanked
<1>. QED  BY <1>9

(* No rank is taken by two values.                                         *)
LEMMA RankedUnique ==
    ASSUME NEW f, NEW D, Integral(f, D), NEW k \in Int,
           NEW v, NEW w, IsRanked(f, D, k, v), IsRanked(f, D, k, w)
    PROVE  v = w
<1>1. v \in Int /\ w \in Int
  BY DEF IsRanked, Integral
<1>2. /\ Cardinality(Below(f, D, v)) \in Nat /\ Cardinality(AtMost(f, D, v)) \in Nat
      /\ Cardinality(Below(f, D, w)) \in Nat /\ Cardinality(AtMost(f, D, w)) \in Nat
  BY CountsFinite DEF Integral
<1>3. ~ (v < w)
  BY <1>1, <1>2, BelowAndAtMost DEF IsRanked
<1>4. ~ (w < v)
  BY <1>1, <1>2, BelowAndAtMost DEF IsRanked
<1>. QED  BY <1>1, <1>3, <1>4

LEMMA RankedIs ==
    ASSUME NEW f, NEW D, Integral(f, D), NEW k \in Int,
           NEW v, IsRanked(f, D, k, v)
    PROVE  Ranked(f, D, k) = v
<1>1. Ranked(f, D, k) = CHOOSE x : IsRanked(f, D, k, x)
  BY DEF Ranked, IsRanked, Below, AtMost
<1>2. IsRanked(f, D, k, CHOOSE x : IsRanked(f, D, k, x))
  OBVIOUS
<1>. QED  BY <1>1, <1>2, RankedUnique

(* Ranked is the value of its rank, and an integer.                        *)
LEMMA RankedProperty ==
    ASSUME NEW f, NEW D, Integral(f, D), NEW k \in 1 .. Cardinality(D)
    PROVE  /\ IsRanked(f, D, k, Ranked(f, D, k))
           /\ Ranked(f, D, k) \in Int
<1>1. PICK v : IsRanked(f, D, k, v)
  BY RankedExists
<1>2. Ranked(f, D, k) = v
  BY <1>1, RankedIs
<1>. QED  BY <1>1, <1>2 DEF IsRanked, Integral

(* Values that are all shifted have their order statistics shifted.        *)
LEMMA RankedShift ==
    ASSUME NEW f, NEW g, NEW D, Integral(f, D), NEW c \in Int,
           \A i \in D : g[i] = f[i] + c, NEW k \in 1 .. Cardinality(D)
    PROVE  Ranked(g, D, k) = Ranked(f, D, k) + c
<1>1. Integral(g, D)
  BY DEF Integral
<1> DEFINE v == Ranked(f, D, k)
<1>2. IsRanked(f, D, k, v) /\ v \in Int
  BY RankedProperty
<1> HIDE DEF v
<1>3. Below(g, D, v + c) = Below(f, D, v) /\ AtMost(g, D, v + c) = AtMost(f, D, v)
  BY <1>2 DEF Below, AtMost, Integral
<1>4. v + c \in {g[i] : i \in D}
  BY <1>2 DEF IsRanked
<1>5. IsRanked(g, D, k, v + c)
  BY <1>2, <1>3, <1>4 DEF IsRanked
<1>. QED  BY <1>1, <1>5, RankedIs DEF v

(* A higher rank has no smaller a value.                                   *)
LEMMA RankedMonotone ==
    ASSUME NEW f, NEW D, Integral(f, D), NEW j \in 1 .. Cardinality(D),
           NEW k \in 1 .. Cardinality(D), j <= k
    PROVE  Ranked(f, D, j) <= Ranked(f, D, k)
<1> DEFINE v == Ranked(f, D, j)
           w == Ranked(f, D, k)
<1>1. IsRanked(f, D, j, v) /\ v \in Int /\ IsRanked(f, D, k, w) /\ w \in Int
  BY RankedProperty
<1>2. Cardinality(Below(f, D, v)) \in Nat /\ Cardinality(AtMost(f, D, w)) \in Nat
  BY CountsFinite DEF Integral
<1>3. ~ (w < v)
  BY <1>1, <1>2, BelowAndAtMost DEF IsRanked
<1>. QED  BY <1>1, <1>3

-----------------------------------------------------------------------------
(* Sums.                                                                   *)

(* iter sums value over the elements of a set, taken one at a time as chosen says. *)
Sums(iter, D, chosen, value) ==
    iter = [t \in SUBSET D |->
              IF t = {} THEN 0 ELSE value[chosen[t]] + iter[t \ {chosen[t]}]]

(* chosen takes an element of every part of D that has one.                *)
Picks(chosen, D) == \A t \in SUBSET D : t # {} => chosen[t] \in t

(* The sum over every part of a finite set exists, in whichever order the  *)
(* elements are taken: the least size without it would have one.           *)
LEMMA SumsExist ==
    ASSUME NEW D, IsFiniteSet(D), NEW chosen, Picks(chosen, D), NEW value
    PROVE  \E iter : Sums(iter, D, chosen, value)
<1> DEFINE Upto(n) == {t \in SUBSET D : Cardinality(t) <= n}
           Partial(n, g) ==
             g = [t \in Upto(n) |->
                    IF t = {} THEN 0 ELSE value[chosen[t]] + g[t \ {chosen[t]}]]
           Missing == {n \in Nat : ~ \E g : Partial(n, g)}
<1>1. \A t \in SUBSET D : IsFiniteSet(t) /\ Cardinality(t) \in Nat
  BY FS_Subset, FS_CardinalityType
<1>2. ASSUME Missing # {} PROVE FALSE
  <2>1. PICK n \in Missing : \A m \in Missing : n <= m
    <3>1. Missing \in SUBSET Nat
      OBVIOUS
    <3> HIDE DEF Missing
    <3>. QED  BY <1>2, <3>1, LeastNumber
  <2>2. n # 0
    <3>1. Upto(0) = {{}}
      BY <1>1, FS_EmptySet
    <3>2. Partial(0, [t \in {{}} |-> 0])
      BY <3>1
    <3>. QED  BY <3>2
  <2>3. n - 1 \in Nat /\ n - 1 \notin Missing
    <3>1. n \in Nat
      OBVIOUS
    <3> HIDE DEF Missing
    <3>. QED  BY <2>1, <2>2, <3>1
  <2>4. PICK g : Partial(n - 1, g)
    BY <2>3
  <2> DEFINE h == [t \in Upto(n) |->
                     IF t = {} THEN 0 ELSE value[chosen[t]] + g[t \ {chosen[t]}]]
  <2>5. ASSUME NEW t \in Upto(n), t # {}
        PROVE  t \ {chosen[t]} \in Upto(n - 1)
    <3>1. chosen[t] \in t
      BY <2>5 DEF Picks
    <3>2. Cardinality(t \ {chosen[t]}) = Cardinality(t) - 1
      BY <1>1, <3>1, FS_RemoveElement
    <3>. QED  BY <1>1, <3>2
  <2>6. \A u \in Upto(n - 1) : u \in Upto(n) /\ h[u] = g[u]
    <3>1. \A u \in Upto(n - 1) :
            g[u] = IF u = {} THEN 0 ELSE value[chosen[u]] + g[u \ {chosen[u]}]
      BY <2>4
    <3>2. \A u \in Upto(n - 1) : u \in Upto(n)
      BY <1>1
    <3>. QED  BY <3>1, <3>2
  <2>7. Partial(n, h)
    BY <2>5, <2>6
  <2>. QED  BY <2>1, <2>7
<1>3. PICK g : Partial(Cardinality(D), g)
  BY <1>1, <1>2
<1>4. Upto(Cardinality(D)) = SUBSET D
  BY FS_Subset
<1>5. Sums(g, D, chosen, value)
  BY <1>3, <1>4 DEF Sums
<1>. QED  BY <1>5

(* What Total unfolds to.                                                  *)
AnyOf(t) == CHOOSE x \in t : TRUE

SumsTo(s, iter) ==
    iter = [t \in SUBSET DOMAIN s |->
              IF t = {} THEN 0 ELSE s[AnyOf(t)] + iter[t \ {AnyOf(t)}]]

TotalIter(s) == CHOOSE iter : SumsTo(s, iter)

LEMMA TotalUnfolds ==
    ASSUME NEW s, IsFiniteSet(DOMAIN s)
    PROVE  /\ Total(s) = TotalIter(s)[DOMAIN s]
           /\ TotalIter(s)[{}] = 0
           /\ \A t \in SUBSET DOMAIN s :
                t # {} => /\ AnyOf(t) \in t
                          /\ TotalIter(s)[t] = s[AnyOf(t)] + TotalIter(s)[t \ {AnyOf(t)}]
<1> DEFINE D == DOMAIN s
           chosen == [t \in SUBSET D |-> AnyOf(t)]
<1>1. \A t \in SUBSET D : t # {} => AnyOf(t) \in t
  BY DEF AnyOf
<1>2. Picks(chosen, D)
  BY <1>1 DEF Picks
<1>3. PICK iter : Sums(iter, D, chosen, s)
  <2> HIDE DEF chosen
  <2>. QED  BY <1>2, SumsExist
<1>4. SumsTo(s, iter)
  BY <1>3 DEF Sums, SumsTo
<1>5. SumsTo(s, TotalIter(s))
  BY <1>4 DEF TotalIter
<1>6. Total(s) = TotalIter(s)[D]
  BY Zenon DEF Total, PlusInt, FoldFunction, FoldFunctionOnSet, MapThenFoldSet,
               TotalIter, SumsTo, AnyOf
<1>7. \A t \in SUBSET D :
         TotalIter(s)[t] =
            IF t = {} THEN 0 ELSE s[AnyOf(t)] + TotalIter(s)[t \ {AnyOf(t)}]
  <2> DEFINE it == TotalIter(s)
  <2>1. it = [t \in SUBSET D |-> IF t = {} THEN 0 ELSE s[AnyOf(t)] + it[t \ {AnyOf(t)}]]
    BY <1>5 DEF SumsTo
  <2> HIDE DEF it
  <2>2. \A t \in SUBSET D :
          it[t] = IF t = {} THEN 0 ELSE s[AnyOf(t)] + it[t \ {AnyOf(t)}]
    BY <2>1
  <2>. QED  BY <2>2 DEF it
<1>. QED  BY <1>1, <1>6, <1>7

(* A total of integers is one.                                             *)
LEMMA TotalInteger ==
    ASSUME NEW s, IsFiniteSet(DOMAIN s), \A i \in DOMAIN s : s[i] \in Int
    PROVE  Total(s) \in Int
<1> DEFINE Odd == {t \in SUBSET DOMAIN s : TotalIter(s)[t] \notin Int}
<1>1. ASSUME Odd # {} PROVE FALSE
  <2>1. \A t \in Odd : IsFiniteSet(t)
    BY FS_Subset
  <2>2. PICK t \in Odd : \A u \in Odd : u \subseteq t => u = t
    <3> HIDE DEF Odd
    <3>. QED  BY <1>1, <2>1, SmallestOf
  <2> DEFINE x == AnyOf(t)
  <2>3. t # {} /\ x \in t
    <3>1. TotalIter(s)[{}] \in Int
      BY TotalUnfolds
    <3>. QED  BY <2>2, <3>1, TotalUnfolds
  <2>4. t \ {x} \notin Odd /\ t \ {x} \in SUBSET DOMAIN s
    BY <2>2, <2>3
  <2>5. TotalIter(s)[t] = s[x] + TotalIter(s)[t \ {x}]
    BY <2>2, <2>3, TotalUnfolds
  <2>. QED  BY <2>2, <2>3, <2>4, <2>5
<1>. QED  BY <1>1, TotalUnfolds

(* A total of shifted values is shifted by as many times as there are.     *)
LEMMA TotalShift ==
    ASSUME NEW s, NEW e, NEW c \in Int, IsFiniteSet(DOMAIN s), DOMAIN e = DOMAIN s,
           \A i \in DOMAIN s : s[i] \in Int /\ e[i] = s[i] + c
    PROVE  Total(e) = Total(s) + c * Cardinality(DOMAIN s)
<1> DEFINE Odd == {t \in SUBSET DOMAIN s :
                     ~ /\ TotalIter(s)[t] \in Int
                       /\ TotalIter(e)[t] = TotalIter(s)[t] + c * Cardinality(t)}
<1>1. ASSUME Odd # {} PROVE FALSE
  <2>1. \A t \in Odd : IsFiniteSet(t)
    BY FS_Subset
  <2>2. PICK t \in Odd : \A u \in Odd : u \subseteq t => u = t
    <3> HIDE DEF Odd
    <3>. QED  BY <1>1, <2>1, SmallestOf
  <2>3. IsFiniteSet(t) /\ Cardinality(t) \in Nat /\ t \in SUBSET DOMAIN s
    BY <2>1, FS_CardinalityType
  <2>4. t # {}
    <3>1. Cardinality({}) = 0 /\ TotalIter(s)[{}] = 0 /\ TotalIter(e)[{}] = 0
      BY TotalUnfolds, FS_EmptySet
    <3>2. c * Cardinality({}) = 0
      BY <3>1
    <3>3. {} \notin Odd
      BY <3>1, <3>2
    <3> HIDE DEF Odd
    <3>. QED  BY <2>2, <3>3
  <2> DEFINE x == AnyOf(t)
             u == t \ {x}
  <2>5. x \in t /\ x \in DOMAIN s
    BY <2>3, <2>4, TotalUnfolds
  <2>6. u \notin Odd /\ u \in SUBSET DOMAIN s
    BY <2>2, <2>5
  <2>7. Cardinality(t) = Cardinality(u) + 1 /\ Cardinality(u) \in Nat
    <3>1. IsFiniteSet(u) /\ Cardinality(u) = Cardinality(t) - 1
      BY <2>3, <2>5, FS_RemoveElement
    <3>. QED  BY <2>3, <3>1, FS_CardinalityType
  <2>8. TotalIter(s)[t] = s[x] + TotalIter(s)[u]
    BY <2>2, <2>4, TotalUnfolds
  <2>9. TotalIter(e)[t] = e[x] + TotalIter(e)[u]
    BY <2>2, <2>4, TotalUnfolds
  <2>10. TotalIter(s)[u] \in Int /\ TotalIter(e)[u] = TotalIter(s)[u] + c * Cardinality(u)
    BY <2>6
  <2>11. c * (Cardinality(u) + 1) = c * Cardinality(u) + c
    BY <2>7
  <2>12. /\ TotalIter(s)[t] \in Int
         /\ TotalIter(e)[t] = TotalIter(s)[t] + c * Cardinality(t)
    <3> HIDE DEF u, x, Odd
    <3>1. s[x] \in Int /\ e[x] = s[x] + c /\ c * Cardinality(u) \in Int
      BY <2>5, <2>7
    <3>. QED  BY <2>7, <2>8, <2>9, <2>10, <2>11, <3>1
  <2>. QED  BY <2>2, <2>12
<1>2. /\ TotalIter(e)[DOMAIN s] = TotalIter(s)[DOMAIN s] + c * Cardinality(DOMAIN s)
  BY <1>1
<1>. QED  BY <1>2, TotalUnfolds

-----------------------------------------------------------------------------
(* A pass rests on measurements.                                           *)

(* The confidence level and the resample count are arbitrary, and yet both *)
(* percentile ranks index the sorted resamples, the lower one first:       *)
(* statistics._interval never reads outside its list.                      *)
THEOREM RanksInRange ==
    /\ LowerRank \in 0 .. Resamples - 1
    /\ UpperRank \in 0 .. Resamples - 1
    /\ LowerRank <= UpperRank
<1> USE GateVerdictAssumption
<1> DEFINE C == Confidence
           R == Resamples
           below == (1000 - C) * R
           above == (1000 + C) * R
<1>1. C \in 1 .. 999 /\ R \in Nat /\ R >= 1
  OBVIOUS
<1>2. /\ below \in Int /\ above \in Int
      /\ 0 <= below /\ below < 1000 * R
      /\ 1000 * R < above /\ above < 2000 * R
  <2>1. /\ C * R \in Int /\ C * R >= R /\ C * R <= 999 * R
    BY <1>1
  <2>2. below = 1000 * R - C * R /\ above = 1000 * R + C * R
    BY <1>1
  <2>. QED  BY <1>1, <2>1, <2>2
<1>3. /\ below \div 2000 \in Int /\ above \div 2000 \in Int
      /\ 0 <= below \div 2000 /\ below \div 2000 < R
      /\ below \div 2000 <= above \div 2000
      /\ above \div 2000 < R
  <2> HIDE DEF below, above
  <2>. QED  BY <1>1, <1>2
<1>. QED  BY <1>1, <1>3 DEF LowerRank, UpperRank

-----------------------------------------------------------------------------
(* What of the state the outcome rests on.                                 *)
Weighed(o) ==
    /\ o \in [verdict : Verdicts, class : Classifications]
    /\ o.class \in Unmeasured => o.verdict \in Actions

InHand ==
    /\ pc \in {"next", "refuse", "read", "weigh", "decided"}
    /\ pc \in {"refuse", "read", "weigh"} => criterion \in Criteria

IInv ==
    /\ InHand
    /\ \A o \in weighed : Weighed(o)
    /\ outcome = "pass" => pc = "decided" /\ AbstentionNeverPasses

(* A criterion that could not be measured is answered with an action: the  *)
(* floor, or the policy's own mapping, which cannot be a pass.             *)
LEMMA WithheldIsAnAction ==
    ASSUME NEW c \in Criteria, NEW ps
    PROVE  ApplyThresholds(c, ps, "insufficient_evidence") \in Actions
  BY GateVerdictAssumption DEF ApplyThresholds, Actions

LEMMA ThresholdsGiveAVerdict ==
    ASSUME NEW c \in Criteria, NEW ps, NEW class
    PROVE  ApplyThresholds(c, ps, class) \in Verdicts
  BY GateVerdictAssumption DEF ApplyThresholds, Actions, Verdicts

LEMMA ClassesOfComparisons ==
    ASSUME NEW c, NEW n, NEW s
    PROVE  Classify(c, n, s) \in Classifications \ {"not_comparable"}
  BY DEF Classify, MovedUp, MovedDown, Classifications

(* The outcome is a pass only when no criterion asked for an action.       *)
LEMMA PassNeedsPasses ==
    ASSUME NEW W, \A o \in W : Weighed(o), DecisionOutcome(W) = "pass"
    PROVE  \A o \in W : o.verdict = "pass"
  BY DEF DecisionOutcome, Weighed, Verdicts, Actions

LEMMA WeighKeepsInv ==
    ASSUME IInv, pc # "decided", NEW verdict, NEW class,
           Weigh(verdict, class), Weighed([verdict |-> verdict, class |-> class])
    PROVE  IInv'
<1>1. outcome # "pass" /\ outcome' = outcome
  BY DEF IInv, Weigh
<1>2. \A o \in weighed' : Weighed(o)
  BY DEF IInv, Weigh
<1>. QED  BY <1>1, <1>2 DEF IInv, InHand, Weigh

LEMMA InitIInv == Init => IInv
  BY DEF Init, IInv, InHand

LEMMA NextIInv == IInv /\ [Next]_vars => IInv'
<1> SUFFICES ASSUME IInv, [Next]_vars PROVE IInv'
  OBVIOUS
<1>1. CASE TakeCriterion
  BY <1>1 DEF TakeCriterion, IInv, InHand
<1>2. CASE RefuseToCompare
  <2>1. pc # "decided" /\ criterion \in Criteria
    BY <1>2 DEF RefuseToCompare, IInv, InHand
  <2>2. criterion.onNotComparable \in Actions
    BY <2>1, GateVerdictAssumption
  <2>3. Weighed([verdict |-> criterion.onNotComparable,
                 class |-> "not_comparable"])
    BY <2>2 DEF Weighed, Verdicts, Classifications
  <2>. QED  BY <1>2, <2>1, <2>3, WeighKeepsInv DEF RefuseToCompare
<1>3. CASE ReadPair
  BY <1>3 DEF ReadPair, IInv, InHand, AbstentionNeverPasses
<1>4. CASE Resample
  BY <1>4 DEF Resample, IInv, InHand, AbstentionNeverPasses
<1>5. CASE EvaluateCriterion
  <2> DEFINE class == Classify(criterion, Len(pairs), sums)
             verdict == ApplyThresholds(criterion, pairs, class)
  <2>1. pc # "decided" /\ criterion \in Criteria
    BY <1>5 DEF EvaluateCriterion, IInv, InHand
  <2>2. class \in Classifications \ {"not_comparable"}
    BY ClassesOfComparisons
  <2>3. verdict \in Verdicts
    BY <2>1, ThresholdsGiveAVerdict
  <2>4. class = "insufficient_evidence" => verdict \in Actions
    BY <2>1, WithheldIsAnAction
  <2>5. Weigh(verdict, class)
    BY <1>5 DEF EvaluateCriterion
  <2> HIDE DEF class, verdict
  <2>6. Weighed([verdict |-> verdict, class |-> class])
    BY <2>2, <2>3, <2>4 DEF Weighed, Unmeasured
  <2>. QED  BY <2>1, <2>5, <2>6, WeighKeepsInv
<1>6. CASE Decide
  <2>1. InHand' /\ (\A o \in weighed' : Weighed(o)) /\ pc' = "decided"
    BY <1>6 DEF Decide, IInv, InHand
  <2>2. ASSUME outcome' = "pass" PROVE AbstentionNeverPasses'
    <3>1. DecisionOutcome(weighed) = "pass"
      BY <1>6, <2>2 DEF Decide
    <3>2. \A o \in weighed : o.verdict = "pass"
      BY <3>1, PassNeedsPasses DEF IInv
    <3>3. \A o \in weighed : o.class \notin Unmeasured
      BY <3>2 DEF IInv, Weighed, Actions
    <3>. QED  BY <1>6, <3>3 DEF Decide, AbstentionNeverPasses
  <2>. QED  BY <2>1, <2>2 DEF IInv
<1>7. CASE Decided
  BY <1>7 DEF Decided, vars, IInv, InHand, AbstentionNeverPasses
<1>8. CASE UNCHANGED vars
  BY <1>8 DEF vars, IInv, InHand, AbstentionNeverPasses
<1>. QED  BY <1>1, <1>2, <1>3, <1>4, <1>5, <1>6, <1>7, <1>8 DEF Next

(* A release is never passed on evidence that was not there: whatever the  *)
(* policy, the scores and the draws, an outcome of pass means every        *)
(* criterion was measured (ADR-016, engine._decision_outcome).             *)
THEOREM PassMeansMeasured == Spec => []AbstentionNeverPasses
<1>1. IInv => AbstentionNeverPasses
  BY DEF IInv, AbstentionNeverPasses
<1>. QED  BY InitIInv, NextIInv, <1>1, PTL DEF Spec

-----------------------------------------------------------------------------
(* Verdicts on the evidence in hand.                                       *)

(* What ReadPair appends.                                                  *)
ScorePairs == [baseline : Scores, candidate : Scores]

(* What the criterion in hand is judged on: pairs of scores, integer sums  *)
(* when there are pairs to resample, and no verdict on the release yet.    *)
EvidenceInv ==
    /\ InHand
    /\ pairs \in Seq(ScorePairs)
    /\ (pc = "weigh" /\ pairs # <<>>) => sums \in [1 .. Resamples -> Int]
    /\ pc \in {"read", "weigh"} => baseline # Absent
    /\ pc # "decided" => outcome = "none"

LEMMA IntervalCount ==
    ASSUME NEW n \in Nat
    PROVE  IsFiniteSet(1 .. n) /\ Cardinality(1 .. n) = n
<1>1. 1 \in Int /\ n \in Int
  OBVIOUS
<1>2. /\ IsFiniteSet(1 .. n)
      /\ Cardinality(1 .. n) = IF 1 > n THEN 0 ELSE n - 1 + 1
  BY <1>1, FS_Interval
<1>. QED  BY <1>2

(* Sequences as functions on their indices.                                *)
LEMMA SequenceDomain ==
    ASSUME NEW S, NEW s \in Seq(S)
    PROVE  /\ DOMAIN s = 1 .. Len(s) /\ Len(s) \in Nat
           /\ IsFiniteSet(DOMAIN s) /\ Cardinality(DOMAIN s) = Len(s)
           /\ \A i \in DOMAIN s : s[i] \in S
<1>1. DOMAIN s = 1 .. Len(s) /\ Len(s) \in Nat /\ \A i \in 1 .. Len(s) : s[i] \in S
  OBVIOUS
<1>2. IsFiniteSet(1 .. Len(s)) /\ Cardinality(1 .. Len(s)) = Len(s)
  BY <1>1, IntervalCount
<1>. QED  BY <1>1, <1>2

LEMMA ScorePairFields ==
    \A p \in ScorePairs : p.candidate \in Int /\ p.baseline \in Int
<1>1. Scores \subseteq Int
  BY GateVerdictAssumption
<1>2. \A p \in ScorePairs : p.candidate \in Scores /\ p.baseline \in Scores
  BY DEF ScorePairs
<1>3. \A x \in Scores : x \in Int
  BY <1>1
<1>. QED  BY <1>2, <1>3

LEMMA DifferencesAreIntegers ==
    ASSUME NEW ps \in Seq(ScorePairs)
    PROVE  /\ DOMAIN Differences(ps) = DOMAIN ps
           /\ \A i \in DOMAIN ps : Differences(ps)[i] \in Int
<1>1. \A i \in DOMAIN ps : ps[i] \in ScorePairs
  BY SequenceDomain
<1>2. \A i \in DOMAIN ps : ps[i].candidate \in Int /\ ps[i].baseline \in Int
  BY <1>1, ScorePairFields
<1>. QED  BY <1>2 DEF Differences

LEMMA ResamplesAreIntegers ==
    ASSUME NEW ps \in Seq(ScorePairs)
    PROVE  ResampleSums(ps) \subseteq Int
<1> DEFINE d == Differences(ps)
<1>1. DOMAIN d = DOMAIN ps /\ IsFiniteSet(DOMAIN d) /\ \A i \in DOMAIN d : d[i] \in Int
  BY DifferencesAreIntegers, SequenceDomain
<1> HIDE DEF d
<1>2. ASSUME NEW draw \in [DOMAIN d -> DOMAIN d]
      PROVE  Total([i \in DOMAIN d |-> d[draw[i]]]) \in Int
  <2> DEFINE e == [i \in DOMAIN d |-> d[draw[i]]]
  <2>1. DOMAIN e = DOMAIN d /\ \A i \in DOMAIN e : e[i] \in Int
    BY <1>1
  <2> HIDE DEF e
  <2>2. Total(e) \in Int
    BY <1>1, <2>1, TotalInteger
  <2>. QED  BY <2>2 DEF e
<1>. QED  BY <1>2 DEF ResampleSums, d

LEMMA InitEvidence == Init => EvidenceInv
  BY DEF Init, EvidenceInv, InHand

LEMMA NextEvidence == EvidenceInv /\ [Next]_vars => EvidenceInv'
<1> SUFFICES ASSUME EvidenceInv, [Next]_vars PROVE EvidenceInv'
  OBVIOUS
<1>1. CASE TakeCriterion
  BY <1>1 DEF TakeCriterion, EvidenceInv, InHand
<1>2. CASE RefuseToCompare
  BY <1>2 DEF RefuseToCompare, Weigh, EvidenceInv, InHand
<1>3. CASE ReadPair
  BY <1>3 DEF ReadPair, EvidenceInv, InHand, ScorePairs
<1>4. CASE Resample
  <2>1. ASSUME pairs # <<>> PROVE sums' \in [1 .. Resamples -> Int]
    BY <1>4, <2>1, ResamplesAreIntegers DEF Resample, EvidenceInv
  <2>. QED  BY <1>4, <2>1 DEF Resample, EvidenceInv, InHand
<1>5. CASE EvaluateCriterion
  BY <1>5 DEF EvaluateCriterion, Weigh, EvidenceInv, InHand
<1>6. CASE Decide
  BY <1>6 DEF Decide, EvidenceInv, InHand
<1>7. CASE Decided
  BY <1>7 DEF Decided, vars, EvidenceInv, InHand
<1>8. CASE UNCHANGED vars
  BY <1>8 DEF vars, EvidenceInv, InHand
<1>. QED  BY <1>1, <1>2, <1>3, <1>4, <1>5, <1>6, <1>7, <1>8 DEF Next

(* Every verdict has a place in the order of severity.                     *)
LEMMA VerdictsAreGraded ==
    ASSUME NEW c \in Criteria, NEW ps, NEW class
    PROVE  /\ ApplyThresholds(c, ps, class) \in Verdicts
           /\ Severity[ApplyThresholds(c, ps, class)] \in 0 .. 3
  BY GateVerdictAssumption DEF ApplyThresholds, Actions, Verdicts, Severity

(* Without its tolerance a criterion sees the same floor and the same      *)
(* classification; only the forgiving is gone.                             *)
LEMMA ForgivenNotAccused ==
    ASSUME NEW c \in Criteria, NEW ps, NEW s
    PROVE  Severity[Verdict(c, ps, s)]
             <= Severity[Verdict([c EXCEPT !.tolerance = Unset], ps, s)]
<1> DEFINE strict == [c EXCEPT !.tolerance = Unset]
<1>1. /\ strict.direction = c.direction /\ strict.precision = c.precision
      /\ strict.minimum = c.minimum /\ strict.floor = c.floor
      /\ strict.tolerance = Unset
      /\ strict.onRegression = c.onRegression
      /\ strict.onInsufficientEvidence = c.onInsufficientEvidence
      /\ c.onRegression \in Actions /\ c.onInsufficientEvidence \in Actions
  BY GateVerdictAssumption
<1> HIDE DEF strict
<1> DEFINE class == Classify(c, Len(ps), s)
<1>2. Classify(strict, Len(ps), s) = class
  BY <1>1 DEF Classify, TooFew, TooWide, MovedDown, MovedUp
<1>3. FloorBreached(strict, ps) = FloorBreached(c, ps) /\ ~ Tolerated(strict, ps)
  BY <1>1 DEF FloorBreached, Tolerated
<1> HIDE DEF class
<1>4. \/ ApplyThresholds(strict, ps, class) = ApplyThresholds(c, ps, class)
      \/ /\ ApplyThresholds(c, ps, class) = "pass"
         /\ ApplyThresholds(strict, ps, class) = c.onRegression
  BY <1>1, <1>3 DEF ApplyThresholds
<1>5. Severity[c.onRegression] \in 0 .. 3 /\ Severity["pass"] = 0
  BY <1>1 DEF Severity, Actions
<1>6. Severity[ApplyThresholds(c, ps, class)] \in 0 .. 3
  BY VerdictsAreGraded
<1>. QED  BY <1>2, <1>4, <1>5, <1>6 DEF Verdict, class, strict

(* A tolerance forgives and never accuses, for every criterion, score and  *)
(* draw (engine._apply_thresholds).                                        *)
THEOREM ToleranceForgives == Spec => []ToleranceOnlyForgives
<1>1. EvidenceInv => ToleranceOnlyForgives
  BY ForgivenNotAccused DEF EvidenceInv, InHand, ToleranceOnlyForgives
<1>. QED  BY InitEvidence, NextEvidence, <1>1, PTL DEF Spec

(* A breached floor, as the decision will find it: in the criterion being  *)
(* evaluated, or among those weighed.                                      *)
Blocked ==
    /\ baseline # Absent /\ outcome \in {"none", "hard_fail"}
    /\ \/ pc = "weigh" /\ FloorBreached(criterion, pairs)
       \/ \E o \in weighed : o.verdict = "hard_fail"

LEMMA BlockedStays == EvidenceInv /\ Blocked /\ [Next]_vars => Blocked'
<1> SUFFICES ASSUME EvidenceInv, Blocked, [Next]_vars PROVE Blocked'
  OBVIOUS
<1>1. CASE TakeCriterion
  BY <1>1 DEF TakeCriterion, Blocked
<1>2. CASE RefuseToCompare
  BY <1>2 DEF RefuseToCompare, Weigh, Blocked
<1>3. CASE ReadPair
  BY <1>3 DEF ReadPair, Blocked
<1>4. CASE Resample
  BY <1>4 DEF Resample, Blocked
<1>5. CASE EvaluateCriterion
  <2> DEFINE class == Classify(criterion, Len(pairs), sums)
             verdict == ApplyThresholds(criterion, pairs, class)
             o == [verdict |-> verdict, class |-> class]
  <2>1. Weigh(verdict, class)
    BY <1>5 DEF EvaluateCriterion
  <2>2. FloorBreached(criterion, pairs) => verdict = "hard_fail"
    BY DEF ApplyThresholds
  <2>3. weighed' = weighed \cup {o} /\ o.verdict = verdict
    BY <2>1 DEF Weigh
  <2> HIDE DEF class, verdict, o
  <2>4. \E w \in weighed' : w.verdict = "hard_fail"
    BY <2>2, <2>3 DEF Blocked
  <2>. QED  BY <2>1, <2>4 DEF Weigh, Blocked
<1>6. CASE Decide
  <2>1. \E o \in weighed : o.verdict = "hard_fail"
    BY <1>6 DEF Decide, Blocked
  <2>2. DecisionOutcome(weighed) = "hard_fail"
    BY <2>1 DEF DecisionOutcome
  <2>. QED  BY <1>6, <2>1, <2>2 DEF Decide, Blocked
<1>7. CASE Decided
  BY <1>7 DEF Decided, vars, Blocked
<1>8. CASE UNCHANGED vars
  BY <1>8 DEF vars, Blocked
<1>. QED  BY <1>1, <1>2, <1>3, <1>4, <1>5, <1>6, <1>7, <1>8 DEF Next

(* A breached floor decides the release whatever else the policy holds     *)
(* (ADR-016): an action property, from an invariant that outlives the      *)
(* criterion.                                                              *)
THEOREM FloorBlocks == Spec => BreachedFloorBlocks
<1>1. EvidenceInv /\ pc = "weigh" /\ FloorBreached(criterion, pairs) => Blocked
  BY DEF EvidenceInv, Blocked
<1>2. Blocked => outcome \in {"none", "hard_fail"}
  BY DEF Blocked
<1>. QED  BY <1>1, <1>2, BlockedStays, InitEvidence, NextEvidence, PTL
            DEF Spec, BreachedFloorBlocks

-----------------------------------------------------------------------------

(* What an improvement of every candidate by one unit does to the sums.    *)
LEMMA SumsShift ==
    ASSUME NEW c \in Criteria, NEW ps \in Seq(ScorePairs)
    PROVE  /\ DOMAIN Improved(c, ps) = DOMAIN ps
           /\ Len(Improved(c, ps)) = Len(ps)
           /\ Total(Differences(Improved(c, ps)))
                = Total(Differences(ps)) + Better(c) * Len(ps)
           /\ SumOf(Improved(c, ps), "candidate")
                = SumOf(ps, "candidate") + Better(c) * Len(ps)
           /\ SumOf(Improved(c, ps), "baseline") = SumOf(ps, "baseline")
           /\ Total(Differences(ps)) \in Int
           /\ SumOf(ps, "candidate") \in Int /\ SumOf(ps, "baseline") \in Int
<1> DEFINE qs == Improved(c, ps)
           D == DOMAIN ps
<1>1. D = 1 .. Len(ps) /\ Len(ps) \in Nat /\ IsFiniteSet(D) /\ Cardinality(D) = Len(ps)
  BY SequenceDomain
<1>2. Better(c) \in Int
  BY DEF Better
<1>3. \A i \in D : /\ ps[i].candidate \in Int /\ ps[i].baseline \in Int
                   /\ qs[i].candidate = ps[i].candidate + Better(c)
                   /\ qs[i].baseline = ps[i].baseline
  <2>1. ASSUME NEW i \in D
        PROVE  /\ ps[i].candidate \in Int /\ ps[i].baseline \in Int
               /\ qs[i].candidate = ps[i].candidate + Better(c)
               /\ qs[i].baseline = ps[i].baseline
    <3>1. ps[i] \in ScorePairs
      BY SequenceDomain
    <3>2. qs[i] = [ps[i] EXCEPT !.candidate = ps[i].candidate + Better(c)]
      BY DEF Improved
    <3>3. /\ qs[i].candidate = ps[i].candidate + Better(c)
          /\ qs[i].baseline = ps[i].baseline
      BY <3>1, <3>2 DEF ScorePairs
    <3>. QED  BY <3>1, <3>3, ScorePairFields
  <2> HIDE DEF qs
  <2>. QED  BY <2>1
<1>4. DOMAIN qs = D /\ Len(qs) = Len(ps)
  <2>1. qs = [i \in 1 .. Len(ps) |-> qs[i]]
    BY <1>1 DEF Improved
  <2>2. qs \in Seq({qs[i] : i \in D})
    BY <1>1, <2>1
  <2>. QED  BY <1>1, <2>1, <2>2
<1> DEFINE cand == [i \in D |-> ps[i]["candidate"]]
           better == [i \in D |-> qs[i]["candidate"]]
           base == [i \in D |-> ps[i]["baseline"]]
<1>5. /\ Total(better) = Total(cand) + Better(c) * Cardinality(D)
      /\ Total(cand) \in Int /\ Total(base) \in Int
  <2>1. DOMAIN cand = D /\ DOMAIN better = D /\ DOMAIN base = D
    OBVIOUS
  <2>2. \A i \in D : cand[i] \in Int /\ better[i] = cand[i] + Better(c) /\ base[i] \in Int
    BY <1>3
  <2> HIDE DEF cand, better, base, qs, D
  <2>3. Total(better) = Total(cand) + Better(c) * Cardinality(DOMAIN cand)
    <3>1. IsFiniteSet(DOMAIN cand) /\ DOMAIN better = DOMAIN cand
      BY <1>1, <2>1
    <3>2. \A i \in DOMAIN cand : cand[i] \in Int /\ better[i] = cand[i] + Better(c)
      BY <2>1, <2>2
    <3>. QED  BY <1>2, <3>1, <3>2, TotalShift
  <2>4. Total(cand) \in Int
    BY <1>1, <2>1, <2>2, TotalInteger
  <2>5. Total(base) \in Int
    BY <1>1, <2>1, <2>2, TotalInteger
  <2>. QED  BY <2>1, <2>3, <2>4, <2>5
<1>6. /\ Total(Differences(qs)) = Total(Differences(ps)) + Better(c) * Cardinality(D)
      /\ Total(Differences(ps)) \in Int
  <2> DEFINE d == Differences(ps)
             e == Differences(qs)
  <2>1. DOMAIN d = D /\ DOMAIN e = D
    BY <1>4 DEF Differences
  <2>2. \A i \in D : d[i] = ps[i].candidate - ps[i].baseline
                   /\ e[i] = qs[i].candidate - qs[i].baseline
    BY <1>4 DEF Differences
  <2>3. \A i \in D : d[i] \in Int /\ e[i] = d[i] + Better(c)
    <3>1. \A x, y, z \in Int : x - y \in Int /\ (x + z) - y = (x - y) + z
      OBVIOUS
    <3>2. ASSUME NEW i \in D PROVE d[i] \in Int /\ e[i] = d[i] + Better(c)
      <4>1. /\ ps[i].candidate \in Int /\ ps[i].baseline \in Int
            /\ qs[i].candidate = ps[i].candidate + Better(c)
            /\ qs[i].baseline = ps[i].baseline
        BY <1>3
      <4> HIDE DEF d, e, qs, D
      <4>. QED  BY <1>2, <2>2, <3>1, <4>1
    <3>. QED  BY <3>2
  <2> HIDE DEF d, e
  <2>4. Total(e) = Total(d) + Better(c) * Cardinality(D) /\ Total(d) \in Int
    BY <1>1, <1>2, <2>1, <2>3, TotalShift, TotalInteger
  <2>. QED  BY <2>4 DEF d, e
<1>7. SumOf(ps, "candidate") = Total(cand) /\ SumOf(ps, "baseline") = Total(base)
  BY DEF SumOf
<1>8. SumOf(qs, "candidate") = Total(better)
  BY <1>4 DEF SumOf
<1>9. [i \in DOMAIN qs |-> qs[i]["baseline"]] = base
  BY <1>3, <1>4
<1>10. SumOf(qs, "baseline") = Total(base)
  BY <1>9 DEF SumOf
<1>. QED  BY <1>1, <1>4, <1>5, <1>6, <1>7, <1>8, <1>10

(* The ends of the interval move by what every resample moves by.          *)
LEMMA AtRankShift ==
    ASSUME NEW s, NEW e, Integral(s, DOMAIN s), DOMAIN e = DOMAIN s, NEW k \in Int,
           \A i \in DOMAIN s : e[i] = s[i] + k,
           NEW r \in Int, r + 1 \in 1 .. Cardinality(DOMAIN s)
    PROVE  AtRank(s, r) \in Int /\ AtRank(e, r) = AtRank(s, r) + k
<1>1. Ranked(s, DOMAIN s, r + 1) \in Int
  BY RankedProperty
<1>2. Ranked(e, DOMAIN s, r + 1) = Ranked(s, DOMAIN s, r + 1) + k
  BY RankedShift
<1>. QED  BY <1>1, <1>2 DEF AtRank

LEMMA IntervalShift ==
    ASSUME NEW s, s \in [1 .. Resamples -> Int], NEW k \in Int, NEW e,
           e = [i \in DOMAIN s |-> s[i] + k]
    PROVE  /\ Interval(s).lower \in Int /\ Interval(s).upper \in Int
           /\ Interval(e).lower = Interval(s).lower + k
           /\ Interval(e).upper = Interval(s).upper + k
<1>1. /\ DOMAIN s = 1 .. Resamples /\ DOMAIN e = DOMAIN s
      /\ \A i \in DOMAIN s : e[i] = s[i] + k
  OBVIOUS
<1>2. Integral(s, DOMAIN s) /\ Cardinality(DOMAIN s) = Resamples
  BY GateVerdictAssumption, IntervalCount DEF Integral
<1>3. /\ LowerRank \in Int /\ LowerRank + 1 \in 1 .. Cardinality(DOMAIN s)
      /\ UpperRank \in Int /\ UpperRank + 1 \in 1 .. Cardinality(DOMAIN s)
  BY <1>2, RanksInRange, GateVerdictAssumption
<1>4. /\ AtRank(s, LowerRank) \in Int /\ AtRank(e, LowerRank) = AtRank(s, LowerRank) + k
      /\ AtRank(s, UpperRank) \in Int /\ AtRank(e, UpperRank) = AtRank(s, UpperRank) + k
  <2>1. ASSUME NEW r \in Int, r + 1 \in 1 .. Cardinality(DOMAIN s)
        PROVE  AtRank(s, r) \in Int /\ AtRank(e, r) = AtRank(s, r) + k
    <3>1. DOMAIN e = DOMAIN s /\ \A i \in DOMAIN s : e[i] = s[i] + k
      BY <1>1
    <3>. QED  BY ONLY <1>2, <2>1, <3>1, k \in Int, r \in Int, AtRankShift, SMTT(30)
  <2>. QED  BY <1>3, <2>1
<1>. QED  BY <1>4 DEF Interval

(* Better scores move interval and mean the same way: a classification is  *)
(* withheld as before, a regression that is left was one and was larger, a *)
(* floor that is breached was breached, and what was tolerated is.         *)
LEMMA BetterIsNoWorse ==
    ASSUME NEW c \in Criteria, NEW ps \in Seq(ScorePairs), ps # <<>>,
           NEW s \in [1 .. Resamples -> Int],
           Interval(s).lower <= Total(Differences(ps)),
           Total(Differences(ps)) <= Interval(s).upper
    PROVE  Severity[Verdict(c, Improved(c, ps),
                            [i \in DOMAIN s |-> s[i] + Better(c) * Len(ps)])]
             <= Severity[Verdict(c, ps, s)]
<1> DEFINE qs == Improved(c, ps)
           n == Len(ps)
           k == Better(c) * n
           e == [i \in DOMAIN s |-> s[i] + k]
           L == Interval(s).lower
           U == Interval(s).upper
           T == Total(Differences(ps))
           B == SumOf(ps, "baseline")
           C == SumOf(ps, "candidate")
           before == Classify(c, n, s)
           after == Classify(c, n, e)
<1>1. n \in Nat /\ n > 0
  OBVIOUS
<1>2. /\ c.direction = "higher_is_better" => k = n
      /\ c.direction = "lower_is_better" => k = -n
      /\ c.direction \in Directions /\ k \in Int
  BY <1>1, GateVerdictAssumption DEF Better, Directions
<1>3. /\ L \in Int /\ U \in Int /\ T \in Int /\ B \in Int /\ C \in Int
      /\ L <= T /\ T <= U
  BY <1>2, IntervalShift, SumsShift
<1>4. Interval(e).lower = L + k /\ Interval(e).upper = U + k
  BY <1>2, IntervalShift
<1>5. /\ Total(Differences(qs)) = T + k /\ SumOf(qs, "candidate") = C + k
      /\ SumOf(qs, "baseline") = B /\ Len(qs) = n /\ qs # <<>>
  BY <1>1, SumsShift
<1> HIDE DEF qs, n, k, e, L, U, T, B, C
<1>6. /\ c.precision = Unset \/ c.precision \in Nat
      /\ c.floor = Unset \/ c.floor \in Int
      /\ c.tolerance = Unset \/ c.tolerance \in Nat
      /\ c.onRegression \in Actions /\ c.onInsufficientEvidence \in Actions
  BY GateVerdictAssumption
<1>7. TooWide(c, n, Interval(e)) = TooWide(c, n, Interval(s))
  <2>1. (U + k) - (L + k) = U - L
    BY <1>2, <1>3
  <2>. QED  BY <1>4, <2>1 DEF TooWide, L, U
<1>8. /\ before = "insufficient_evidence" <=> after = "insufficient_evidence"
      /\ after = "regression" =>
           /\ before = "regression"
           /\ \/ c.direction = "higher_is_better" /\ U + n < 0
              \/ c.direction = "lower_is_better" /\ L - n > 0
  <2>1. /\ after = IF TooFew(c, n) \/ TooWide(c, n, Interval(s))
                   THEN "insufficient_evidence"
                   ELSE IF U + k < 0 THEN MovedDown(c)
                   ELSE IF L + k > 0 THEN MovedUp(c) ELSE "no_change"
        /\ before = IF TooFew(c, n) \/ TooWide(c, n, Interval(s))
                    THEN "insufficient_evidence"
                    ELSE IF U < 0 THEN MovedDown(c)
                    ELSE IF L > 0 THEN MovedUp(c) ELSE "no_change"
    BY <1>4, <1>7 DEF Classify, L, U
  <2> HIDE DEF before, after
  <2>2. CASE c.direction = "higher_is_better"
    BY <1>1, <1>2, <1>3, <2>1, <2>2 DEF MovedDown, MovedUp
  <2>3. CASE c.direction = "lower_is_better"
    BY <1>1, <1>2, <1>3, <2>1, <2>3 DEF MovedDown, MovedUp
  <2>. QED  BY <1>2, <2>2, <2>3 DEF Directions
<1>9. FloorBreached(c, qs) => FloorBreached(c, ps)
  <2>1. ASSUME c.floor \in Int, NEW m \in Int
        PROVE  (C + n < m => C < m) /\ (C - n > m => C > m)
    BY <1>1, <1>3
  <2>2. c.floor \in Int => c.floor * n \in Int
    BY <1>1
  <2>3. /\ FloorBreached(c, qs) =>
              /\ c.floor # Unset
              /\ IF c.direction = "higher_is_better" THEN C + k < c.floor * n
                 ELSE C + k > c.floor * n
        /\ (/\ c.floor # Unset
            /\ IF c.direction = "higher_is_better" THEN C < c.floor * n
               ELSE C > c.floor * n) => FloorBreached(c, ps)
    BY <1>5 DEF FloorBreached, C, n
  <2>4. C - n = C + (-n)
    BY <1>1, <1>3
  <2>. QED  BY <1>2, <1>6, <2>1, <2>2, <2>3, <2>4 DEF Directions
<1>10. after = "regression" /\ Tolerated(c, ps) => Tolerated(c, qs)
  <2> SUFFICES ASSUME after = "regression", Tolerated(c, ps) PROVE Tolerated(c, qs)
    OBVIOUS
  <2>1. /\ c.tolerance \in Nat /\ B # 0
        /\ AbsInt(T) * 100 <= c.tolerance * AbsInt(B)
    BY <1>6 DEF Tolerated, T, B
  <2>2. AbsInt(T + k) <= AbsInt(T) /\ AbsInt(T) \in Nat /\ AbsInt(T + k) \in Nat
    BY <1>1, <1>2, <1>3, <1>8 DEF AbsInt
  <2>3. c.tolerance * AbsInt(B) \in Int
    BY <1>3, <2>1 DEF AbsInt
  <2>4. AbsInt(T + k) * 100 <= c.tolerance * AbsInt(B)
    BY <2>1, <2>2, <2>3
  <2>. QED  BY <1>5, <2>1, <2>4 DEF Tolerated
<1> HIDE DEF before, after
<1> DEFINE v == ApplyThresholds(c, ps, before)
           w == ApplyThresholds(c, qs, after)
<1>11. /\ Severity[v] \in 0 .. 3 /\ Severity[w] \in 0 .. 3
       /\ Severity["hard_fail"] = 3 /\ Severity["pass"] = 0
  BY VerdictsAreGraded DEF Severity
<1>12. w = v \/ v = "hard_fail" \/ w = "pass"
  BY <1>8, <1>9, <1>10 DEF ApplyThresholds
<1>13. Severity[w] <= Severity[v]
  <2> HIDE DEF v, w
  <2>. QED  BY <1>11, <1>12
<1>14. Verdict(c, ps, s) = v /\ Verdict(c, qs, e) = w
  BY <1>5 DEF Verdict, before, after, n
<1>. QED  BY <1>13, <1>14 DEF qs, e, k, n

(* A uniformly better candidate fares no worse under any criterion, number *)
(* of pairs, resample count and confidence level (statistics.compare and   *)
(* engine._apply_thresholds agree on what better is).                      *)
THEOREM BetterFaresNoWorse == Spec => []BetterNeverFaresWorse
<1>1. EvidenceInv => BetterNeverFaresWorse
  BY BetterIsNoWorse DEF EvidenceInv, InHand, BetterNeverFaresWorse
<1>. QED  BY InitEvidence, NextEvidence, <1>1, PTL DEF Spec

-----------------------------------------------------------------------------
(* Drift.                                                                  *)

(* Means are numbers, configurations what the caller may give, and a       *)
(* baseline has one of its three states; so nothing approved is forgotten. *)
DriftInv ==
    /\ meanOf \in [MeasuredRuns -> Int \cup {NoScore}]
    /\ driftTolerance \in Int \cup {Unconfigured}
    /\ minimumHistory \in Int \cup {Unconfigured}
    /\ baselineState \in [MeasuredRuns -> {"pending_approval", "approved", "superseded"}]

LEMMA InitDrift == DriftInit => DriftInv
  BY QualityDriftAssumption DEF DriftInit, DriftInv

LEMMA NextDrift == DriftInv /\ [DriftNext]_driftVars => DriftInv'
<1> SUFFICES ASSUME DriftInv, [DriftNext]_driftVars PROVE DriftInv'
  OBVIOUS
<1>1. ASSUME NEW r \in MeasuredRuns, Approve(r) PROVE DriftInv'
  BY <1>1 DEF Approve, DriftInv
<1>2. CASE UNCHANGED driftVars
  BY <1>2 DEF driftVars, DriftInv
<1>. QED  BY <1>1, <1>2 DEF DriftNext

(* Half of an integer to a multiple of Grain is off by half of it at most. *)
LEMMA QuantizedIsNear ==
    ASSUME NEW sum \in Int
    PROVE  /\ Quantized(sum) \in Int
           /\ 2 * Quantized(sum) - sum <= Grain
           /\ sum - 2 * Quantized(sum) <= Grain
<1> DEFINE g == 2 * Grain
           whole == sum \div g
           rest == sum % g
<1>1. Grain \in Int /\ Grain >= 1 /\ g \in Int /\ g >= 2
  BY QualityDriftAssumption
<1>2. /\ whole \in Int /\ rest \in Int /\ 0 <= rest /\ rest < g
      /\ sum = g * whole + rest
  <2> HIDE DEF g
  <2>. QED  BY <1>1
<1> DEFINE up == ~ (rest < Grain \/ (rest = Grain /\ whole % 2 = 0))
<1>3. Quantized(sum) = Grain * (IF up THEN whole + 1 ELSE whole)
  BY DEF Quantized
<1>4. up => rest >= Grain
  BY <1>1, <1>2
<1>5. ~ up => rest <= Grain
  BY <1>1, <1>2
<1> HIDE DEF whole, rest, up
<1>6. g * whole = 2 * (Grain * whole) /\ Grain * (whole + 1) = Grain * whole + Grain
      /\ Grain * whole \in Int
  BY <1>1, <1>2
<1>7. CASE up
  <2>1. Quantized(sum) = Grain * whole + Grain
    BY <1>3, <1>6, <1>7
  <2>. QED  BY <1>1, <1>2, <1>4, <1>6, <1>7, <2>1
<1>8. CASE ~ up
  <2>1. Quantized(sum) = Grain * whole
    BY <1>3, <1>8
  <2>. QED  BY <1>1, <1>2, <1>5, <1>6, <1>8, <2>1
<1>. QED  BY <1>7, <1>8

(* The two middle ones of the history, and how far the median is from      *)
(* their middle.                                                           *)
LEMMA MedianIsInTheMiddle ==
    ASSUME DriftInv, Size >= 1
    PROVE  \E l, u \in Int :
             /\ l <= u /\ Median \in Int
             /\ 2 * Median - (l + u) <= Grain /\ (l + u) - 2 * Median <= Grain
             /\ Size <= 2 * Cardinality(AtMost(meanOf, History, l))
             /\ 2 * Cardinality(Below(meanOf, History, u)) <= Size
             /\ 2 * Cardinality(Below(meanOf, History, l)) <= Size
             /\ Size <= 2 * Cardinality(AtMost(meanOf, History, u))
<1>1. History \in SUBSET MeasuredRuns /\ \A r \in History : meanOf[r] \in Int
  BY DEF History, DriftInv
<1>2. Integral(meanOf, History) /\ Size \in Nat
  BY <1>1, QualityDriftAssumption, FS_Subset, FS_CardinalityType DEF Integral, Size
<1> DEFINE h == Size \div 2
           u == Ranked(meanOf, History, h + 1)
<1>3. h \in Int /\ (Size % 2 = 1 => Size = 2 * h + 1) /\ (Size % 2 # 1 => Size = 2 * h)
      /\ h >= 0
  BY <1>2
<1>4. h + 1 \in 1 .. Cardinality(History)
  BY <1>2, <1>3 DEF Size
<1> HIDE DEF h
<1>5. IsRanked(meanOf, History, h + 1, u) /\ u \in Int
  BY <1>2, <1>4, RankedProperty
<1>6. /\ Cardinality(Below(meanOf, History, u)) \in Nat
      /\ Cardinality(AtMost(meanOf, History, u)) \in Nat
  BY <1>2, CountsFinite DEF Integral
<1>7. /\ Cardinality(Below(meanOf, History, u)) < h + 1
      /\ h + 1 <= Cardinality(AtMost(meanOf, History, u))
  BY <1>5 DEF IsRanked
<1>8. CASE Size % 2 = 1
  <2>1. Median = u
    BY <1>8 DEF Median, h
  <2> HIDE DEF u
  <2>2. /\ 2 * u - (u + u) <= Grain /\ (u + u) - 2 * u <= Grain
    BY <1>5, QualityDriftAssumption
  <2>3. /\ Size <= 2 * Cardinality(AtMost(meanOf, History, u))
        /\ 2 * Cardinality(Below(meanOf, History, u)) <= Size
    BY <1>3, <1>6, <1>7, <1>8
  <2>. QED  BY <1>5, <2>1, <2>2, <2>3
<1>9. CASE Size % 2 # 1
  <2> DEFINE l == Ranked(meanOf, History, h)
  <2>1. h \in 1 .. Cardinality(History) /\ Size = 2 * h
    BY <1>2, <1>3, <1>4, <1>9 DEF Size
  <2>2. IsRanked(meanOf, History, h, l) /\ l \in Int
    BY <1>2, <2>1, RankedProperty
  <2>3. l <= u
    BY <1>2, <1>3, <1>4, <2>1, RankedMonotone
  <2>4. /\ Cardinality(Below(meanOf, History, l)) \in Nat
        /\ Cardinality(AtMost(meanOf, History, l)) \in Nat
    BY <1>2, CountsFinite DEF Integral
  <2>5. /\ Cardinality(Below(meanOf, History, l)) < h
        /\ h <= Cardinality(AtMost(meanOf, History, l))
    BY <2>2 DEF IsRanked
  <2>6. Median = Quantized(l + u)
    BY <1>9 DEF Median, h
  <2> HIDE DEF l, u
  <2>7. /\ Median \in Int
        /\ 2 * Median - (l + u) <= Grain /\ (l + u) - 2 * Median <= Grain
    BY <1>5, <2>2, <2>6, QuantizedIsNear
  <2>8. /\ Size <= 2 * Cardinality(AtMost(meanOf, History, l))
        /\ 2 * Cardinality(Below(meanOf, History, u)) <= Size
        /\ 2 * Cardinality(Below(meanOf, History, l)) <= Size
        /\ Size <= 2 * Cardinality(AtMost(meanOf, History, u))
    BY <1>3, <1>6, <1>7, <2>1, <2>4, <2>5
  <2>. QED  BY <1>5, <2>2, <2>3, <2>7, <2>8
<1>. QED  BY <1>8, <1>9

LEMMA ManyAgree == DriftInv => DriftIsOfTheMany
<1> SUFFICES ASSUME DriftInv PROVE DriftIsOfTheMany
  OBVIOUS
<1> DEFINE m == meanOf[Analysed]
           n == Cardinality(Others)
<1>1. Others = History /\ n = Size
  BY DEF Others, History, Size, DriftInv
<1>2. IsFiniteSet(Others) /\ n \in Nat /\ Integral(meanOf, Others)
  <2>1. Others \in SUBSET MeasuredRuns /\ \A r \in Others : meanOf[r] \in Int
    BY DEF Others, DriftInv
  <2>. QED  BY <2>1, QualityDriftAssumption, FS_Subset, FS_CardinalityType DEF Integral
<1>3. Conclusive => n >= LeastHistory
  BY <1>1, <1>2 DEF Conclusive, DriftClass, LeastHistory, MinimumHistoryFloor, DriftInv
<1>4. DriftClass = "insufficient_history" => n < LeastHistory
  BY <1>1, <1>2 DEF DriftClass, LeastHistory, MinimumHistoryFloor, DriftInv
<1>5. ASSUME Conclusive
      PROVE  /\ n >= 2 /\ m \in Int /\ driftTolerance \in Int
             /\ DriftClass = "drifted" => Distance(m, Median) > driftTolerance
             /\ DriftClass = "stable" => ~ (Distance(m, Median) > driftTolerance)
  BY <1>1, <1>2, <1>5, QualityDriftAssumption
     DEF Conclusive, DriftClass, MinimumHistoryFloor, DriftInv
<1>6. n \in Nat
  BY <1>2
<1>7. ASSUME Conclusive
      PROVE  \E l, u \in Int :
             /\ l <= u /\ Median \in Int
             /\ 2 * Median - (l + u) <= Grain /\ (l + u) - 2 * Median <= Grain
             /\ n <= 2 * Cardinality(AtMost(meanOf, Others, l))
             /\ 2 * Cardinality(Below(meanOf, Others, u)) <= n
             /\ 2 * Cardinality(Below(meanOf, Others, l)) <= n
             /\ n <= 2 * Cardinality(AtMost(meanOf, Others, u))
  <2>1. Size >= 1
    BY <1>1, <1>2, <1>5, <1>7
  <2>. QED  BY <1>1, <2>1, MedianIsInTheMiddle
<1> HIDE DEF n
<1>8. ASSUME NEW gap \in Int
      PROVE  /\ IsFiniteSet(Beneath(gap)) /\ Cardinality(Beneath(gap)) \in Nat
             /\ IsFiniteSet(Above(gap)) /\ Cardinality(Above(gap)) \in Nat
             /\ Beneath(gap) \in SUBSET Others /\ Above(gap) \in SUBSET Others
  <2>1. Beneath(gap) \in SUBSET Others /\ Above(gap) \in SUBSET Others
    BY DEF Beneath, Above
  <2>. QED  BY <1>2, <2>1, FS_Subset, FS_CardinalityType
<1>9. ASSUME NEW v \in Int
      PROVE  /\ IsFiniteSet(Below(meanOf, Others, v))
             /\ Cardinality(Below(meanOf, Others, v)) \in Nat
             /\ IsFiniteSet(AtMost(meanOf, Others, v))
             /\ Cardinality(AtMost(meanOf, Others, v)) \in Nat
             /\ IsFiniteSet(Others \ AtMost(meanOf, Others, v))
             /\ Cardinality(Others \ AtMost(meanOf, Others, v))
                  = n - Cardinality(AtMost(meanOf, Others, v))
             /\ IsFiniteSet(Others \ Below(meanOf, Others, v))
             /\ Cardinality(Others \ Below(meanOf, Others, v))
                  = n - Cardinality(Below(meanOf, Others, v))
  <2>1. /\ AtMost(meanOf, Others, v) \in SUBSET Others
        /\ Below(meanOf, Others, v) \in SUBSET Others
    BY DEF AtMost, Below
  <2>2. \A S \in SUBSET Others :
          /\ IsFiniteSet(Others \ S)
          /\ Cardinality(Others \ S) = Cardinality(Others) - Cardinality(S)
    <3>1. \A S \in SUBSET Others : S = Others \cap S
      OBVIOUS
    <3>. QED  BY <1>2, <3>1, FS_Difference
  <2>3. /\ IsFiniteSet(Below(meanOf, Others, v))
        /\ Cardinality(Below(meanOf, Others, v)) \in Nat
        /\ IsFiniteSet(AtMost(meanOf, Others, v))
        /\ Cardinality(AtMost(meanOf, Others, v)) \in Nat
    BY <1>2, CountsFinite
  <2>. QED  BY <2>1, <2>2, <2>3 DEF n
<1>10. Grain \in Nat /\ driftTolerance \in Int \cup {Unconfigured}
  BY QualityDriftAssumption DEF DriftInv
<1>11. ASSUME DriftClass = "drifted"
       PROVE  \/ 2 * Cardinality(Beneath(2 * driftTolerance - Grain)) >= n
              \/ 2 * Cardinality(Above(2 * driftTolerance - Grain)) >= n
  <2> DEFINE gap == 2 * driftTolerance - Grain
  <2>1. /\ Conclusive /\ n >= 2 /\ m \in Int /\ driftTolerance \in Int /\ gap \in Int
        /\ Distance(m, Median) > driftTolerance
    BY <1>5, <1>10, <1>11 DEF Conclusive
  <2>2. PICK l \in Int, u \in Int :
             /\ l <= u /\ Median \in Int
             /\ 2 * Median - (l + u) <= Grain /\ (l + u) - 2 * Median <= Grain
             /\ n <= 2 * Cardinality(AtMost(meanOf, Others, l))
             /\ 2 * Cardinality(Below(meanOf, Others, u)) <= n
    BY <1>7, <2>1
  <2>3. CASE m > Median
    <3>1. 2 * m - (l + u) > gap
      BY <1>10, <2>1, <2>2, <2>3 DEF Distance
    <3>2. AtMost(meanOf, Others, l) \in SUBSET Beneath(gap)
      <4>1. ASSUME NEW r \in Others, meanOf[r] <= l PROVE 2 * (m - meanOf[r]) > gap
        <5>1. meanOf[r] \in Int
          BY <1>2 DEF Integral
        <5> HIDE DEF gap, m
        <5>. QED  BY <2>1, <2>2, <3>1, <4>1, <5>1
      <4>. QED  BY <4>1 DEF AtMost, Beneath
    <3>3. Cardinality(AtMost(meanOf, Others, l)) <= Cardinality(Beneath(gap))
      BY <1>8, <2>1, <3>2, FS_Subset
    <3>4. Cardinality(AtMost(meanOf, Others, l)) \in Nat
      BY <1>9
    <3>5. Cardinality(Beneath(gap)) \in Nat
      BY <1>8, <2>1
    <3> HIDE DEF gap
    <3>6. 2 * Cardinality(Beneath(gap)) >= n
      BY <1>6, <2>2, <3>3, <3>4, <3>5
    <3>. QED  BY <3>6 DEF gap
  <2>4. CASE ~ (m > Median)
    <3>1. (l + u) - 2 * m > gap
      BY <1>10, <2>1, <2>2, <2>4 DEF Distance
    <3>2. (Others \ Below(meanOf, Others, u)) \in SUBSET Above(gap)
      <4>1. ASSUME NEW r \in Others, ~ (meanOf[r] < u) PROVE 2 * (meanOf[r] - m) > gap
        <5>1. meanOf[r] \in Int
          BY <1>2 DEF Integral
        <5> HIDE DEF gap, m
        <5>. QED  BY <2>1, <2>2, <3>1, <4>1, <5>1
      <4>. QED  BY <4>1 DEF Below, Above
    <3>3. Cardinality(Others \ Below(meanOf, Others, u)) <= Cardinality(Above(gap))
      BY <1>8, <2>1, <3>2, FS_Subset
    <3>4. /\ Cardinality(Below(meanOf, Others, u)) \in Nat
          /\ Cardinality(Others \ Below(meanOf, Others, u))
               = n - Cardinality(Below(meanOf, Others, u))
      BY <1>9
    <3>5. Cardinality(Above(gap)) \in Nat
      BY <1>8, <2>1
    <3> HIDE DEF gap
    <3>6. 2 * Cardinality(Above(gap)) >= n
      BY <1>6, <2>2, <3>3, <3>4, <3>5
    <3>. QED  BY <3>6 DEF gap
  <2>. QED  BY <2>3, <2>4
<1>12. ASSUME DriftClass = "stable"
       PROVE  /\ 2 * Cardinality(Beneath(2 * driftTolerance + Grain)) <= n
              /\ 2 * Cardinality(Above(2 * driftTolerance + Grain)) <= n
  <2> DEFINE gap == 2 * driftTolerance + Grain
  <2>1. /\ Conclusive /\ n >= 2 /\ m \in Int /\ driftTolerance \in Int /\ gap \in Int
        /\ ~ (Distance(m, Median) > driftTolerance)
    BY <1>5, <1>10, <1>12 DEF Conclusive
  <2>2. PICK l \in Int, u \in Int :
             /\ l <= u /\ Median \in Int
             /\ 2 * Median - (l + u) <= Grain /\ (l + u) - 2 * Median <= Grain
             /\ n <= 2 * Cardinality(AtMost(meanOf, Others, l))
             /\ 2 * Cardinality(Below(meanOf, Others, u)) <= n
    BY <1>7, <2>1
  <2>3. 2 * m - (l + u) <= gap /\ (l + u) - 2 * m <= gap
    BY <1>10, <2>1, <2>2 DEF Distance
  <2>4. Beneath(gap) \in SUBSET Below(meanOf, Others, u)
    <3>1. ASSUME NEW r \in Others, 2 * (m - meanOf[r]) > gap PROVE meanOf[r] < u
      <4>1. meanOf[r] \in Int
        BY <1>2 DEF Integral
      <4> HIDE DEF gap, m
      <4>. QED  BY <2>1, <2>2, <2>3, <3>1, <4>1
    <3>. QED  BY <3>1 DEF Beneath, Below
  <2>5. Above(gap) \in SUBSET (Others \ AtMost(meanOf, Others, l))
    <3>1. ASSUME NEW r \in Others, 2 * (meanOf[r] - m) > gap PROVE ~ (meanOf[r] <= l)
      <4>1. meanOf[r] \in Int
        BY <1>2 DEF Integral
      <4> HIDE DEF gap, m
      <4>. QED  BY <2>1, <2>2, <2>3, <3>1, <4>1
    <3>. QED  BY <3>1 DEF Above, AtMost
  <2>6. /\ Cardinality(Beneath(gap)) <= Cardinality(Below(meanOf, Others, u))
        /\ Cardinality(Above(gap)) <= Cardinality(Others \ AtMost(meanOf, Others, l))
    BY <1>9, <2>4, <2>5, <2>2, FS_Subset
  <2>7. /\ Cardinality(Below(meanOf, Others, u)) \in Nat
        /\ Cardinality(AtMost(meanOf, Others, l)) \in Nat
        /\ Cardinality(Others \ AtMost(meanOf, Others, l))
             = n - Cardinality(AtMost(meanOf, Others, l))
    BY <1>9
  <2>8. Cardinality(Beneath(gap)) \in Nat /\ Cardinality(Above(gap)) \in Nat
    BY <1>8, <2>1
  <2> HIDE DEF gap
  <2>9. 2 * Cardinality(Beneath(gap)) <= n /\ 2 * Cardinality(Above(gap)) <= n
    BY <1>6, <2>2, <2>6, <2>7, <2>8
  <2>. QED  BY <2>9 DEF gap
<1>. QED  BY <1>3, <1>4, <1>11, <1>12 DEF DriftIsOfTheMany, n

(* Drift is judged against the many, for any number of baselines, any      *)
(* scores and any resolution: the median of analytics/drift.py has half of *)
(* the history on either side, and rounding moves it by half the           *)
(* resolution at most.                                                     *)
THEOREM DriftNeedsTheMany == DriftSpec => []DriftIsOfTheMany
<1>1. DriftSpec => []DriftInv
  BY InitDrift, NextDrift, PTL DEF DriftSpec
<1>. QED  BY <1>1, ManyAgree, PTL
=============================================================================
