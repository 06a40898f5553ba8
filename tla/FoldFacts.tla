----------------------------- MODULE FoldFacts -----------------------------
(***************************************************************************)
(* Induction over data.  The folds of the community modules are recursive  *)
(* functions over the subsets of a set; here it is proved, from the        *)
(* well-foundedness of inclusion on finite sets, that such a fold exists,  *)
(* meets its equation, and keeps whatever each of its steps keeps.  What   *)
(* is folded, the order and the look-up are parameters of the module, so   *)
(* that a proof instantiates it once for each fold of the model.           *)
(***************************************************************************)
EXTENDS FiniteSetTheorems, WellFoundedInduction, TLAPS

CONSTANTS
    Op(_, _, _),   \* Op(e, x, value): the step, in some surroundings e
    Pick(_),       \* which element of a set is taken first
    At(_, _)       \* At(a, i): the element of a at the index i

Chosen(S) == \A T \in SUBSET S : T # {} => Pick(T) \in T

\* The equation of a fold: the value of a set from that of the set without
\* the element picked.
Solves(g, S, base, a, e) ==
    g = [s \in SUBSET S |-> IF s = {} THEN base ELSE Op(e, At(a, Pick(s)), g[s \ {Pick(s)}])]

Fold(S, base, a, e) == CHOOSE g : Solves(g, S, base, a, e)

-----------------------------------------------------------------------------

\* A finite set is reached from its smaller subsets.
LEMMA SubsetInduction ==
    ASSUME NEW S, IsFiniteSet(S), NEW Good,
           \A T \in SUBSET S : (\A U \in SUBSET T : U # T => U \in Good) => T \in Good
    PROVE  SUBSET S \subseteq Good
<1> DEFINE Bad == {T \in SUBSET S : T \notin Good}
<1> SUFFICES ASSUME Bad # {} PROVE FALSE
  OBVIOUS
<1>1. IsWellFoundedOn(StrictSubsetOrdering(S), FiniteSubsetsOf(S))
  BY FS_StrictSubsetOrderingWellFounded
<1>2. SUBSET S \subseteq FiniteSubsetsOf(S)
  BY FS_Subset DEF FiniteSubsetsOf
<1>3. PICK T \in Bad : \A U \in Bad : <<U, T>> \notin StrictSubsetOrdering(S)
  <2>1. Bad \subseteq FiniteSubsetsOf(S)
    BY <1>2
  <2> HIDE DEF Bad
  <2> QED
    BY <1>1, <2>1, WFMin
<1>4. \A U \in SUBSET T : U # T => U \in Good
  BY <1>3 DEF StrictSubsetOrdering
<1> QED
  BY <1>4

\* A finite set of integers that is not empty has a greatest element.
LEMMA GreatestExists ==
    ASSUME NEW S, IsFiniteSet(S), S \subseteq Int, S # {}
    PROVE  \E m \in S : \A n \in S : m >= n
<1> DEFINE Good == {T \in SUBSET S : T # {} => \E m \in T : \A n \in T : m >= n}
<1>1. ASSUME NEW T \in SUBSET S, \A U \in SUBSET T : U # T => U \in Good
      PROVE  T \in Good
  <2>1. CASE T = {}
    BY <2>1
  <2>2. CASE T # {}
    <3>1. PICK x \in T : TRUE
      BY <2>2
    <3>2. T \ {x} \in Good
      BY <1>1, <3>1
    <3>3. CASE T \ {x} = {}
      <4>1. \A n \in T : x >= n
        BY <3>3
      <4> QED
        BY <3>1, <4>1
    <3>4. CASE T \ {x} # {}
      <4>1. PICK m \in T \ {x} : \A n \in T \ {x} : m >= n
        BY <3>2, <3>4
      <4>2. CASE m >= x
        BY <4>1, <4>2
      <4>3. CASE x >= m
        <5>1. \A n \in T : x >= n
          BY <4>1, <4>3
        <5> QED
          BY <3>1, <5>1
      <4> QED
        BY <4>1, <4>2, <4>3
    <3> QED
      BY <3>3, <3>4
  <2> QED
    BY <2>1, <2>2
<1>2. S \in Good
  <2>1. S \in SUBSET S
    OBVIOUS
  <2> HIDE DEF Good
  <2> QED
    BY <1>1, <2>1, SubsetInduction
<1> QED
  BY <1>2

\* ... and a least one.
LEMMA LeastExists ==
    ASSUME NEW S, IsFiniteSet(S), S \subseteq Int, S # {}
    PROVE  \E m \in S : \A n \in S : m <= n
<1> DEFINE Good == {T \in SUBSET S : T # {} => \E m \in T : \A n \in T : m <= n}
<1>1. ASSUME NEW T \in SUBSET S, \A U \in SUBSET T : U # T => U \in Good
      PROVE  T \in Good
  <2>1. CASE T = {}
    BY <2>1
  <2>2. CASE T # {}
    <3>1. PICK x \in T : TRUE
      BY <2>2
    <3>2. T \ {x} \in Good
      BY <1>1, <3>1
    <3>3. CASE T \ {x} = {}
      <4>1. \A n \in T : x <= n
        BY <3>3
      <4> QED
        BY <3>1, <4>1
    <3>4. CASE T \ {x} # {}
      <4>1. PICK m \in T \ {x} : \A n \in T \ {x} : m <= n
        BY <3>2, <3>4
      <4>2. CASE m <= x
        BY <4>1, <4>2
      <4>3. CASE x <= m
        <5>1. \A n \in T : x <= n
          BY <4>1, <4>3
        <5> QED
          BY <3>1, <5>1
      <4> QED
        BY <4>1, <4>2, <4>3
    <3> QED
      BY <3>3, <3>4
  <2> QED
    BY <2>1, <2>2
<1>2. S \in Good
  <2>1. S \in SUBSET S
    OBVIOUS
  <2> HIDE DEF Good
  <2> QED
    BY <1>1, <2>1, SubsetInduction
<1> QED
  BY <1>2

\* Two solutions agree wherever both are defined.
LEMMA SolutionsAgree ==
    ASSUME NEW base, NEW a, NEW e,
           NEW S, NEW g, Solves(g, S, base, a, e),
           NEW R, NEW h, Solves(h, R, base, a, e),
           NEW T \in SUBSET S, T \in SUBSET R, IsFiniteSet(T), Chosen(T)
    PROVE  g[T] = h[T]
<1> DEFINE Good == {U \in SUBSET T : g[U] = h[U]}
<1>1. ASSUME NEW U \in SUBSET T, \A V \in SUBSET U : V # U => V \in Good
      PROVE  U \in Good
  <2>1. CASE U = {}
    BY <2>1 DEF Solves
  <2>2. CASE U # {}
    <3>1. Pick(U) \in U /\ U \ {Pick(U)} \in SUBSET U /\ U \ {Pick(U)} # U
      BY <2>2 DEF Chosen
    <3>2. g[U \ {Pick(U)}] = h[U \ {Pick(U)}]
      BY <1>1, <3>1
    <3>3. g[U] = Op(e, At(a, Pick(U)), g[U \ {Pick(U)}])
      BY <2>2 DEF Solves
    <3>4. h[U] = Op(e, At(a, Pick(U)), h[U \ {Pick(U)}])
      BY <2>2 DEF Solves
    <3> QED
      BY <3>2, <3>3, <3>4
  <2> QED
    BY <2>1, <2>2
<1>2. SUBSET T \subseteq Good
  <2> HIDE DEF Good
  <2> QED
    BY <1>1, SubsetInduction
<1> QED
  BY <1>2

\* There is a solution.
LEMMA FoldExists ==
    ASSUME NEW S, IsFiniteSet(S), Chosen(S), NEW base, NEW a, NEW e
    PROVE  Solves(Fold(S, base, a, e), S, base, a, e)
<1> DEFINE Good == {T \in SUBSET S : \E g : Solves(g, T, base, a, e)}
           Val(T) == Fold(T, base, a, e)[T]
<1>1. ASSUME NEW T \in SUBSET S, \A U \in SUBSET T : U # T => U \in Good
      PROVE  T \in Good
  <2> DEFINE next == Op(e, At(a, Pick(T)), Val(T \ {Pick(T)}))
             h == [t \in SUBSET T |-> IF t = {} THEN base ELSE IF t = T THEN next ELSE Val(t)]
  <2>1. ASSUME NEW U \in SUBSET T, U # T
        PROVE  Solves(Fold(U, base, a, e), U, base, a, e)
    BY <1>1, <2>1 DEF Fold
  <2>2. ASSUME NEW U \in SUBSET T, U # {}
        PROVE  h[U] = Op(e, At(a, Pick(U)), h[U \ {Pick(U)}])
    <3>1. Pick(U) \in U /\ U \ {Pick(U)} \in SUBSET T /\ U \ {Pick(U)} # T
      BY <2>2 DEF Chosen
    <3>2. Val(U \ {Pick(U)}) = h[U \ {Pick(U)}]
      <4>1. CASE U \ {Pick(U)} = {}
        <5>1. {} # T
          BY <2>2
        <5>2. Val({}) = base
          BY <5>1, <2>1 DEF Solves
        <5> QED
          BY <4>1, <5>2
      <4>2. CASE U \ {Pick(U)} # {}
        BY <3>1, <4>2
      <4> QED
        BY <4>1, <4>2
    <3>3. CASE U = T
      BY <2>2, <3>2, <3>3
    <3>4. CASE U # T
      <4> DEFINE V == U \ {Pick(U)}
      <4>1. Solves(Fold(U, base, a, e), U, base, a, e)
        BY <2>1, <3>4
      <4>2. Solves(Fold(V, base, a, e), V, base, a, e)
        BY <2>1, <3>1
      <4>3. IsFiniteSet(V) /\ Chosen(V) /\ V \in SUBSET U /\ V \in SUBSET V
        BY <3>1, FS_Subset DEF Chosen
      <4>4. Fold(U, base, a, e)[V] = Fold(V, base, a, e)[V]
        BY <4>1, <4>2, <4>3, SolutionsAgree
      <4>5. Fold(U, base, a, e)[U] = Op(e, At(a, Pick(U)), Fold(U, base, a, e)[V])
        BY <4>1, <2>2 DEF Solves
      <4>6. h[U] = Val(U)
        BY <2>2, <3>4
      <4> QED
        BY <3>2, <4>4, <4>5, <4>6
    <3> QED
      BY <3>3, <3>4
  <2>3. h = [t \in SUBSET T |-> IF t = {} THEN base ELSE Op(e, At(a, Pick(t)), h[t \ {Pick(t)}])]
    <3>1. h = [t \in SUBSET T |-> h[t]]
      OBVIOUS
    <3>2. h[{}] = base
      OBVIOUS
    <3> HIDE DEF h
    <3> QED
      BY <2>2, <3>1, <3>2
  <2>4. Solves(h, T, base, a, e)
    <3> HIDE DEF h
    <3> QED
      BY <2>3 DEF Solves
  <2> QED
    BY <2>4
<1>2. S \in Good
  <2>1. S \in SUBSET S
    OBVIOUS
  <2> HIDE DEF Good
  <2> QED
    BY <1>1, <2>1, SubsetInduction
<1> QED
  BY <1>2 DEF Fold

\* The fold over nothing is its base.
LEMMA FoldOfNothing ==
    ASSUME NEW S, IsFiniteSet(S), Chosen(S), NEW base, NEW a, NEW e
    PROVE  Fold(S, base, a, e)[{}] = base
<1>1. PICK g : g = Fold(S, base, a, e)
  OBVIOUS
<1>2. Solves(g, S, base, a, e)
  BY <1>1, FoldExists
<1>3. g[{}] = base
  BY <1>2 DEF Solves
<1> QED
  BY <1>1, <1>3

\* The fold over a part of the set takes one step from a smaller part.
LEMMA FoldStep ==
    ASSUME NEW S, IsFiniteSet(S), Chosen(S), NEW base, NEW a, NEW e,
           NEW T \in SUBSET S, T # {}
    PROVE  /\ Pick(T) \in T
           /\ Fold(S, base, a, e)[T] =
                  Op(e, At(a, Pick(T)), Fold(S, base, a, e)[T \ {Pick(T)}])
<1>1. PICK g : g = Fold(S, base, a, e)
  OBVIOUS
<1>2. Solves(g, S, base, a, e)
  BY <1>1, FoldExists
<1>3. g[T] = Op(e, At(a, Pick(T)), g[T \ {Pick(T)}])
  BY <1>2 DEF Solves
<1> QED
  BY <1>1, <1>3 DEF Chosen

\* The fold over a part does not depend on the whole.
LEMMA FoldOfPart ==
    ASSUME NEW S, IsFiniteSet(S), Chosen(S), NEW base, NEW a, NEW e, NEW T \in SUBSET S
    PROVE  Fold(S, base, a, e)[T] = Fold(T, base, a, e)[T]
<1>1. IsFiniteSet(T) /\ Chosen(T)
  BY FS_Subset DEF Chosen
<1>2. Solves(Fold(S, base, a, e), S, base, a, e) /\ Solves(Fold(T, base, a, e), T, base, a, e)
  BY <1>1, FoldExists
<1> QED
  BY <1>1, <1>2, SolutionsAgree

\* What holds of the base and is kept by every step holds of the fold.
THEOREM FoldKeeps ==
    ASSUME NEW S, IsFiniteSet(S), Chosen(S), NEW base, NEW a, NEW e,
           NEW Good, base \in Good,
           \A i \in S : \A value \in Good : Op(e, At(a, i), value) \in Good
    PROVE  Fold(S, base, a, e)[S] \in Good
<1> DEFINE Kept == {T \in SUBSET S : Fold(S, base, a, e)[T] \in Good}
<1>1. ASSUME NEW T \in SUBSET S, \A U \in SUBSET T : U # T => U \in Kept
      PROVE  T \in Kept
  <2>1. CASE T = {}
    BY <2>1, FoldOfNothing
  <2>2. CASE T # {}
    <3>1. /\ Pick(T) \in T
          /\ Fold(S, base, a, e)[T] =
                 Op(e, At(a, Pick(T)), Fold(S, base, a, e)[T \ {Pick(T)}])
      BY <2>2, FoldStep
    <3>2. Fold(S, base, a, e)[T \ {Pick(T)}] \in Good
      BY <1>1, <3>1
    <3> QED
      BY <3>1, <3>2
  <2> QED
    BY <2>1, <2>2
<1>2. S \in Kept
  <2>1. S \in SUBSET S
    OBVIOUS
  <2> HIDE DEF Kept
  <2> QED
    BY <1>1, <2>1, SubsetInduction
<1> QED
  BY <1>2

\* The equation of a fold, for every part at once.
StepsOf(F, S, base, a, e) ==
    /\ F[{}] = base
    /\ \A T \in SUBSET S : T # {} =>
           Pick(T) \in T /\ F[T] = Op(e, At(a, Pick(T)), F[T \ {Pick(T)}])

LEMMA FoldSteps ==
    ASSUME NEW S, IsFiniteSet(S), Chosen(S), NEW base, NEW a, NEW e
    PROVE  StepsOf(Fold(S, base, a, e), S, base, a, e)
  BY FoldOfNothing, FoldStep DEF StepsOf

\* What one step reaches, wherever the fold takes it, and every step keeps.
THEOREM FoldReaches ==
    ASSUME NEW S, IsFiniteSet(S), Chosen(S), NEW base, NEW a, NEW e,
           NEW Good, base \in Good,
           \A i \in S : \A value \in Good : Op(e, At(a, i), value) \in Good,
           NEW Best,
           \A i \in S : \A value \in Good \intersect Best : Op(e, At(a, i), value) \in Best,
           NEW k \in S, \A value \in Good : Op(e, At(a, k), value) \in Best
    PROVE  Fold(S, base, a, e)[S] \in Good \intersect Best
<1>0. PICK F : F = Fold(S, base, a, e) /\ StepsOf(F, S, base, a, e)
  BY FoldSteps
<1> DEFINE Kept == {T \in SUBSET S : /\ F[T] \in Good
                                     /\ k \in T => F[T] \in Best}
<1>1. ASSUME NEW T \in SUBSET S, \A U \in SUBSET T : U # T => U \in Kept
      PROVE  T \in Kept
  <2>1. CASE T = {}
    BY <1>0, <2>1 DEF StepsOf
  <2>2. CASE T # {}
    <3>1. /\ Pick(T) \in T
          /\ F[T] = Op(e, At(a, Pick(T)), F[T \ {Pick(T)}])
      BY <1>0, <2>2 DEF StepsOf
    <3>2. PICK before : before = F[T \ {Pick(T)}]
      OBVIOUS
    <3>3. before \in Good /\ (k \in T \ {Pick(T)} => before \in Best)
      <4>1. T \ {Pick(T)} \in SUBSET T /\ T \ {Pick(T)} # T
        BY <3>1
      <4>2. T \ {Pick(T)} \in Kept
        BY <1>1, <4>1
      <4> QED
        BY <3>2, <4>2
    <3>4. Pick(T) \in S /\ Op(e, At(a, Pick(T)), before) \in Good
      BY <3>1, <3>3
    <3>5. ASSUME k \in T PROVE Op(e, At(a, Pick(T)), before) \in Best
      <4>1. CASE Pick(T) = k
        BY <3>3, <4>1
      <4>2. CASE Pick(T) # k
        BY <3>3, <3>4, <3>5, <4>2
      <4> QED
        BY <4>1, <4>2
    <3> QED
      BY <3>1, <3>2, <3>4, <3>5
  <2> QED
    BY <2>1, <2>2
<1>2. S \in Kept
  <2>1. S \in SUBSET S
    OBVIOUS
  <2> HIDE DEF Kept
  <2> QED
    BY <1>1, <2>1, SubsetInduction
<1> QED
  BY <1>0, <1>2

-----------------------------------------------------------------------------
(* Sums: the folds that add up what they find.                             *)

AddsUp == \A e, n, m : Op(e, n, m) = n + m
Adds == AddsUp /\ \A a, i : At(a, i) = a[i]

\* F has the sums of f over the subsets of S.
IsSum(F, S, f) ==
    /\ F[{}] = 0
    /\ \A T \in SUBSET S : T # {} => Pick(T) \in T /\ F[T] = f[Pick(T)] + F[T \ {Pick(T)}]

\* A fold that adds up has the sums of what it looks up.
LEMMA SumStep ==
    ASSUME AddsUp, NEW S, IsFiniteSet(S), Chosen(S), NEW a, NEW e, NEW f, \A x \in S : At(a, x) = f[x],
           NEW F, F = Fold(S, 0, a, e)
    PROVE  IsSum(F, S, f)
<1>1. Solves(F, S, 0, a, e)
  BY FoldExists
<1>2. F[{}] = 0
  BY <1>1 DEF Solves
<1>3. ASSUME NEW T \in SUBSET S, T # {}
      PROVE  F[T] = Op(e, At(a, Pick(T)), F[T \ {Pick(T)}])
  BY <1>1, <1>3 DEF Solves
<1>4. ASSUME NEW T \in SUBSET S, T # {}
      PROVE  Pick(T) \in T /\ F[T] = f[Pick(T)] + F[T \ {Pick(T)}]
  <2>1. Pick(T) \in T /\ Pick(T) \in S
    BY <1>4 DEF Chosen
  <2> QED
    BY <1>3, <1>4, <2>1 DEF AddsUp
<1> QED
  BY <1>2, <1>4 DEF IsSum

DifferAt(f, g, S, k, d) ==
    /\ d \in Int
    /\ \A x \in S : f[x] \in Int
    /\ \A x \in S \ {k} : g[x] = f[x]
    /\ k \in S => g[k] = f[k] + d

\* Two functions that differ by d at one point differ by d in every sum over it.
LEMMA SumsShift ==
    ASSUME NEW S, IsFiniteSet(S), NEW f, NEW g, NEW k, NEW d, DifferAt(f, g, S, k, d),
           NEW F, NEW G, IsSum(F, S, f), IsSum(G, S, g)
    PROVE  F[S] \in Int /\ G[S] = F[S] + (IF k \in S THEN d ELSE 0)
<1> DEFINE Good == {T \in SUBSET S : /\ F[T] \in Int
                                     /\ G[T] = F[T] + (IF k \in T THEN d ELSE 0)}
<1> USE DEF DifferAt
<1>3. ASSUME NEW T \in SUBSET S, \A U \in SUBSET T : U # T => U \in Good
      PROVE  T \in Good
  <2>1. CASE T = {}
    BY <2>1 DEF IsSum
  <2>2. CASE T # {}
    <3>1. PICK x \in T : x = Pick(T)
      BY <2>2 DEF IsSum
    <3>2. F[T] = f[x] + F[T \ {x}]
      BY <2>2, <3>1 DEF IsSum
    <3>3. G[T] = g[x] + G[T \ {x}]
      BY <2>2, <3>1 DEF IsSum
    <3>4. T \ {x} \in Good
      BY <1>3, <3>1
    <3>5. F[T \ {x}] \in Int /\ G[T \ {x}] = F[T \ {x}] + (IF k \in T \ {x} THEN d ELSE 0)
      BY <3>4
    <3>6. f[x] \in Int
      BY <3>1
    <3>7. CASE x = k
      <4>1. g[x] = f[x] + d /\ G[T \ {x}] = F[T \ {x}]
        BY <3>1, <3>5, <3>7
      <4>2. F[T] \in Int /\ G[T] = F[T] + d
        BY <3>2, <3>3, <3>5, <3>6, <4>1
      <4> QED
        BY <3>1, <3>7, <4>2
    <3>8. CASE x # k
      <4>1. g[x] = f[x] /\ (k \in T <=> k \in T \ {x})
        BY <3>1, <3>8
      <4>2. F[T] \in Int /\ G[T] = F[T] + (IF k \in T THEN d ELSE 0)
        BY <3>2, <3>3, <3>5, <3>6, <4>1
      <4> QED
        BY <4>2
    <3> QED
      BY <3>7, <3>8
  <2> QED
    BY <2>1, <2>2
<1>4. S \in Good
  <2>1. S \in SUBSET S
    OBVIOUS
  <2> HIDE DEF Good
  <2> QED
    BY <1>3, <2>1, SubsetInduction
<1> QED
  BY <1>4

\* Functions that agree have the same sum.
LEMMA SumsAgree ==
    ASSUME NEW S, IsFiniteSet(S), NEW f, NEW g, \A x \in S : f[x] \in Int /\ g[x] = f[x],
           NEW F, NEW G, IsSum(F, S, f), IsSum(G, S, g)
    PROVE  F[S] \in Int /\ G[S] = F[S]
<1>1. DifferAt(f, g, S, 0, 0)
  BY DEF DifferAt
<1>2. F[S] \in Int /\ G[S] = F[S] + (IF 0 \in S THEN 0 ELSE 0)
  BY <1>1, SumsShift
<1> QED
  BY <1>2

\* Sums compare as what they add up does.
LEMMA SumsCompare ==
    ASSUME NEW S, IsFiniteSet(S), NEW f, NEW g, \A x \in S : f[x] \in Int /\ g[x] \in Int /\ f[x] <= g[x],
           NEW F, NEW G, IsSum(F, S, f), IsSum(G, S, g)
    PROVE  F[S] \in Int /\ G[S] \in Int /\ F[S] <= G[S]
<1> DEFINE Good == {T \in SUBSET S : /\ F[T] \in Int /\ G[T] \in Int
                                     /\ F[T] <= G[T]}
<1>3. ASSUME NEW T \in SUBSET S, \A U \in SUBSET T : U # T => U \in Good
      PROVE  T \in Good
  <2>1. CASE T = {}
    BY <2>1 DEF IsSum
  <2>2. CASE T # {}
    <3>1. PICK x \in T : x = Pick(T)
      BY <2>2 DEF IsSum
    <3>2. F[T] = f[x] + F[T \ {x}]
      BY <2>2, <3>1 DEF IsSum
    <3>3. G[T] = g[x] + G[T \ {x}]
      BY <2>2, <3>1 DEF IsSum
    <3>4. T \ {x} \in Good
      BY <1>3, <3>1
    <3>5. F[T \ {x}] \in Int /\ G[T \ {x}] \in Int /\ F[T \ {x}] <= G[T \ {x}]
      BY <3>4
    <3>6. f[x] \in Int /\ g[x] \in Int /\ f[x] <= g[x]
      BY <3>1
    <3>7. F[T] \in Int /\ G[T] \in Int /\ F[T] <= G[T]
      BY <3>2, <3>3, <3>5, <3>6
    <3> QED
      BY <3>7
  <2> QED
    BY <2>1, <2>2
<1>4. S \in Good
  <2>1. S \in SUBSET S
    OBVIOUS
  <2> HIDE DEF Good
  <2> QED
    BY <1>3, <2>1, SubsetInduction
<1> QED
  BY <1>4

\* A sum of what is not negative is not below any of it.
LEMMA SumsCover ==
    ASSUME NEW S, IsFiniteSet(S), NEW f, \A x \in S : f[x] \in Nat, NEW F, IsSum(F, S, f)
    PROVE  F[S] \in Nat /\ \A k \in S : f[k] <= F[S]
<1> DEFINE Good == {T \in SUBSET S : F[T] \in Nat /\ \A k \in T : f[k] <= F[T]}
<1>3. ASSUME NEW T \in SUBSET S, \A U \in SUBSET T : U # T => U \in Good
      PROVE  T \in Good
  <2>1. CASE T = {}
    BY <2>1 DEF IsSum
  <2>2. CASE T # {}
    <3>1. PICK x \in T : x = Pick(T)
      BY <2>2 DEF IsSum
    <3>2. F[T] = f[x] + F[T \ {x}]
      BY <2>2, <3>1 DEF IsSum
    <3>3. T \ {x} \in Good
      BY <1>3, <3>1
    <3>4. F[T \ {x}] \in Nat /\ \A k \in T \ {x} : f[k] \in Nat /\ f[k] <= F[T \ {x}]
      BY <3>3
    <3>5. f[x] \in Nat
      BY <3>1
    <3>6. F[T] \in Nat /\ f[x] <= F[T] /\ F[T \ {x}] <= F[T]
      BY <3>2, <3>4, <3>5
    <3>7. \A k \in T : f[k] <= F[T]
      BY <3>4, <3>6
    <3> QED
      BY <3>6, <3>7
  <2> QED
    BY <2>1, <2>2
<1>4. S \in Good
  <2>1. S \in SUBSET S
    OBVIOUS
  <2> HIDE DEF Good
  <2> QED
    BY <1>3, <2>1, SubsetInduction
<1> QED
  BY <1>4

\* A factor can be taken out of a sum.
LEMMA SumsScale ==
    ASSUME NEW S, IsFiniteSet(S), NEW f, NEW g, NEW c \in Int, \A x \in S : f[x] \in Int /\ g[x] = c * f[x],
           NEW F, NEW G, IsSum(F, S, f), IsSum(G, S, g)
    PROVE  F[S] \in Int /\ G[S] = c * F[S]
<1> DEFINE Good == {T \in SUBSET S : /\ F[T] \in Int
                                     /\ G[T] = c * F[T]}
<1>3. ASSUME NEW T \in SUBSET S, \A U \in SUBSET T : U # T => U \in Good
      PROVE  T \in Good
  <2>1. CASE T = {}
    BY <2>1 DEF IsSum
  <2>2. CASE T # {}
    <3>1. PICK x \in T : x = Pick(T)
      BY <2>2 DEF IsSum
    <3>2. F[T] = f[x] + F[T \ {x}]
      BY <2>2, <3>1 DEF IsSum
    <3>3. G[T] = g[x] + G[T \ {x}]
      BY <2>2, <3>1 DEF IsSum
    <3>4. T \ {x} \in Good
      BY <1>3, <3>1
    <3>5. F[T \ {x}] \in Int /\ G[T \ {x}] = c * F[T \ {x}]
      BY <3>4
    <3>6. f[x] \in Int /\ g[x] = c * f[x]
      BY <3>1
    <3>7. F[T] \in Int /\ G[T] = c * F[T]
      BY <3>2, <3>3, <3>5, <3>6
    <3> QED
      BY <3>7
  <2> QED
    BY <2>1, <2>2
<1>4. S \in Good
  <2>1. S \in SUBSET S
    OBVIOUS
  <2> HIDE DEF Good
  <2> QED
    BY <1>3, <2>1, SubsetInduction
<1> QED
  BY <1>4

\* The same of the folds themselves.
LEMMA SumsDiffer ==
    ASSUME Adds, NEW S, IsFiniteSet(S), Chosen(S), NEW f, NEW g, NEW e, NEW k, NEW d,
           DifferAt(f, g, S, k, d)
    PROVE  /\ Fold(S, 0, f, e)[S] \in Int
           /\ Fold(S, 0, g, e)[S] = Fold(S, 0, f, e)[S] + (IF k \in S THEN d ELSE 0)
<1>1. PICK F, G : F = Fold(S, 0, f, e) /\ G = Fold(S, 0, g, e)
  OBVIOUS
<1>2. IsSum(F, S, f) /\ IsSum(G, S, g)
  <2>1. IsSum(F, S, f)
    BY <1>1, SumStep DEF Adds
  <2>2. IsSum(G, S, g)
    BY <1>1, SumStep DEF Adds
  <2> QED
    BY <2>1, <2>2
<1>3. F[S] \in Int /\ G[S] = F[S] + (IF k \in S THEN d ELSE 0)
  BY <1>2, SumsShift
<1> QED
  BY <1>1, <1>3

LEMMA SumIsAbove ==
    ASSUME Adds, NEW S, IsFiniteSet(S), Chosen(S), NEW f, NEW e, \A x \in S : f[x] \in Nat
    PROVE  /\ Fold(S, 0, f, e)[S] \in Nat
           /\ \A k \in S : f[k] <= Fold(S, 0, f, e)[S]
<1>1. PICK F : F = Fold(S, 0, f, e)
  OBVIOUS
<1>2. IsSum(F, S, f)
  BY <1>1, SumStep DEF Adds
<1>3. F[S] \in Nat /\ \A k \in S : f[k] <= F[S]
  BY <1>2, SumsCover
<1> QED
  BY <1>1, <1>3
=============================================================================
