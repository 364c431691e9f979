----------------------- MODULE RecommendationProofs -----------------------
(***************************************************************************)
(* Proofs about Recommendation, for every catalog, every budget and every  *)
(* model: what a slate owes to the intent it is shown for.                 *)
(*                                                                         *)
(* The mask is a loop over the requirements in the order of their ids, the *)
(* reduction of a batch a loop over its operations: both are recursive     *)
(* functions of the model, unfolded here by induction on sets of numbers.  *)
(* The operations of a plan are followed along the states of that          *)
(* reduction, facet by facet and then wish by wish, to the target the      *)
(* planner made of the frame.                                              *)
(* The inductive invariant has five parts:                                 *)
(*   Understood  the intent is within the rules, so that it has finitely   *)
(*               many requirements, and its ids are older than the turn    *)
(*   Searched    candidates and slates are eligible under the mask of the  *)
(*               intent, and as many as there are                          *)
(*   Planned     an accepted plan for the same goal leaves a category if   *)
(*               there was one                                             *)
(*   Framed      the intent is one of the release, and an accepted plan    *)
(*               leads to what the frame says                              *)
(*   Uttered     amounts are numbers, and where the ids sort as texts a    *)
(*               plan is refused only for what its frame asks              *)
(***************************************************************************)
EXTENDS Recommendation, FiniteSetTheorems, FunctionTheorems, SequenceTheorems,
        WellFoundedInduction, TLAPS

(* Induction *)

Less == {p \in Nat \X Nat : p[1] < p[2]}

LEMMA LessIsWellFounded == IsWellFoundedOn(Less, Nat)
<1>1. OpToRel(<, Nat) = Less
  BY Zenon DEF OpToRel, Less
<1> QED
  BY NatLessThanWellFounded, <1>1, Zenon

\* Induction, on a set of numbers.
LEMMA SetInduction ==
    ASSUME NEW S, 0 \in S, \A n \in Nat : n \in S => n + 1 \in S
    PROVE  Nat \subseteq S
<1> DEFINE T == Nat \ S
<1> SUFFICES ASSUME T # {} PROVE FALSE
  OBVIOUS
<1>1. \A n : n \in T <=> n \in Nat /\ n \notin S
  OBVIOUS
<1> HIDE DEF T
<1>2. PICK x \in T : \A y \in T : ~ (<<y, x>> \in Less)
  BY <1>1, LessIsWellFounded, WFMin
<1>3. x \in Nat /\ x # 0
  BY <1>1
<1>4. x - 1 \in Nat /\ x - 1 \in T
  BY <1>1, <1>3
<1>5. <<x - 1, x>> \in Less
  BY <1>3, <1>4 DEF Less
<1> QED
  BY <1>2, <1>4, <1>5

----------------------------------------------------------------------------
(* The order of preferences *)

IdTuples == Nat \X Nat \X Nat

\* A set of preferences that their ids put in one order.
Ordered(S) ==
    /\ IsFiniteSet(S)
    /\ \A p \in S : p.id \in IdTuples
    /\ \A p, q \in S : p.id = q.id => p = q

Before(S, p) == {q \in S : IdLess(q.id, p.id)}
Place(S, p) == Cardinality(Before(S, p))

LEMMA IdsInOrder ==
    ASSUME NEW a \in IdTuples, NEW b \in IdTuples, NEW c \in IdTuples
    PROVE  /\ ~IdLess(a, a)
           /\ IdLess(a, b) /\ IdLess(b, c) => IdLess(a, c)
           /\ a = b \/ IdLess(a, b) \/ IdLess(b, a)
<1>1. \A x \in IdTuples : /\ x[1] \in Int /\ x[2] \in Int /\ x[3] \in Int
                      /\ x = <<x[1], x[2], x[3]>>
  BY DEF IdTuples
<1> HIDE DEF IdTuples
<1>2. a[1] = b[1] /\ a[2] = b[2] /\ a[3] = b[3] => a = b
  BY <1>1
<1> QED
  BY <1>1, <1>2 DEF IdLess

LEMMA PlaceType ==
    ASSUME NEW S, Ordered(S), NEW p \in S
    PROVE  /\ Place(S, p) \in 0..(Cardinality(S) - 1)
           /\ IsFiniteSet(Before(S, p))
<1>1. Before(S, p) \in SUBSET S /\ p \notin Before(S, p)
  BY IdsInOrder DEF Before, Ordered
<1>2. IsFiniteSet(S) /\ Cardinality(S) \in Nat
  BY FS_CardinalityType DEF Ordered
<1>3. /\ IsFiniteSet(Before(S, p))
      /\ Cardinality(Before(S, p)) <= Cardinality(S)
      /\ Cardinality(Before(S, p)) # Cardinality(S)
  BY <1>1, <1>2, FS_Subset
<1>4. Cardinality(Before(S, p)) \in Nat
  BY <1>3, FS_CardinalityType
<1> QED
  BY <1>2, <1>3, <1>4 DEF Place

LEMMA PlacesGrow ==
    ASSUME NEW S, Ordered(S), NEW p \in S, NEW q \in S, IdLess(p.id, q.id)
    PROVE  Place(S, p) < Place(S, q)
<1>1. Before(S, p) \in SUBSET Before(S, q)
  <2> SUFFICES ASSUME NEW r \in S, IdLess(r.id, p.id) PROVE IdLess(r.id, q.id)
    BY DEF Before
  <2> QED
    BY IdsInOrder DEF Ordered
<1>2. p \in Before(S, q) /\ p \notin Before(S, p)
  BY IdsInOrder DEF Before, Ordered
<1>3. /\ Cardinality(Before(S, p)) <= Cardinality(Before(S, q))
      /\ Cardinality(Before(S, p)) # Cardinality(Before(S, q))
  BY <1>1, <1>2, PlaceType, FS_Subset
<1>4. Place(S, p) \in Int /\ Place(S, q) \in Int
  BY PlaceType
<1> QED
  BY <1>3, <1>4 DEF Place

LEMMA PlacesDiffer ==
    ASSUME NEW S, Ordered(S), NEW p \in S, NEW q \in S, Place(S, p) = Place(S, q)
    PROVE  p = q
<1>1. Place(S, p) \in Int
  BY PlaceType
<1>2. p.id \in IdTuples /\ q.id \in IdTuples /\ (p.id = q.id => p = q)
  BY DEF Ordered
<1>3. ~IdLess(p.id, q.id) /\ ~IdLess(q.id, p.id)
  BY <1>1, PlacesGrow
<1> QED
  BY <1>2, <1>3, IdsInOrder

LEMMA EveryPlace ==
    ASSUME NEW S, Ordered(S), NEW i \in 0..(Cardinality(S) - 1)
    PROVE  \E p \in S : Place(S, p) = i
<1> DEFINE N == Cardinality(S)
           f == [p \in S |-> Place(S, p)]
<1>1. IsFiniteSet(S) /\ N \in Nat
  BY FS_CardinalityType DEF Ordered
<1>2. IsFiniteSet(0..(N - 1)) /\ Cardinality(0..(N - 1)) = N
  BY <1>1, FS_Interval
<1>3. f \in [S -> 0..(N - 1)] /\ \A p, q \in S : f[p] = f[q] => p = q
  BY PlaceType, PlacesDiffer
<1> HIDE DEF N
<1>4. f \in Injection(S, 0..(N - 1))
  BY <1>3 DEF Injection, IsInjective
<1>5. f \in Surjection(S, 0..(N - 1))
  <2> HIDE DEF f
  <2> QED
    BY <1>1, <1>2, <1>4, FS_Injection DEF N
<1> QED
  BY <1>5 DEF Surjection, N

\* The tuple of a set of preferences lists each once, in the order of ids.
LEMMA Listing ==
    ASSUME NEW S, Ordered(S)
    PROVE  /\ Len(InOrder(S)) = Cardinality(S) /\ Cardinality(S) \in Nat
           /\ \A i \in 1..Cardinality(S) :
                 InOrder(S)[i] \in S /\ Place(S, InOrder(S)[i]) = i - 1
           /\ \A p \in S : \E i \in 1..Cardinality(S) : InOrder(S)[i] = p
<1> DEFINE N == Cardinality(S)
           At(i) == CHOOSE p \in S : Cardinality(Before(S, p)) = i - 1
<1>1. N \in Nat
  BY FS_CardinalityType DEF Ordered
<1>2. InOrder(S) = [i \in 1..N |-> At(i)]
  BY DEF InOrder, Before
<1>3. ASSUME NEW i \in 1..N PROVE At(i) \in S /\ Place(S, At(i)) = i - 1
  <2>1. i - 1 \in 0..(N - 1)
    BY <1>1
  <2>2. \E p \in S : Cardinality(Before(S, p)) = i - 1
    BY <2>1, EveryPlace DEF Place
  <2> QED
    BY <2>2 DEF Place
<1>4. ASSUME NEW p \in S PROVE \E i \in 1..N : At(i) = p
  <2>1. Place(S, p) + 1 \in 1..N /\ (Place(S, p) + 1) - 1 = Place(S, p)
    BY <1>1, PlaceType
  <2>2. At(Place(S, p) + 1) \in S /\ Place(S, At(Place(S, p) + 1)) = Place(S, p)
    BY <1>3, <2>1
  <2>3. At(Place(S, p) + 1) = p
    BY <2>2, PlacesDiffer
  <2> QED
    BY <2>1, <2>3
<1> HIDE DEF At
<1>5. InOrder(S) \in Seq(S) /\ Len(InOrder(S)) = N
  BY <1>1, <1>2, <1>3
<1> QED
  BY <1>1, <1>2, <1>3, <1>4, <1>5

----------------------------------------------------------------------------
(* The hard mask *)

\* One step of the loop of resolve: from open products, mask m meets p.
Narrowed(open, m, p) ==
    IF open # {} /\ m.eligible \cap Matching(p) = {}
    THEN [m EXCEPT !.relaxed = @ \cup {p}]
    ELSE [m EXCEPT !.eligible = m.eligible \cap Matching(p)]

OpenTo(prefs) == Product \ UNION {Matching(p) : p \in Exclusions(prefs)}

\* f holds the masks after the first n steps.
Masks(f, open, steps, n) ==
    f = [i \in 0..n |-> IF i = 0 THEN [eligible |-> open, relaxed |-> {}]
                        ELSE Narrowed(open, f[i - 1], steps[i])]

LEMMA MasksExist ==
    ASSUME NEW open, NEW steps, NEW N \in Nat
    PROVE  \E f : Masks(f, open, steps, N)
<1> DEFINE Done == {n \in Nat : \E f : Masks(f, open, steps, n)}
           First == [eligible |-> open, relaxed |-> {}]
<1>1. \A n : n \in Done <=> n \in Nat /\ \E f : Masks(f, open, steps, n)
  OBVIOUS
<1> HIDE DEF Done
<1>2. 0 \in Done
  <2> DEFINE f == [i \in 0..0 |-> First]
  <2>1. Masks(f, open, steps, 0)
    BY DEF Masks
  <2> QED
    BY <1>1, <2>1
<1>3. ASSUME NEW n \in Nat, n \in Done PROVE n + 1 \in Done
  <2>1. PICK f : Masks(f, open, steps, n)
    BY <1>1, <1>3
  <2> DEFINE g == [i \in 0..(n + 1) |->
                     IF i = n + 1 THEN Narrowed(open, f[n], steps[n + 1]) ELSE f[i]]
  <2>2. ASSUME NEW i \in 0..(n + 1)
        PROVE  g[i] = IF i = 0 THEN First ELSE Narrowed(open, g[i - 1], steps[i])
    <3>1. CASE i = n + 1
      BY <3>1
    <3>2. CASE i # n + 1
      <4>1. /\ i \in 0..n
            /\ i # 0 => i - 1 \in 0..n /\ i - 1 # n + 1 /\ i - 1 \in 0..(n + 1)
        BY <3>2
      <4>2. g[i] = f[i] /\ (i # 0 => g[i - 1] = f[i - 1])
        BY <4>1, <3>2
      <4>3. f[i] = IF i = 0 THEN First ELSE Narrowed(open, f[i - 1], steps[i])
        BY <2>1, <4>1 DEF Masks
      <4> QED
        BY <4>2, <4>3
    <3> QED
      BY <3>1, <3>2
  <2>3. Masks(g, open, steps, n + 1)
    BY <2>2, Zenon DEF Masks
  <2> QED
    BY <1>1, <2>3
<1> QED
  BY <1>1, <1>2, <1>3, SetInduction

LEMMA MaskUnfolds ==
    ASSUME NEW prefs, NEW f, NEW open, NEW steps, Len(steps) \in Nat,
           open = OpenTo(prefs), steps = InOrder(Inclusions(prefs)),
           f = CHOOSE g : Masks(g, open, steps, Len(steps))
    PROVE  /\ Masks(f, open, steps, Len(steps))
           /\ HardMask(prefs) = f[Len(steps)]
<1>1. HardMask(prefs) = f[Len(steps)]
  BY Zenon DEF HardMask, Masks, Narrowed, OpenTo
<1>2. \E g : Masks(g, open, steps, Len(steps))
  BY MasksExist
<1> QED
  BY <1>1, <1>2, Zenon

\* What mask m has done with the requirements in P: each is met by what is
\* left or relaxed, a relaxed one cannot be met any more, and a product that
\* was dropped fails one that is met.
Masking(open, P, m) ==
    /\ m = [eligible |-> m.eligible, relaxed |-> m.relaxed]
    /\ m.eligible \subseteq open /\ m.relaxed \subseteq P
    /\ open # {} => m.eligible # {}
    /\ \A p \in P \ m.relaxed : m.eligible \subseteq Matching(p)
    /\ \A p \in m.relaxed : m.eligible \cap Matching(p) = {}
    /\ \A x \in open \ m.eligible :
          \E p \in P : m.eligible \subseteq Matching(p) /\ x \notin Matching(p)

LEMMA MaskingStep ==
    ASSUME NEW open, NEW P, NEW m, Masking(open, P, m), NEW p
    PROVE  Masking(open, P \cup {p}, Narrowed(open, m, p))
<1> DEFINE k == Narrowed(open, m, p)
           M == Matching(p)
<1>1. CASE open # {} /\ m.eligible \cap M = {}
  <2>1. k = [eligible |-> m.eligible, relaxed |-> m.relaxed \cup {p}]
    BY <1>1 DEF Narrowed, Masking
  <2>2. k.eligible = m.eligible /\ k.relaxed = m.relaxed \cup {p}
    BY <2>1
  <2> HIDE DEF k
  <2>3. \A x \in open \ k.eligible :
           \E q \in P \cup {p} : k.eligible \subseteq Matching(q) /\ x \notin Matching(q)
    BY <2>2 DEF Masking
  <2>4. /\ \A q \in (P \cup {p}) \ k.relaxed : k.eligible \subseteq Matching(q)
        /\ \A q \in k.relaxed : k.eligible \cap Matching(q) = {}
        /\ open # {} => k.eligible # {}
        /\ k.eligible \subseteq open /\ k.relaxed \subseteq P \cup {p}
    BY <1>1, <2>2 DEF Masking
  <2>5. k = [eligible |-> k.eligible, relaxed |-> k.relaxed]
    BY <2>1, <2>2
  <2>6. Masking(open, P \cup {p}, k)
    BY <2>3, <2>4, <2>5 DEF Masking
  <2> QED
    BY <2>6 DEF k
<1>2. CASE ~(open # {} /\ m.eligible \cap M = {})
  <2>1. k = [eligible |-> m.eligible \cap M, relaxed |-> m.relaxed]
    BY <1>2 DEF Narrowed, Masking
  <2>2. k.eligible = m.eligible \cap M /\ k.relaxed = m.relaxed
    BY <2>1
  <2> HIDE DEF k
  <2>3. \A x \in open \ k.eligible :
           \E q \in P \cup {p} : k.eligible \subseteq Matching(q) /\ x \notin Matching(q)
    BY <2>2 DEF Masking
  <2>4. /\ \A q \in (P \cup {p}) \ k.relaxed : k.eligible \subseteq Matching(q)
        /\ \A q \in k.relaxed : k.eligible \cap Matching(q) = {}
        /\ open # {} => k.eligible # {}
        /\ k.eligible \subseteq open /\ k.relaxed \subseteq P \cup {p}
    BY <1>2, <2>2 DEF Masking
  <2>5. k = [eligible |-> k.eligible, relaxed |-> k.relaxed]
    BY <2>1, <2>2
  <2>6. Masking(open, P \cup {p}, k)
    BY <2>3, <2>4, <2>5 DEF Masking
  <2> QED
    BY <2>6 DEF k
<1> QED
  BY <1>1, <1>2

LEMMA MasksNarrow ==
    ASSUME NEW open, NEW steps, NEW N \in Nat, NEW f, Masks(f, open, steps, N)
    PROVE  \A n \in 0..N : Masking(open, {steps[i] : i \in 1..n}, f[n])
<1> DEFINE P(n) == {steps[i] : i \in 1..n}
           S == {n \in Nat : n <= N => Masking(open, P(n), f[n])}
<1>1. 0 \in S
  <2>1. f[0] = [eligible |-> open, relaxed |-> {}]
    BY DEF Masks
  <2>2. P(0) = {}
    OBVIOUS
  <2> HIDE DEF P
  <2> QED
    BY <2>1, <2>2 DEF Masking
<1>2. ASSUME NEW n \in Nat, n \in S PROVE n + 1 \in S
  <2> SUFFICES ASSUME n + 1 <= N PROVE Masking(open, P(n + 1), f[n + 1])
    OBVIOUS
  <2>1. Masking(open, P(n), f[n])
    BY <1>2
  <2>2. n + 1 \in 0..N /\ n + 1 # 0 /\ (n + 1) - 1 = n
    OBVIOUS
  <2>3. f[n + 1] = Narrowed(open, f[n], steps[n + 1])
    BY <2>2 DEF Masks
  <2>4. P(n + 1) = P(n) \cup {steps[n + 1]}
    <3>1. 1..(n + 1) = (1..n) \cup {n + 1}
      OBVIOUS
    <3> QED
      BY <3>1
  <2> HIDE DEF P, S
  <2> QED
    BY <2>1, <2>3, <2>4, MaskingStep
<1>3. \A n \in Nat : n \in S
  <2> HIDE DEF S
  <2> QED
    BY <1>1, <1>2, SetInduction
<1>4. \A n \in 0..N : n \in Nat /\ n <= N
  OBVIOUS
<1> HIDE DEF P
<1>5. \A n \in 0..N : Masking(open, P(n), f[n])
  BY <1>3, <1>4
<1> QED
  BY <1>5 DEF P

\* What the mask says of the requirements of an intent.
LEMMA MaskIs ==
    ASSUME NEW prefs, Ordered(Inclusions(prefs))
    PROVE  Masking(OpenTo(prefs), Inclusions(prefs), HardMask(prefs))
<1> DEFINE S == Inclusions(prefs)
           steps == InOrder(S)
           N == Cardinality(S)
           open == OpenTo(prefs)
           f == CHOOSE g : Masks(g, open, steps, Len(steps))
<1>1. /\ Len(steps) = N /\ N \in Nat
      /\ \A i \in 1..N : steps[i] \in S
      /\ \A p \in S : \E i \in 1..N : steps[i] = p
  BY Listing
<1>2. Masks(f, open, steps, N) /\ HardMask(prefs) = f[N]
  <2>1. Len(steps) \in Nat
    BY <1>1
  <2>2. Masks(f, open, steps, Len(steps)) /\ HardMask(prefs) = f[Len(steps)]
    BY <2>1, MaskUnfolds
  <2> QED
    BY <1>1, <2>2
<1> HIDE DEF f, N, steps, open
<1>3. Masking(open, {steps[i] : i \in 1..N}, f[N])
  <2>1. N \in Nat /\ Masks(f, open, steps, N)
    BY <1>1, <1>2
  <2>2. \A n \in 0..N : Masking(open, {steps[i] : i \in 1..n}, f[n])
    BY <2>1, MasksNarrow
  <2>3. N \in 0..N
    BY <2>1
  <2> QED
    BY <2>2, <2>3
<1>4. {steps[i] : i \in 1..N} = S
  BY <1>1
<1> QED
  BY <1>2, <1>3, <1>4 DEF open

\* A mask that meets more requirements after those of S relaxes none of S
\* that it did not relax already.
LEMMA OlderPlaces ==
    ASSUME NEW S, NEW T, Ordered(T), S \subseteq T,
           \A p \in S, q \in T \ S : IdLess(p.id, q.id)
    PROVE  /\ Ordered(S) /\ Cardinality(S) <= Cardinality(T)
           /\ \A p \in S : Place(T, p) = Place(S, p)
<1>1. Ordered(S) /\ Cardinality(S) <= Cardinality(T)
  BY FS_Subset DEF Ordered
<1>2. ASSUME NEW p \in S PROVE Before(T, p) = Before(S, p)
  <2> SUFFICES ASSUME NEW q \in T \ S PROVE ~IdLess(q.id, p.id)
    BY DEF Before
  <2>1. IdLess(p.id, q.id)
    OBVIOUS
  <2>2. p.id \in IdTuples /\ q.id \in IdTuples
    BY DEF Ordered
  <2> QED
    BY <2>1, <2>2, IdsInOrder
<1> QED
  BY <1>1, <1>2 DEF Place

LEMMA OlderSteps ==
    ASSUME NEW S, NEW T, Ordered(T), S \subseteq T,
           \A p \in S, q \in T \ S : IdLess(p.id, q.id)
    PROVE  /\ \A i \in 1..Cardinality(S) : InOrder(T)[i] = InOrder(S)[i]
           /\ \A i \in (Cardinality(S) + 1)..Cardinality(T) : InOrder(T)[i] \notin S
<1> DEFINE n == Cardinality(S)
           N == Cardinality(T)
<1>1. /\ Ordered(S) /\ n <= N
      /\ \A p \in S : Place(T, p) = Place(S, p)
  BY OlderPlaces
<1>2. /\ n \in Nat /\ N \in Nat
      /\ \A i \in 1..n : InOrder(S)[i] \in S /\ Place(S, InOrder(S)[i]) = i - 1
      /\ \A i \in 1..N : InOrder(T)[i] \in T /\ Place(T, InOrder(T)[i]) = i - 1
  BY <1>1, Listing
<1> HIDE DEF n, N
<1>3. ASSUME NEW i \in 1..n PROVE InOrder(T)[i] = InOrder(S)[i]
  <2>1. i \in 1..N
    BY <1>1, <1>2
  <2>2. Place(T, InOrder(T)[i]) = Place(T, InOrder(S)[i])
    BY <1>1, <1>2, <2>1
  <2>3. InOrder(T)[i] \in T /\ InOrder(S)[i] \in T
    BY <1>2, <2>1
  <2> QED
    BY <2>2, <2>3, PlacesDiffer
<1>4. ASSUME NEW i \in (n + 1)..N PROVE InOrder(T)[i] \notin S
  <2> SUFFICES ASSUME InOrder(T)[i] \in S PROVE FALSE
    OBVIOUS
  <2>1. i \in 1..N /\ i > n /\ i \in Int
    BY <1>2
  <2>2. Place(S, InOrder(T)[i]) = i - 1
    BY <1>1, <1>2, <2>1
  <2>3. Place(S, InOrder(T)[i]) \in 0..(n - 1)
    BY <1>1, PlaceType DEF n
  <2> QED
    BY <1>2, <2>1, <2>2, <2>3
<1> QED
  BY <1>3, <1>4 DEF n, N

LEMMA NarrowedRelaxed ==
    ASSUME NEW open, NEW P, NEW m, Masking(open, P, m), NEW p
    PROVE  Narrowed(open, m, p).relaxed \subseteq m.relaxed \cup {p}
<1>1. m = [eligible |-> m.eligible, relaxed |-> m.relaxed]
  BY DEF Masking
<1>2. CASE open # {} /\ m.eligible \cap Matching(p) = {}
  <2>1. Narrowed(open, m, p) = [eligible |-> m.eligible, relaxed |-> m.relaxed \cup {p}]
    BY <1>1, <1>2 DEF Narrowed
  <2> QED
    BY <2>1
<1>3. CASE ~(open # {} /\ m.eligible \cap Matching(p) = {})
  <2>1. Narrowed(open, m, p) = [eligible |-> m.eligible \cap Matching(p),
                                relaxed |-> m.relaxed]
    BY <1>1, <1>3 DEF Narrowed
  <2> QED
    BY <2>1
<1> QED
  BY <1>2, <1>3

LEMMA MasksAgree ==
    ASSUME NEW open, NEW s, NEW t, NEW n \in Nat, NEW N \in Nat, n <= N,
           \A i \in 1..n : t[i] = s[i],
           NEW f, Masks(f, open, s, n), NEW h, Masks(h, open, t, N)
    PROVE  h[n] = f[n]
<1> DEFINE Same == {i \in Nat : i <= n => h[i] = f[i]}
<1>1. 0 \in Same
  BY DEF Masks
<1>2. ASSUME NEW i \in Nat, i \in Same PROVE i + 1 \in Same
  <2> SUFFICES ASSUME i + 1 <= n PROVE h[i + 1] = f[i + 1]
    OBVIOUS
  <2>1. h[i] = f[i] /\ t[i + 1] = s[i + 1]
    BY <1>2
  <2>2. i + 1 \in 0..n /\ i + 1 \in 0..N /\ i + 1 # 0 /\ (i + 1) - 1 = i
    OBVIOUS
  <2>3. f[i + 1] = Narrowed(open, f[i], s[i + 1])
    BY <2>2 DEF Masks
  <2>4. h[i + 1] = Narrowed(open, h[i], t[i + 1])
    BY <2>2 DEF Masks
  <2> QED
    BY <2>1, <2>3, <2>4
<1>3. n \in Same
  <2> HIDE DEF Same
  <2> QED
    BY <1>1, <1>2, SetInduction
<1> QED
  BY <1>3

LEMMA LaterRelaxed ==
    ASSUME NEW open, NEW S, NEW t, NEW n \in Nat, NEW N \in Nat, n <= N,
           \A i \in (n + 1)..N : t[i] \notin S,
           NEW h, Masks(h, open, t, N)
    PROVE  h[N].relaxed \cap S \subseteq h[n].relaxed
<1> DEFINE Within(i) == h[i].relaxed \cap S \subseteq h[n].relaxed
           K == {k \in Nat : n + k <= N => Within(n + k)}
<1>1. 0 \in K
  OBVIOUS
<1>2. ASSUME NEW k \in Nat, k \in K PROVE k + 1 \in K
  <2> SUFFICES ASSUME n + (k + 1) <= N PROVE Within(n + (k + 1))
    OBVIOUS
  <2> DEFINE i == n + k
  <2>1. /\ n + k <= N /\ i \in 0..N /\ i + 1 \in 0..N /\ i + 1 # 0
        /\ (i + 1) - 1 = i /\ i + 1 \in (n + 1)..N /\ n + (k + 1) = i + 1
    OBVIOUS
  <2>2. Within(i)
    BY <1>2, <2>1
  <2> HIDE DEF i
  <2>3. h[i + 1] = Narrowed(open, h[i], t[i + 1])
    BY <2>1 DEF Masks
  <2>4. Masking(open, {t[j] : j \in 1..i}, h[i])
    BY <2>1, MasksNarrow
  <2>5. h[i + 1].relaxed \subseteq h[i].relaxed \cup {t[i + 1]}
    BY <2>3, <2>4, NarrowedRelaxed
  <2>6. Within(i + 1)
    BY <2>1, <2>2, <2>5
  <2> QED
    BY <2>1, <2>6
<1>3. N - n \in K
  <2>1. N - n \in Nat
    OBVIOUS
  <2> HIDE DEF K
  <2> QED
    BY <1>1, <1>2, <2>1, SetInduction
<1>4. n + (N - n) = N
  OBVIOUS
<1> QED
  BY <1>3, <1>4

LEMMA OlderKept ==
    ASSUME NEW older, NEW all, older \subseteq all,
           Exclusions(all) = Exclusions(older), Ordered(Inclusions(all)),
           \A p \in older, q \in all \ older : IdLess(p.id, q.id)
    PROVE  HardMask(all).relaxed \cap older \subseteq HardMask(older).relaxed
<1> DEFINE S == Inclusions(older)
           T == Inclusions(all)
           n == Cardinality(S)
           N == Cardinality(T)
           open == OpenTo(all)
           f == CHOOSE g : Masks(g, open, InOrder(S), Len(InOrder(S)))
           h == CHOOSE g : Masks(g, open, InOrder(T), Len(InOrder(T)))
<1>1. /\ S \subseteq T /\ S \subseteq older /\ T \cap older \subseteq S
      /\ \A p \in S, q \in T \ S : IdLess(p.id, q.id)
  <2>1. S \subseteq T /\ S \subseteq older /\ T \cap older \subseteq S /\ T \subseteq all
    BY DEF Inclusions, HardConstraints
  <2> HIDE DEF S, T
  <2> QED
    BY <2>1
<1>2. open = OpenTo(older)
  BY DEF OpenTo
<1>3. Ordered(S) /\ n <= N
  BY <1>1, OlderPlaces
<1>4. /\ \A i \in 1..n : InOrder(T)[i] = InOrder(S)[i]
      /\ \A i \in (n + 1)..N : InOrder(T)[i] \notin S
  <2> HIDE DEF S, T
  <2> QED
    BY <1>1, OlderSteps DEF T
<1>5. Len(InOrder(S)) = n /\ Len(InOrder(T)) = N /\ n \in Nat /\ N \in Nat
  BY <1>3, Listing
<1>6. Masks(f, open, InOrder(S), n) /\ HardMask(older) = f[n]
  <2>1. Len(InOrder(S)) \in Nat
    BY <1>5
  <2>2. /\ Masks(f, open, InOrder(S), Len(InOrder(S)))
        /\ HardMask(older) = f[Len(InOrder(S))]
    BY <1>2, <2>1, MaskUnfolds
  <2> QED
    BY <1>5, <2>2
<1>7. Masks(h, open, InOrder(T), N) /\ HardMask(all) = h[N]
  <2>1. Len(InOrder(T)) \in Nat
    BY <1>5
  <2>2. /\ Masks(h, open, InOrder(T), Len(InOrder(T)))
        /\ HardMask(all) = h[Len(InOrder(T))]
    BY <2>1, MaskUnfolds
  <2> QED
    BY <1>5, <2>2
<1>8. HardMask(all).relaxed \subseteq T
  BY MaskIs DEF Masking
<1> HIDE DEF f, h, open, n, N, S, T
<1>9. h[n] = f[n]
  BY <1>3, <1>4, <1>5, <1>6, <1>7, MasksAgree
<1>10. h[N].relaxed \cap S \subseteq h[n].relaxed
  BY <1>3, <1>4, <1>5, <1>7, LaterRelaxed
<1> QED
  BY <1>1, <1>6, <1>7, <1>8, <1>9, <1>10

----------------------------------------------------------------------------
(* The routes and the slates *)

Fewer(k, n) == IF k < n THEN k ELSE n

LEMMA CutIs ==
    ASSUME NEW S, IsFiniteSet(S), NEW k \in Nat, NEW T \in Cut(S, k)
    PROVE  /\ T \subseteq S /\ IsFiniteSet(T)
           /\ Cardinality(S) \in Nat /\ Cardinality(T) \in Nat
           /\ Cardinality(T) = Fewer(k, Cardinality(S))
<1>1. T \in SUBSET S /\ Cardinality(T) = Fewer(k, Cardinality(S))
  BY DEF Cut, Fewer
<1> QED
  BY <1>1, FS_Subset, FS_CardinalityType

LEMMA FacetHitsWithin ==
    ASSUME NEW prefs, NEW mask, NEW k, NEW f \in FacetHits(prefs, mask, k)
    PROVE  f \subseteq mask.eligible
<1> DEFINE conditions == {p \in RankingPreferences(prefs) \cup mask.relaxed :
                             p.facet \in RetrievalDerived}
           negative == {p \in conditions : Exclusion(p)}
           positive == conditions \ negative
           matched == mask.eligible \cap UNION {Matching(p) : p \in positive}
<1>1. f \in {T \in Cut(matched, k) : \A x \in T, y \in matched \ T :
               FacetScore(x, positive, negative) >= FacetScore(y, positive, negative)}
  BY DEF FacetHits
<1>2. matched \subseteq mask.eligible
  OBVIOUS
<1> HIDE DEF matched, positive, negative
<1>3. f \in Cut(matched, k)
  BY <1>1
<1> QED
  BY <1>2, <1>3 DEF Cut

\* The routes recall eligible products only, and as many as the pool takes.
LEMMA RecalledIs ==
    ASSUME NEW prefs, NEW mask, NEW t, IsFiniteSet(mask.eligible),
           NEW hits \in Recalled(prefs, mask, t)
    PROVE  /\ hits \subseteq mask.eligible
           /\ Cardinality(hits) >= Fewer(PoolK, Cardinality(mask.eligible))
<1> DEFINE b == Budgets(t)
           Unions(reserve) ==
               {d \cup l \cup f : d \in Cut(reserve, b.dense),
                                  l \in LexicalHits(mask, b.lexical),
                                  f \in FacetHits(prefs, mask, b.facet)}
           Refilled(reserve, u) ==
               IF Cardinality(u) >= PoolK THEN {u}
               ELSE {u \cup r : r \in Cut(reserve \ u, PoolK - Cardinality(u))}
           E == mask.eligible
<1>0. PoolK \in Nat
  BY BudgetsAssumption
<1>1. Recalled(prefs, mask, t) =
         UNION {UNION {Refilled(reserve, u) : u \in Unions(reserve)} :
                   reserve \in Cut(E, PoolK)}
  BY DEF Recalled
<1> HIDE DEF Unions, Refilled
<1>2. PICK reserve \in Cut(E, PoolK) :
         hits \in UNION {Refilled(reserve, u) : u \in Unions(reserve)}
  BY <1>1
<1>3. PICK u \in Unions(reserve) : hits \in Refilled(reserve, u)
  BY <1>2
<1>4. /\ reserve \subseteq E /\ IsFiniteSet(reserve)
      /\ Cardinality(reserve) = Fewer(PoolK, Cardinality(E))
      /\ Cardinality(reserve) \in Nat /\ Cardinality(E) \in Nat
  BY <1>0, <1>2, CutIs
<1>5. u \subseteq E
  <2>1. PICK d \in Cut(reserve, b.dense), l \in LexicalHits(mask, b.lexical),
             f \in FacetHits(prefs, mask, b.facet) : u = d \cup l \cup f
    BY <1>3 DEF Unions
  <2>2. d \subseteq reserve /\ l \subseteq E
    BY <2>1 DEF Cut, LexicalHits
  <2>3. f \subseteq E
    BY <2>1, FacetHitsWithin
  <2> QED
    BY <1>4, <2>1, <2>2, <2>3
<1>6. IsFiniteSet(u) /\ Cardinality(u) \in Nat
  BY <1>5, FS_Subset, FS_CardinalityType
<1>7. CASE Cardinality(u) >= PoolK
  <2>1. hits = u
    BY <1>3, <1>7 DEF Refilled
  <2> QED
    BY <1>0, <1>4, <1>5, <1>6, <1>7, <2>1 DEF Fewer
<1>8. CASE Cardinality(u) < PoolK
  <2> DEFINE k == PoolK - Cardinality(u)
             rest == reserve \ u
  <2>1. k \in Nat /\ ~(Cardinality(u) >= PoolK)
    BY <1>0, <1>6, <1>8
  <2>2. PICK r \in Cut(rest, k) : hits = u \cup r
    BY <1>3, <2>1 DEF Refilled
  <2>3. IsFiniteSet(rest)
    BY <1>4, FS_Subset
  <2> HIDE DEF rest
  <2>4. /\ r \subseteq rest /\ IsFiniteSet(r)
        /\ Cardinality(r) = Fewer(k, Cardinality(rest))
        /\ Cardinality(r) \in Nat /\ Cardinality(rest) \in Nat
    BY <2>1, <2>2, <2>3, CutIs
  <2>5. hits \subseteq E /\ IsFiniteSet(hits)
    <3>1. hits \subseteq E
      BY <1>4, <1>5, <2>2, <2>4 DEF rest
    <3> QED
      BY <3>1, FS_Subset
  <2>6. CASE k < Cardinality(rest)
    <3>1. u \cap r = {}
      BY <2>4 DEF rest
    <3>2. Cardinality(hits) = Cardinality(u) + Cardinality(r) - Cardinality({})
      BY <1>6, <2>2, <2>4, <3>1, FS_Union
    <3>3. Cardinality({}) = 0
      BY FS_EmptySet
    <3>4. Cardinality(r) = k
      BY <2>4, <2>6 DEF Fewer
    <3>5. Cardinality(hits) = PoolK
      BY <1>0, <1>6, <3>2, <3>3, <3>4
    <3> QED
      BY <1>0, <1>4, <2>5, <3>5 DEF Fewer
  <2>7. CASE ~(k < Cardinality(rest))
    <3>1. Cardinality(r) = Cardinality(rest)
      BY <2>4, <2>7 DEF Fewer
    <3>2. r = rest
      BY <2>3, <2>4, <3>1, FS_Subset
    <3>3. reserve \subseteq hits
      BY <2>2, <3>2 DEF rest
    <3>4. Cardinality(reserve) <= Cardinality(hits)
      BY <2>5, <3>3, FS_Subset
    <3> QED
      BY <1>4, <2>5, <3>4
  <2> QED
    BY <2>6, <2>7
<1> QED
  BY <1>0, <1>6, <1>7, <1>8

\* A ranker shows what was found, as much of it as a turn shows.
LEMMA SlateIs ==
    ASSUME NEW E, IsFiniteSet(E), NEW hits, hits \subseteq E,
           Cardinality(hits) >= Fewer(PoolK, Cardinality(E)),
           NEW slate \in QualitySlates(hits) \cup FallbackSlates(hits)
                             \cup FormalSlates(hits)
    PROVE  slate \subseteq E /\ Cardinality(slate) = Fewer(TopK, Cardinality(E))
<1>1. /\ {PoolK, ShortlistK, FinalK, TopK} \subseteq Nat
      /\ TopK <= FinalK /\ TopK <= ShortlistK /\ FinalK <= PoolK
  BY BudgetsAssumption
<1>2. /\ IsFiniteSet(hits) /\ Cardinality(hits) \in Nat /\ Cardinality(E) \in Nat
      /\ Cardinality(hits) <= Cardinality(E)
  BY FS_Subset, FS_CardinalityType
<1>3. PICK k \in {ShortlistK, FinalK, Cardinality(hits)} :
         \E few \in Cut(hits, k) : slate \in Cut(few, TopK)
  <2>1. CASE slate \in QualitySlates(hits)
    BY <2>1 DEF QualitySlates
  <2>2. CASE slate \in FallbackSlates(hits)
    <3>1. hits \in Cut(hits, Cardinality(hits))
      BY <1>2 DEF Cut
    <3> QED
      BY <2>2, <3>1 DEF FallbackSlates
  <2>3. CASE slate \in FormalSlates(hits)
    BY <2>3 DEF FormalSlates
  <2> QED
    BY <2>1, <2>2, <2>3
<1>4. k \in Nat /\ (k >= TopK \/ k = Cardinality(hits))
  BY <1>1, <1>2, <1>3
<1>5. PICK few \in Cut(hits, k) : slate \in Cut(few, TopK)
  BY <1>3
<1>6. /\ few \subseteq hits /\ IsFiniteSet(few) /\ Cardinality(few) \in Nat
      /\ Cardinality(few) = Fewer(k, Cardinality(hits))
  BY <1>2, <1>4, <1>5, CutIs
<1>7. slate \subseteq few /\ Cardinality(slate) = Fewer(TopK, Cardinality(few))
  BY <1>1, <1>6, <1>5, CutIs
<1>8. Fewer(TopK, Cardinality(few)) = Fewer(TopK, Cardinality(E))
  BY <1>1, <1>2, <1>4, <1>6 DEF Fewer
<1> QED
  BY <1>6, <1>7, <1>8

----------------------------------------------------------------------------
(* What a turn's understanding leaves: an intent within the rules, whose    *)
(* new preferences have ids of the turn.                                   *)

Shaped(w) == w = [goal |-> w.goal, prefs |-> w.prefs, dontCare |-> w.dontCare]

\* The ids in prefs are those before the turn, or of the turn.
Grown(prefs, before, t) ==
    \A p \in prefs : p.id \in Ids(before) \/ (p.id \in IdTuples /\ p.id[1] = t)

OpNames == {"add", "replace", "remove", "clear", "dont_care", "switch"}

LEMMA PartsReplaced ==
    ASSUME NEW w, Shaped(w), NEW P, NEW D,
           NEW z, z = [w EXCEPT !.prefs = P, !.dontCare = D]
    PROVE  z = [goal |-> w.goal, prefs |-> P, dontCare |-> D]
  BY DEF Shaped

LEMMA PrefsReplaced ==
    ASSUME NEW w, Shaped(w), NEW P, NEW z, z = [w EXCEPT !.prefs = P]
    PROVE  z = [goal |-> w.goal, prefs |-> P, dontCare |-> w.dontCare]
  BY DEF Shaped

LEMMA AppliedWithin ==
    ASSUME NEW w, Shaped(w), NEW pre, NEW o, o.op \in OpNames
    PROVE  /\ Shaped(Applied(w, pre, o))
           /\ Applied(w, pre, o).prefs \subseteq w.prefs \cup pre \cup Introduced(o)
<1>1. CASE o.op = "add"
  <2> DEFINE p == o.pref
             P == WithPreference(w.prefs, p)
  <2>1. Applied(w, pre, o) = AddPreference(w, p) /\ Introduced(o) = {p}
    BY <1>1 DEF Applied, Introduced
  <2>2. P \subseteq w.prefs \cup {p}
    BY DEF WithPreference
  <2> HIDE DEF P, p
  <2>3. \/ AddPreference(w, p) = w
        \/ AddPreference(w, p) = [goal |-> w.goal, prefs |-> P,
                                  dontCare |-> w.dontCare \ {p.facet}]
    BY PartsReplaced DEF AddPreference, P
  <2> QED
    BY <2>1, <2>2, <2>3 DEF Shaped
<1>2. CASE o.op = "replace"
  <2>1. Applied(w, pre, o) = ReplaceFacet(w, o.facet, o.prefs)
    BY <1>2 DEF Applied
  <2>2. Introduced(o) = RangeOf(o.prefs)
    BY <1>2 DEF Introduced
  <2>3. ReplaceFacet(w, o.facet, o.prefs)
        = [goal |-> w.goal, prefs |-> OffFacet(w.prefs, o.facet) \cup RangeOf(o.prefs),
           dontCare |-> w.dontCare \ {o.facet}]
    BY PartsReplaced DEF ReplaceFacet
  <2>4. OffFacet(w.prefs, o.facet) \subseteq w.prefs
    BY DEF OffFacet
  <2> QED
    BY <2>1, <2>2, <2>3, <2>4 DEF Shaped
<1>3. CASE o.op = "remove"
  <2>1. Applied(w, pre, o) = RemovePreferences(w, o.ids)
    BY <1>3 DEF Applied
  <2>2. RemovePreferences(w, o.ids)
        = [goal |-> w.goal, prefs |-> {p \in w.prefs : p.id \notin RangeOf(o.ids)},
           dontCare |-> w.dontCare]
    BY PrefsReplaced DEF RemovePreferences
  <2> QED
    BY <2>1, <2>2 DEF Shaped
<1>4. CASE o.op \in {"clear", "dont_care"}
  <2> DEFINE f == o.facet
  <2>1. \/ Applied(w, pre, o) = ClearFacet(w, f)
        \/ Applied(w, pre, o) = SetDontCare(w, f)
    BY <1>4 DEF Applied
  <2>2. ClearFacet(w, f) = [goal |-> w.goal, prefs |-> OffFacet(w.prefs, f),
                            dontCare |-> w.dontCare \ {f}]
    BY PartsReplaced DEF ClearFacet
  <2>3. SetDontCare(w, f) = [goal |-> w.goal, prefs |-> OffFacet(w.prefs, f),
                             dontCare |-> (w.dontCare \ {f}) \cup {f}]
    BY <2>2 DEF SetDontCare
  <2>4. OffFacet(w.prefs, f) \subseteq w.prefs
    BY DEF OffFacet
  <2> QED
    BY <2>1, <2>2, <2>3, <2>4 DEF Shaped
<1>5. CASE o.op = "switch"
  <2>1. Applied(w, pre, o) = SwitchGoal(pre, o.goal, o.carry)
    BY <1>5 DEF Applied
  <2> QED
    BY <2>1 DEF SwitchGoal, Shaped
<1> QED
  BY <1>1, <1>2, <1>3, <1>4, <1>5 DEF OpNames

\* An operation introduces under an active id, or under one it allocates.
LEMMA IntroducedIds ==
    ASSUME NEW w, NEW known, NEW pre, NEW o, OperationValid(o),
           NEW t \in Nat, NEW k \in Nat, Permitted(w, known, pre, o, t, k),
           NEW p \in Introduced(o)
    PROVE  p.id \in Ids(w.prefs) \/ (p.id \in IdTuples /\ p.id[1] = t)
<1>1. o.op \in OpNames
  BY DEF OperationValid, OpNames
<1>2. CASE o.op = "add"
  <2>1. Resolvable(p, w.prefs, known, t, k, 0)
    BY <1>2 DEF Permitted, Introduced
  <2> QED
    BY <2>1 DEF Resolvable, Ids, IdTuples
<1>3. CASE o.op = "replace"
  <2>1. IsTuple(o.prefs)
    BY <1>3 DEF OperationValid, ReplacementValid
  <2>2. DOMAIN o.prefs \subseteq Nat \ {0}
    BY <2>1 DEF IsTuple
  <2>3. PICK i \in DOMAIN o.prefs : p = o.prefs[i]
    BY <1>3 DEF Introduced, RangeOf
  <2>4. Resolvable(o.prefs[i], w.prefs, known \cup {o.prefs[j] : j \in 1..(i - 1)},
                   t, k, i - 1)
    BY <1>3 DEF Permitted
  <2>5. (\E a \in w.prefs : a.id = p.id) \/ p.id = <<t, k, i - 1>>
    BY <2>3, <2>4 DEF Resolvable
  <2>6. CASE \E a \in w.prefs : a.id = p.id
    BY <2>6 DEF Ids
  <2>7. CASE p.id = <<t, k, i - 1>>
    <3>1. i - 1 \in Nat
      BY <2>2, <2>3
    <3> QED
      BY <2>7, <3>1 DEF IdTuples
  <2> QED
    BY <2>5, <2>6, <2>7
<1> QED
  BY <1>1, <1>2, <1>3 DEF OpNames, Introduced

LEMMA StepGrows ==
    ASSUME NEW s, NEW pre, NEW o, OperationValid(o), NEW t \in Nat, NEW k \in Nat,
           Shaped(s.work), Grown(s.work.prefs, pre, t), Step(s, pre, o, t, k).ok
    PROVE  LET w == Step(s, pre, o, t, k).work IN
           /\ Shaped(w) /\ Grown(w.prefs, pre, t)
           /\ ValidIntent(w.prefs, w.dontCare)
<1> DEFINE w == Applied(s.work, pre, o)
<1>1. /\ Step(s, pre, o, t, k).work = w
      /\ Permitted(s.work, s.known, pre, o, t, k)
      /\ ValidIntent(w.prefs, w.dontCare)
  BY DEF Step
<1>2. o.op \in OpNames
  BY DEF OperationValid, OpNames
<1>3. Shaped(w) /\ w.prefs \subseteq s.work.prefs \cup pre \cup Introduced(o)
  BY <1>2, AppliedWithin
<1> HIDE DEF w
<1>4. ASSUME NEW p \in w.prefs
      PROVE  p.id \in Ids(pre) \/ (p.id \in IdTuples /\ p.id[1] = t)
  <2>1. CASE p \in s.work.prefs
    BY <2>1 DEF Grown
  <2>2. CASE p \in pre
    BY <2>2 DEF Ids
  <2>3. CASE p \in Introduced(o)
    <3>1. p.id \in Ids(s.work.prefs) \/ (p.id \in IdTuples /\ p.id[1] = t)
      BY <1>1, <2>3, IntroducedIds
    <3>2. ASSUME p.id \in Ids(s.work.prefs)
          PROVE  p.id \in Ids(pre) \/ (p.id \in IdTuples /\ p.id[1] = t)
      <4>1. PICK a \in s.work.prefs : a.id = p.id
        BY <3>2 DEF Ids
      <4> QED
        BY <4>1 DEF Grown
    <3> QED
      BY <3>1, <3>2
  <2> QED
    BY <1>3, <2>1, <2>2, <2>3
<1> QED
  BY <1>1, <1>3, <1>4 DEF Grown

\* f holds the states of the reduction of list up to the n-th.
Reduces(f, base, list, t, n) ==
    f = [k \in 0..n |->
            IF k = 0 THEN Start(base)
            ELSE Continued(f[k - 1], base.prefs, list[k], t, k - 1)]

LEMMA ReductionExists ==
    ASSUME NEW base, NEW list, NEW t, NEW N \in Nat
    PROVE  \E f : Reduces(f, base, list, t, N)
<1> DEFINE Done == {n \in Nat : \E f : Reduces(f, base, list, t, n)}
<1>1. \A n : n \in Done <=> n \in Nat /\ \E f : Reduces(f, base, list, t, n)
  OBVIOUS
<1> HIDE DEF Done
<1>2. 0 \in Done
  <2> DEFINE f == [k \in 0..0 |-> Start(base)]
  <2>1. Reduces(f, base, list, t, 0)
    BY DEF Reduces
  <2> QED
    BY <1>1, <2>1
<1>3. ASSUME NEW n \in Nat, n \in Done PROVE n + 1 \in Done
  <2>1. PICK f : Reduces(f, base, list, t, n)
    BY <1>1, <1>3
  <2> DEFINE g == [k \in 0..(n + 1) |->
                     IF k = n + 1
                     THEN Continued(f[n], base.prefs, list[n + 1], t, n)
                     ELSE f[k]]
  <2>2. ASSUME NEW k \in 0..(n + 1)
        PROVE  g[k] = IF k = 0 THEN Start(base)
                      ELSE Continued(g[k - 1], base.prefs, list[k], t, k - 1)
    <3>1. CASE k = n + 1
      BY <3>1
    <3>2. CASE k # n + 1
      <4>1. /\ k \in 0..n
            /\ k # 0 => k - 1 \in 0..n /\ k - 1 # n + 1 /\ k - 1 \in 0..(n + 1)
        BY <3>2
      <4>2. g[k] = f[k] /\ (k # 0 => g[k - 1] = f[k - 1])
        BY <4>1, <3>2
      <4>3. f[k] = IF k = 0 THEN Start(base)
                   ELSE Continued(f[k - 1], base.prefs, list[k], t, k - 1)
        BY <2>1, <4>1 DEF Reduces
      <4> QED
        BY <4>2, <4>3
    <3> QED
      BY <3>1, <3>2
  <2>3. Reduces(g, base, list, t, n + 1)
    BY <2>2, Zenon DEF Reduces
  <2> QED
    BY <1>1, <2>3
<1> QED
  BY <1>1, <1>2, <1>3, SetInduction

LEMMA ReductionUnfolds ==
    ASSUME NEW base, NEW list, NEW t, NEW f, Len(list) \in Nat,
           f = CHOOSE g : Reduces(g, base, list, t, Len(list))
    PROVE  /\ Reduces(f, base, list, t, Len(list))
           /\ Reduction(base, list, t) = f[Len(list)]
<1>1. Reduction(base, list, t) = f[Len(list)]
  BY Zenon DEF Reduction, Reduces
<1>2. \E g : Reduces(g, base, list, t, Len(list))
  BY ReductionExists
<1> QED
  BY <1>1, <1>2, Zenon

\* A working intent within the rules, made of base in turn t.
Reduced(w, base, t) ==
    /\ Shaped(w)
    /\ Grown(w.prefs, base.prefs, t)
    /\ ValidIntent(w.prefs, w.dontCare)

LEMMA ReductionGrows ==
    ASSUME NEW base, NEW list, NEW t \in Nat, IsTuple(list),
           \A i \in DOMAIN list : OperationValid(list[i]),
           ValidIntent(base.prefs, base.dontCare), Reduction(base, list, t).ok
    PROVE  Reduced(Reduction(base, list, t).work, base, t)
<1> DEFINE N == Len(list)
           f == CHOOSE g : Reduces(g, base, list, t, N)
           Good == {k \in Nat : k <= N /\ f[k].ok => Reduced(f[k].work, base, t)}
<1>1. N \in Nat /\ DOMAIN list = 1..N
  BY DEF IsTuple
<1>2. Reduces(f, base, list, t, N) /\ Reduction(base, list, t) = f[N]
  BY <1>1, ReductionUnfolds
<1> HIDE DEF N, f
<1>3. 0 \in Good
  <2>1. f[0] = Start(base)
    BY <1>1, <1>2 DEF Reduces
  <2>2. f[0].work = [goal |-> base.goal, prefs |-> base.prefs,
                     dontCare |-> base.dontCare]
    BY <2>1 DEF Start, Content
  <2>3. Grown(base.prefs, base.prefs, t)
    BY DEF Grown, Ids
  <2> QED
    BY <2>2, <2>3 DEF Reduced, Shaped
<1>4. ASSUME NEW k \in Nat, k \in Good PROVE k + 1 \in Good
  <2> SUFFICES ASSUME k + 1 <= N, f[k + 1].ok PROVE Reduced(f[k + 1].work, base, t)
    OBVIOUS
  <2> DEFINE o == list[k + 1]
  <2>1. k + 1 \in 0..N /\ k + 1 # 0 /\ (k + 1) - 1 = k /\ k + 1 \in 1..N /\ k <= N
    BY <1>1
  <2>2. f[k + 1] = Continued(f[k], base.prefs, o, t, k)
    BY <1>2, <2>1 DEF Reduces
  <2>3. OperationValid(o)
    BY <1>1, <2>1
  <2> HIDE DEF o
  <2>4. f[k].ok /\ f[k + 1] = Step(f[k], base.prefs, o, t, k)
    BY <2>2 DEF Continued
  <2>5. Reduced(f[k].work, base, t)
    BY <1>4, <2>1, <2>4
  <2>6. Step(f[k], base.prefs, o, t, k).ok
    BY <2>4
  <2> QED
    BY <2>3, <2>4, <2>5, <2>6, StepGrows DEF Reduced
<1>5. N \in Good
  <2> HIDE DEF Good
  <2> QED
    BY <1>1, <1>3, <1>4, SetInduction
<1> QED
  BY <1>1, <1>2, <1>5

\* A plan that is accepted leads to such an intent.
LEMMA PlanGrows ==
    ASSUME NEW i, NEW f, NEW t \in Nat, ValidIntent(i.prefs, i.dontCare),
           NEW m, m = Materialized(i, f, t), m.error = "none"
    PROVE  /\ ValidIntent(m.final.prefs, m.final.dontCare)
           /\ Grown(m.final.prefs, i.prefs, t)
<1> DEFINE ops == PlannedOperations(i, f, t, TargetOf(i, f, Candidates(i, f)))
           batch == [turn |-> t, base |-> i.version, ops |-> ops]
           preview == Preview(i, batch)
           s == Reduction(i, ops, t)
<1>1. \/ m.final = i
      \/ preview.ok /\ m.final = preview.intent
  <2>1. FrameError(i, f, Candidates(i, f)) = "none"
    BY DEF Materialized, Considered, Refused
  <2>2. m = Carried(i, f, t, ops)
    BY <2>1 DEF Materialized, Considered
  <2>3. m = Previewed(i, f, ops, preview)
    BY <2>2 DEF Carried
  <2> HIDE DEF ops, preview
  <2> QED
    BY <2>3 DEF Previewed, Refused
<1>2. Grown(i.prefs, i.prefs, t)
  BY DEF Grown, Ids
<1>3. CASE preview.ok /\ m.final = preview.intent
  <2>1. ReduceIntent(i, batch).ok /\ preview.intent = ReduceIntent(i, batch).intent
    BY <1>3 DEF Preview
  <2>2. batch.ops = ops /\ batch.turn = t
    OBVIOUS
  <2> HIDE DEF ops, batch, preview
  <2>3. BatchValid(ops) /\ s.ok /\ preview.intent = Snapshot(i, s.work)
    BY <2>1, <2>2 DEF ReduceIntent
  <2>4. Reduced(s.work, i, t)
    BY <2>3, ReductionGrows DEF BatchValid
  <2> HIDE DEF s
  <2>5. m.final.prefs = s.work.prefs /\ m.final.dontCare = s.work.dontCare
    BY <1>3, <2>3 DEF Snapshot
  <2> QED
    BY <2>4, <2>5 DEF Reduced
<1> QED
  BY <1>1, <1>2, <1>3

\* The requirements of a valid intent are finitely many: a facet has at most
\* one selector of each operator and at most one bound on each side.
LEMMA FewRequirements ==
    ASSUME NEW prefs, NEW irrelevant, ValidIntent(prefs, irrelevant)
    PROVE  IsFiniteSet(HardConstraints(prefs))
<1> DEFINE H == HardConstraints(prefs)
           Ops == PositiveOps \cup NegativeOps \cup LowerOps \cup UpperOps
           F == [p \in H |-> <<p.facet, p.op>>]
<1>1. ASSUME NEW p \in H
      PROVE  /\ p \in prefs /\ p.facet \in Facets /\ p.op \in Ops
             /\ p.commitment = "hard"
  <2>1. p \in prefs /\ HardConstraint(p)
    BY DEF HardConstraints
  <2>2. p.facet \in Facets /\ p.facet # SemanticOnly /\ p.commitment = "hard"
    BY <2>1, FacetsAssumption, ScopesAssumption DEF HardConstraint
  <2>3. p.op \in OperatorsOf(p.facet)
    BY <2>1 DEF ValidIntent, ValidPreference
  <2> QED
    BY <2>1, <2>2, <2>3 DEF OperatorsOf
<1>2. ASSUME NEW p \in H, NEW q \in H, p.facet = q.facet, p.op = q.op
      PROVE  p = q
  <2>1. /\ p \in prefs /\ q \in prefs /\ p.facet \in Facets
        /\ p.commitment = q.commitment
    BY <1>1
  <2>2. CASE p.facet \in NumericFacets
    <3>1. Direction(p) = Direction(q)
      BY <1>2 DEF Direction
    <3> QED
      BY <1>2, <2>1, <2>2, <3>1 DEF ValidIntent, NumericStateValid
  <2>3. CASE p.facet \notin NumericFacets
    BY <1>2, <2>1, <2>3 DEF ValidIntent, CategoricalStateValid, OneSelectorEach
  <2> QED
    BY <2>2, <2>3
<1>3. IsFiniteSet(Facets \X Ops)
  <2>1. IsFiniteSet(Ops)
    <3>1. Ops = {"in"} \cup {"not_in"} \cup {"gt"} \cup {"ge"} \cup {"lt"} \cup {"le"}
      BY DEF PositiveOps, NegativeOps, LowerOps, UpperOps
    <3>2. \A x : IsFiniteSet({x})
      BY FS_Singleton
    <3> HIDE DEF Ops
    <3> QED
      BY <3>1, <3>2, FS_Union
  <2> QED
    BY <2>1, FacetsAssumption, FS_Product
<1> HIDE DEF H, Ops
<1>4. F \in Injection(H, Facets \X Ops)
  <2>1. F \in [H -> Facets \X Ops]
    BY <1>1
  <2>2. \A p, q \in H : F[p] = F[q] => p = q
    BY <1>2
  <2> QED
    BY <2>1, <2>2 DEF Injection, IsInjective
<1> HIDE DEF F
<1>5. IsFiniteSet(H)
  BY <1>3, <1>4, FS_Injection
<1> QED
  BY <1>5 DEF H

LEMMA OrderedRequirements ==
    ASSUME NEW prefs, NEW irrelevant, ValidIntent(prefs, irrelevant),
           \A p \in prefs : p.id \in IdTuples
    PROVE  Ordered(Inclusions(prefs))
<1>1. Inclusions(prefs) \in SUBSET HardConstraints(prefs) /\ Inclusions(prefs) \subseteq prefs
  BY DEF Inclusions, HardConstraints
<1>2. IsFiniteSet(Inclusions(prefs))
  BY <1>1, FewRequirements, FS_Subset
<1>3. \A p, q \in prefs : p.id = q.id => p = q
  BY DEF ValidIntent, UniqueIds
<1> QED
  BY <1>1, <1>2, <1>3 DEF Ordered

----------------------------------------------------------------------------
(* The operations of a plan: lists, made by loops of the planner; a switch  *)
(* among them is to the goal the frame asks for.                           *)

\* A sequence, of anything.
Listed(s) == \E S : s \in Seq(S)

LEMMA Sequences ==
    /\ Listed(<<>>) /\ \A x : Listed(<<x>>)
    /\ \A s, x : Listed(s) => Listed(Append(s, x))
    /\ \A s, t : Listed(s) /\ Listed(t) => Listed(s \o t)
    /\ \A s : Listed(s) => Len(s) \in Nat /\ DOMAIN s = 1..Len(s)
<1>1. Listed(<<>>)
  BY DEF Listed
<1>2. ASSUME NEW x PROVE Listed(<<x>>)
  <2>1. <<x>> \in Seq({x})
    OBVIOUS
  <2> QED
    BY <2>1 DEF Listed
<1>3. ASSUME NEW s, NEW x, Listed(s) PROVE Listed(Append(s, x))
  <2>1. PICK S : s \in Seq(S)
    BY <1>3 DEF Listed
  <2>2. s \in Seq(S \cup {x}) /\ x \in S \cup {x}
    BY <2>1
  <2>3. Append(s, x) \in Seq(S \cup {x})
    BY <2>2
  <2> QED
    BY <2>3 DEF Listed
<1>4. ASSUME NEW s, NEW t, Listed(s), Listed(t) PROVE Listed(s \o t)
  <2>1. PICK S : s \in Seq(S)
    BY <1>4 DEF Listed
  <2>2. PICK T : t \in Seq(T)
    BY <1>4 DEF Listed
  <2>3. s \in Seq(S \cup T) /\ t \in Seq(S \cup T)
    BY <2>1, <2>2
  <2>4. s \o t \in Seq(S \cup T)
    BY <2>3, ConcatProperties
  <2> QED
    BY <2>4 DEF Listed
<1>5. ASSUME NEW s, Listed(s) PROVE Len(s) \in Nat /\ DOMAIN s = 1..Len(s)
  <2>1. PICK S : s \in Seq(S)
    BY <1>5 DEF Listed
  <2> QED
    BY <2>1
<1> QED
  BY <1>1, <1>2, <1>3, <1>4, <1>5

LEMMA Elements ==
    /\ RangeOf(<<>>) = {}
    /\ \A x : RangeOf(<<x>>) = {x}
    /\ \A s, x : Listed(s) => RangeOf(Append(s, x)) = RangeOf(s) \cup {x}
    /\ \A s, t : Listed(s) /\ Listed(t) => RangeOf(s \o t) = RangeOf(s) \cup RangeOf(t)
    /\ \A s : Listed(s) => (RangeOf(s) = {} <=> s = <<>>)
<1>1. RangeOf(<<>>) = {}
  BY DEF RangeOf
<1>2. ASSUME NEW x PROVE RangeOf(<<x>>) = {x}
  BY DEF RangeOf
<1>3. ASSUME NEW s, NEW x, Listed(s) PROVE RangeOf(Append(s, x)) = RangeOf(s) \cup {x}
  <2>1. Listed(Append(s, x)) /\ Len(s) \in Nat /\ DOMAIN s = 1..Len(s)
    BY <1>3, Sequences
  <2>2. PICK S : s \in Seq(S)
    BY <1>3 DEF Listed
  <2>3. /\ DOMAIN Append(s, x) = 1..(Len(s) + 1)
        /\ \A i \in 1..Len(s) : Append(s, x)[i] = s[i]
        /\ Append(s, x)[Len(s) + 1] = x
    <3>1. s \in Seq(S \cup {x}) /\ x \in S \cup {x}
      BY <2>2
    <3> QED
      BY <3>1
  <2>4. 1..(Len(s) + 1) = (1..Len(s)) \cup {Len(s) + 1}
    BY <2>1
  <2> QED
    BY <2>1, <2>3, <2>4 DEF RangeOf
<1>4. ASSUME NEW s, NEW t, Listed(s), Listed(t)
      PROVE  RangeOf(s \o t) = RangeOf(s) \cup RangeOf(t)
  <2>1. PICK S : s \in Seq(S)
    BY <1>4 DEF Listed
  <2>2. PICK T : t \in Seq(T)
    BY <1>4 DEF Listed
  <2>3. s \in Seq(S \cup T) /\ t \in Seq(S \cup T)
    BY <2>1, <2>2
  <2>4. /\ s \o t \in Seq(S \cup T) /\ Len(s \o t) = Len(s) + Len(t)
        /\ \A i \in 1..(Len(s) + Len(t)) :
              (s \o t)[i] = IF i <= Len(s) THEN s[i] ELSE t[i - Len(s)]
    BY <2>3, ConcatProperties
  <2>5. /\ Len(s) \in Nat /\ Len(t) \in Nat
        /\ DOMAIN s = 1..Len(s) /\ DOMAIN t = 1..Len(t)
        /\ DOMAIN (s \o t) = 1..(Len(s) + Len(t))
    BY <2>3, <2>4
  <2> DEFINE u == s \o t
  <2> HIDE DEF u
  <2>6. ASSUME NEW i \in DOMAIN u PROVE u[i] \in RangeOf(s) \cup RangeOf(t)
    <3>1. CASE i <= Len(s)
      <4>1. u[i] = s[i] /\ i \in DOMAIN s
        BY <2>4, <2>5, <2>6, <3>1 DEF u
      <4> QED
        BY <4>1 DEF RangeOf
    <3>2. CASE ~(i <= Len(s))
      <4>1. u[i] = t[i - Len(s)] /\ i - Len(s) \in DOMAIN t
        BY <2>4, <2>5, <2>6, <3>2 DEF u
      <4> QED
        BY <4>1 DEF RangeOf
    <3> QED
      BY <3>1, <3>2
  <2>7. ASSUME NEW i \in DOMAIN s PROVE s[i] \in RangeOf(u)
    <3>1. i \in DOMAIN u /\ u[i] = s[i]
      BY <2>4, <2>5, <2>7 DEF u
    <3> QED
      BY <3>1 DEF RangeOf
  <2>8. ASSUME NEW i \in DOMAIN t PROVE t[i] \in RangeOf(u)
    <3>1. i + Len(s) \in DOMAIN u /\ u[i + Len(s)] = t[i]
      BY <2>4, <2>5, <2>8 DEF u
    <3> QED
      BY <3>1 DEF RangeOf
  <2>9. RangeOf(u) = RangeOf(s) \cup RangeOf(t)
    BY <2>6, <2>7, <2>8 DEF RangeOf
  <2> QED
    BY <2>9 DEF u
<1>5. ASSUME NEW s, Listed(s) PROVE RangeOf(s) = {} <=> s = <<>>
  <2>1. PICK S : s \in Seq(S)
    BY <1>5 DEF Listed
  <2>2. s # <<>> => 1 \in DOMAIN s
    BY <2>1
  <2> QED
    BY <1>1, <2>2 DEF RangeOf
<1> QED
  BY <1>1, <1>2, <1>3, <1>4, <1>5

\* A list made of another one element by element.
LEMMA Mapped ==
    ASSUME NEW s, Listed(s), NEW f, DOMAIN f = DOMAIN s, f = [j \in DOMAIN f |-> f[j]]
    PROVE  Listed(f)
<1> DEFINE T == {f[j] : j \in DOMAIN f}
<1>1. Len(s) \in Nat /\ DOMAIN f = 1..Len(s)
  BY Sequences
<1>2. f \in [1..Len(s) -> T]
  BY <1>1
<1> HIDE DEF T
<1>3. f \in Seq(T)
  BY <1>1, <1>2
<1> QED
  BY <1>3 DEF Listed

\* n rounds of a loop from first on, round i doing G[i], on values of X.
Loops(f, X, first, G, n) ==
    /\ f \in [0..n -> X]
    /\ \A i \in 0..n : f[i] = IF i = 0 THEN first ELSE G[i][f[i - 1]]

LEMMA Loop ==
    ASSUME NEW X, NEW first \in X, NEW N \in Nat, NEW G \in [1..N -> [X -> X]]
    PROVE  \E f : Loops(f, X, first, G, N)
<1> DEFINE Done == {n \in Nat : n <= N => \E f : Loops(f, X, first, G, n)}
<1>1. \A n : n \in Done <=> n \in Nat /\ (n <= N => \E f : Loops(f, X, first, G, n))
  OBVIOUS
<1> HIDE DEF Done
<1>2. 0 \in Done
  <2> DEFINE f == [i \in 0..0 |-> first]
  <2>1. Loops(f, X, first, G, 0)
    BY DEF Loops
  <2> QED
    BY <1>1, <2>1
<1>3. ASSUME NEW n \in Nat, n \in Done PROVE n + 1 \in Done
  <2> SUFFICES ASSUME n + 1 <= N PROVE \E f : Loops(f, X, first, G, n + 1)
    BY <1>1
  <2>1. PICK f : Loops(f, X, first, G, n)
    BY <1>1, <1>3
  <2> DEFINE g == [i \in 0..(n + 1) |-> IF i = n + 1 THEN G[n + 1][f[n]] ELSE f[i]]
  <2>2. n + 1 \in 1..N /\ n \in 0..n /\ f[n] \in X
    BY <2>1 DEF Loops
  <2>3. G[n + 1][f[n]] \in X
    BY <2>2
  <2>4. g \in [0..(n + 1) -> X]
    BY <2>1, <2>3 DEF Loops
  <2>5. ASSUME NEW i \in 0..(n + 1)
        PROVE  g[i] = IF i = 0 THEN first ELSE G[i][g[i - 1]]
    <3>1. CASE i = n + 1
      <4>1. i # 0 /\ i - 1 = n /\ n \in 0..(n + 1) /\ n # n + 1
        BY <3>1
      <4> QED
        BY <3>1, <4>1
    <3>2. CASE i # n + 1
      <4>1. i \in 0..n /\ (i # 0 => i - 1 \in 0..(n + 1) /\ i - 1 # n + 1)
        BY <3>2
      <4>2. g[i] = f[i] /\ (i # 0 => g[i - 1] = f[i - 1])
        BY <3>2, <4>1
      <4> QED
        BY <2>1, <4>1, <4>2 DEF Loops
    <3> QED
      BY <3>1, <3>2
  <2> HIDE DEF g
  <2>6. Loops(g, X, first, G, n + 1)
    BY <2>4, <2>5 DEF Loops
  <2> QED
    BY <2>6
<1>4. N \in Done
  BY <1>2, <1>3, SetInduction
<1> QED
  BY <1>1, <1>4

\* chosen holds what Only has picked of the first elements of s.
Picks(chosen, s, S) ==
    chosen = [i \in 0..Len(s) |->
                 IF i = 0 THEN <<>>
                 ELSE IF s[i] \in S THEN Append(chosen[i - 1], s[i])
                 ELSE chosen[i - 1]]

LEMMA PicksExist ==
    ASSUME NEW s, NEW S, Listed(s)
    PROVE  \E f : Picks(f, s, S)
<1> DEFINE N == Len(s)
           G == [i \in 1..N |-> [x \in Seq(S) |-> IF s[i] \in S THEN Append(x, s[i]) ELSE x]]
<1>1. N \in Nat
  BY Sequences
<1>2. G \in [1..N -> [Seq(S) -> Seq(S)]] /\ <<>> \in Seq(S)
  OBVIOUS
<1> HIDE DEF N
<1>3. PICK f : Loops(f, Seq(S), <<>>, G, N)
  <2> HIDE DEF G
  <2> QED
    BY <1>1, <1>2, Loop
<1>4. ASSUME NEW i \in 0..N
      PROVE  f[i] = IF i = 0 THEN <<>>
                    ELSE IF s[i] \in S THEN Append(f[i - 1], s[i]) ELSE f[i - 1]
  <2>1. CASE i # 0
    <3>1. i \in 1..N /\ i - 1 \in 0..N
      BY <1>1, <2>1
    <3>2. f[i - 1] \in Seq(S)
      BY <1>3, <3>1 DEF Loops
    <3> QED
      BY <1>3, <3>1, <3>2, <2>1 DEF Loops
  <2> QED
    BY <1>3, <2>1 DEF Loops
<1>5. f = [i \in 0..N |-> IF i = 0 THEN <<>>
                    ELSE IF s[i] \in S THEN Append(f[i - 1], s[i]) ELSE f[i - 1]]
  BY <1>3, <1>4 DEF Loops
<1> QED
  BY <1>5 DEF Picks, N

\* Only picks the elements of a list that are in S, each of them.
LEMMA OnlyPicks ==
    ASSUME NEW s, NEW S, Listed(s)
    PROVE  Only(s, S) \in Seq(S) /\ RangeOf(Only(s, S)) = RangeOf(s) \cap S
<1> DEFINE N == Len(s)
           c == CHOOSE chosen : Picks(chosen, s, S)
           First(k) == {s[j] : j \in 1..k}
           Good == {k \in Nat : k <= N => /\ c[k] \in Seq(S)
                                          /\ RangeOf(c[k]) = First(k) \cap S}
<1>1. N \in Nat /\ DOMAIN s = 1..N
  BY Sequences
<1>2. Only(s, S) = c[N]
  BY Zenon DEF Only, Picks
<1>3. Picks(c, s, S)
  <2>1. \E f : Picks(f, s, S)
    BY PicksExist
  <2> QED
    BY <2>1, Zenon
<1> HIDE DEF c
<1>4. 0 \in Good
  <2>1. c[0] = <<>>
    BY <1>1, <1>3 DEF Picks
  <2>2. First(0) = {}
    OBVIOUS
  <2> HIDE DEF First
  <2>3. RangeOf(c[0]) = {}
    BY <2>1, Elements, Zenon
  <2>4. c[0] \in Seq(S)
    BY <2>1
  <2>5. RangeOf(c[0]) = First(0) \cap S
    BY <2>2, <2>3
  <2> QED
    BY <2>4, <2>5
<1>5. ASSUME NEW k \in Nat, k \in Good PROVE k + 1 \in Good
  <2> SUFFICES ASSUME k + 1 <= N
               PROVE  c[k + 1] \in Seq(S) /\ RangeOf(c[k + 1]) = First(k + 1) \cap S
    OBVIOUS
  <2>1. /\ k + 1 \in 0..N /\ k + 1 # 0 /\ (k + 1) - 1 = k
        /\ c[k] \in Seq(S) /\ RangeOf(c[k]) = First(k) \cap S
    BY <1>1, <1>5
  <2>2. c[k + 1] = IF s[k + 1] \in S THEN Append(c[k], s[k + 1]) ELSE c[k]
    BY <1>3, <2>1 DEF Picks
  <2>3. First(k + 1) = First(k) \cup {s[k + 1]}
    <3>1. 1..(k + 1) = (1..k) \cup {k + 1}
      OBVIOUS
    <3> QED
      BY <3>1
  <2> HIDE DEF First
  <2>4. CASE s[k + 1] \in S
    <3>1. Listed(c[k])
      BY <2>1 DEF Listed
    <3>2. RangeOf(c[k + 1]) = RangeOf(c[k]) \cup {s[k + 1]}
      BY <2>2, <2>4, <3>1, Elements
    <3> QED
      BY <2>1, <2>2, <2>3, <2>4, <3>2
  <2>5. CASE s[k + 1] \notin S
    BY <2>1, <2>2, <2>3, <2>5
  <2> QED
    BY <2>4, <2>5
<1>6. N \in Good
  <2> HIDE DEF Good
  <2> QED
    BY <1>1, <1>4, <1>5, SetInduction
<1>7. First(N) = RangeOf(s)
  BY <1>1 DEF RangeOf
<1> QED
  BY <1>1, <1>2, <1>6, <1>7

\* A frame is a form with lists in it.
Formed(f) == Listed(f.structured) /\ Listed(f.price) /\ Listed(f.semantic)

\* new holds the candidates of the first items of others.
Structures(new, first, kept, others, scope) ==
    new = [i \in 0..Len(others) |->
              IF i = 0 THEN first
              ELSE WithStructured(kept, new[i - 1], others[i], scope)]

LEMMA StructuresExist ==
    ASSUME NEW first, NEW kept, NEW others, NEW scope, Listed(first), Listed(others),
           NEW new, new = CHOOSE g : Structures(g, first, kept, others, scope)
    PROVE  Structures(new, first, kept, others, scope)
<1> DEFINE N == Len(others)
           T == {Interpreted(others[i], "structured", scope) : i \in 1..N}
                    \cup {SemanticOf(others[i]) : i \in 1..N}
<1>1. PICK S : first \in Seq(S)
  BY DEF Listed
<1> DEFINE X == Seq(S \cup T)
           G == [i \in 1..N |-> [x \in X |-> WithStructured(kept, x, others[i], scope)]]
<1>2. N \in Nat /\ first \in X
  BY <1>1, Sequences
<1>3. ASSUME NEW i \in 1..N, NEW x \in X
      PROVE  WithStructured(kept, x, others[i], scope) \in X
  <2>1. /\ Interpreted(others[i], "structured", scope) \in S \cup T
        /\ SemanticOf(others[i]) \in S \cup T
    OBVIOUS
  <2>2. \/ WithStructured(kept, x, others[i], scope) = x
        \/ WithStructured(kept, x, others[i], scope)
             = Append(x, Interpreted(others[i], "structured", scope))
        \/ WithStructured(kept, x, others[i], scope) = Append(x, SemanticOf(others[i]))
    BY DEF WithStructured
  <2> HIDE DEF T
  <2>3. ASSUME NEW e \in S \cup T PROVE Append(x, e) \in X
    OBVIOUS
  <2> HIDE DEF X
  <2> QED
    BY <2>1, <2>2, <2>3
<1>4. \E g : Structures(g, first, kept, others, scope)
  <2>1. G \in [1..N -> [X -> X]]
    BY <1>3
  <2> HIDE DEF N, X
  <2>2. PICK g : Loops(g, X, first, G, N)
    <3> HIDE DEF G
    <3> QED
      BY <1>2, <2>1, Loop
  <2>3. ASSUME NEW i \in 0..N
        PROVE  g[i] = IF i = 0 THEN first
                      ELSE WithStructured(kept, g[i - 1], others[i], scope)
    <3>1. CASE i # 0
      <4>1. i \in 1..N /\ i - 1 \in 0..N
        BY <1>2, <3>1
      <4>2. g[i - 1] \in X
        BY <2>2, <4>1 DEF Loops
      <4> QED
        BY <2>2, <4>1, <4>2, <3>1 DEF Loops
    <3> QED
      BY <2>2, <3>1 DEF Loops
  <2>4. g = [i \in 0..N |-> IF i = 0 THEN first
                      ELSE WithStructured(kept, g[i - 1], others[i], scope)]
    BY <2>2, <2>3 DEF Loops
  <2> QED
    BY <2>4 DEF Structures, N
<1> QED
  BY <1>4, Zenon

\* What an item may become, and what preferences mean.
Readings(item) == {StructuredOf(item), SemanticOf(item)}
Keys(prefs) == {LogicalKey(p) : p \in prefs}

\* An item is added in one of its readings, unless it is there or kept.
LEMMA OneStructured ==
    ASSUME NEW kept, NEW x, Listed(x), NEW item, NEW scope,
           NEW y, y = WithStructured(kept, x, item, scope)
    PROVE  /\ Listed(y) /\ RangeOf(x) \subseteq RangeOf(y)
           /\ \A c \in RangeOf(y) : c \in RangeOf(x) \/ c \in Readings(item)
           /\ \E c \in RangeOf(y) \cup Keys(kept) : c \in Readings(item)
<1> DEFINE c == Interpreted(item, "structured", scope)
<1>1. c \in Readings(item)
  BY DEF Interpreted, Readings
<1>2. \/ y = x /\ c \in Keys(kept) \cup RangeOf(x)
      \/ y = Append(x, SemanticOf(item)) \/ y = Append(x, c)
  BY DEF WithStructured, Keys
<1>3. SemanticOf(item) \in Readings(item)
  BY DEF Readings
<1> HIDE DEF c
<1>4. CASE y = x /\ c \in Keys(kept) \cup RangeOf(x)
  BY <1>1, <1>4
<1>5. ASSUME NEW d \in Readings(item), y = Append(x, d)
      PROVE  /\ Listed(y) /\ RangeOf(x) \subseteq RangeOf(y)
             /\ \A e \in RangeOf(y) : e \in RangeOf(x) \/ e \in Readings(item)
             /\ \E e \in RangeOf(y) \cup Keys(kept) : e \in Readings(item)
  <2>1. Listed(Append(x, d)) /\ RangeOf(Append(x, d)) = RangeOf(x) \cup {d}
    <3>1. Listed(Append(x, d))
      BY Sequences, Zenon
    <3>2. RangeOf(Append(x, d)) = RangeOf(x) \cup {d}
      BY Elements, Zenon
    <3> QED
      BY <3>1, <3>2
  <2>2. Listed(y) /\ RangeOf(y) = RangeOf(x) \cup {d}
    BY <1>5, <2>1, Zenon
  <2> QED
    BY <1>5, <2>2
<1> QED
  BY <1>1, <1>2, <1>3, <1>4, <1>5, Zenon

\* The candidates x of first and of the first k of others say these, and
\* nothing else.
Told(x, first, kept, others, k) ==
    /\ Listed(x) /\ RangeOf(first) \subseteq RangeOf(x)
    /\ \A c \in RangeOf(x) :
          c \in RangeOf(first) \/ \E j \in 1..k : c \in Readings(others[j])
    /\ \A j \in 1..k : \E c \in RangeOf(x) \cup Keys(kept) : c \in Readings(others[j])

LEMMA StructuresTold ==
    ASSUME NEW first, NEW kept, NEW others, NEW scope, Listed(first), Listed(others),
           NEW new, new = CHOOSE g : Structures(g, first, kept, others, scope)
    PROVE  Told(new[Len(others)], first, kept, others, Len(others))
<1> DEFINE N == Len(others)
           Good == {k \in Nat : k <= N => Told(new[k], first, kept, others, k)}
<1>1. N \in Nat
  BY Sequences
<1>2. Structures(new, first, kept, others, scope)
  BY StructuresExist
<1>3. 0 \in Good
  <2>1. new[0] = first
    BY <1>1, <1>2 DEF Structures
  <2>2. \A j \in 1..0 : FALSE
    OBVIOUS
  <2>3. Told(first, first, kept, others, 0)
    BY <2>2 DEF Told
  <2>4. Told(new[0], first, kept, others, 0)
    BY <2>1, <2>3, Zenon
  <2> QED
    BY <2>4
<1>4. ASSUME NEW k \in Nat, k \in Good PROVE k + 1 \in Good
  <2> SUFFICES ASSUME k + 1 <= N PROVE Told(new[k + 1], first, kept, others, k + 1)
    OBVIOUS
  <2> DEFINE x == new[k]
             y == new[k + 1]
             item == others[k + 1]
  <2>1. /\ k + 1 \in 0..N /\ k + 1 # 0 /\ (k + 1) - 1 = k
        /\ 1..(k + 1) = (1..k) \cup {k + 1}
        /\ Told(x, first, kept, others, k)
    BY <1>1, <1>4
  <2>2. y = WithStructured(kept, x, item, scope)
    BY <1>2, <2>1 DEF Structures
  <2> HIDE DEF x, y, item
  <2>3. Listed(x)
    BY <2>1 DEF Told
  <2>4. /\ Listed(y) /\ RangeOf(x) \subseteq RangeOf(y)
        /\ \A c \in RangeOf(y) : c \in RangeOf(x) \/ c \in Readings(item)
        /\ \E c \in RangeOf(y) \cup Keys(kept) : c \in Readings(item)
    BY <2>2, <2>3, OneStructured
  <2>5. \A j \in 1..(k + 1) : j \in 1..k \/ j = k + 1
    BY <2>1
  <2>6. k + 1 \in 1..(k + 1) /\ \A j \in 1..k : j \in 1..(k + 1)
    BY <2>1
  <2>7. Told(y, first, kept, others, k + 1)
    BY <2>1, <2>4, <2>5, <2>6 DEF Told, item
  <2> QED
    BY <2>7 DEF y
<1>5. N \in Good
  <2> HIDE DEF Good
  <2> QED
    BY <1>1, <1>3, <1>4, SetInduction
<1> QED
  BY <1>1, <1>5

LEMMA CandidatesListed ==
    ASSUME NEW i, NEW f, Formed(f)
    PROVE  Listed(Candidates(i, f))
<1> DEFINE kept == Kept(i, f)
           scope == TargetScope(kept, CategoryItems(f))
           first == [j \in DOMAIN CategoryItems(f) |-> StructuredOf(CategoryItems(f)[j])]
           others == OtherItems(f)
           new == CHOOSE g : Structures(g, first, kept, others, scope)
           price == [j \in DOMAIN f.price |-> Interpreted(f.price[j], "price", scope)]
           semantic == [j \in DOMAIN f.semantic |-> SemanticOf(f.semantic[j])]
<1>1. Listed(CategoryItems(f)) /\ Listed(others)
  <2>1. \A S : Listed(Only(f.structured, S))
    BY OnlyPicks DEF Listed, Formed
  <2> QED
    BY <2>1 DEF CategoryItems, OtherItems
<1>2. Listed(first)
  <2>1. DOMAIN first = DOMAIN CategoryItems(f) /\ first = [j \in DOMAIN first |-> first[j]]
    OBVIOUS
  <2> HIDE DEF first
  <2> QED
    BY <1>1, <2>1, Mapped
<1>3. Listed(price)
  <2>1. DOMAIN price = DOMAIN f.price /\ price = [j \in DOMAIN price |-> price[j]]
    OBVIOUS
  <2> HIDE DEF price
  <2> QED
    BY <2>1, Mapped DEF Formed
<1>4. Listed(semantic)
  <2>1. DOMAIN semantic = DOMAIN f.semantic
        /\ semantic = [j \in DOMAIN semantic |-> semantic[j]]
    OBVIOUS
  <2> HIDE DEF semantic
  <2> QED
    BY <2>1, Mapped DEF Formed
<1>5. Candidates(i, f) = (new[Len(others)] \o price) \o semantic
  BY Zenon DEF Candidates, Structures
<1> HIDE DEF first, others, kept, scope
<1>6. Listed(new[Len(others)])
  BY <1>1, <1>2, StructuresTold DEF Told
<1> HIDE DEF new, price, semantic
<1> QED
  BY <1>3, <1>4, <1>5, <1>6, Sequences

\* Each goal switch among the operations is the one the frame asks for.
Steers(op, i, f) ==
    op.op = "switch" => GoalChanged(i, f) /\ op.goal = NewGoal(i, f)
Steered(ops, i, f) == \E S : ops \in Seq(S) /\ \A op \in S : Steers(op, i, f)

LEMMA SteeredParts ==
    ASSUME NEW i, NEW f
    PROVE  /\ Steered(<<>>, i, f)
           /\ \A op : Steers(op, i, f) => Steered(<<op>>, i, f)
           /\ \A s, t : Steered(s, i, f) /\ Steered(t, i, f) => Steered(s \o t, i, f)
<1>1. Steered(<<>>, i, f)
  <2> DEFINE S == {}
  <2>1. <<>> \in Seq(S) /\ \A op \in S : Steers(op, i, f)
    OBVIOUS
  <2> HIDE DEF S
  <2> QED
    BY <2>1 DEF Steered
<1>2. ASSUME NEW op, Steers(op, i, f) PROVE Steered(<<op>>, i, f)
  <2> DEFINE S == {op}
  <2>1. <<op>> \in Seq(S) /\ \A o \in S : Steers(o, i, f)
    BY <1>2
  <2> HIDE DEF S
  <2> QED
    BY <2>1 DEF Steered
<1>3. ASSUME NEW s, NEW t, Steered(s, i, f), Steered(t, i, f)
      PROVE  Steered(s \o t, i, f)
  <2>1. PICK S : s \in Seq(S) /\ \A op \in S : Steers(op, i, f)
    BY <1>3 DEF Steered
  <2>2. PICK T : t \in Seq(T) /\ \A op \in T : Steers(op, i, f)
    BY <1>3 DEF Steered
  <2>3. s \in Seq(S \cup T) /\ t \in Seq(S \cup T)
    BY <2>1, <2>2
  <2>4. s \o t \in Seq(S \cup T)
    BY <2>3, ConcatProperties
  <2> QED
    BY <2>1, <2>2, <2>4 DEF Steered
<1> QED
  BY <1>1, <1>2, <1>3

\* The round of a facet switches no goal.
LEMMA FacetRound ==
    ASSUME NEW facet, NEW k, NEW t, NEW baseline, NEW old, NEW new, NEW was, NEW is,
           NEW ops, ops = FacetOperation(facet, k, t, baseline, old, new, was, is)
    PROVE  /\ ops \in Seq(RangeOf(ops))
           /\ \A op \in RangeOf(ops) : op.op # "switch"
<1>1. ASSUME NEW op, ops = <<op>>, op.op # "switch"
      PROVE  /\ ops \in Seq(RangeOf(ops))
             /\ \A o \in RangeOf(ops) : o.op # "switch"
  <2>1. RangeOf(ops) = {op}
    BY <1>1 DEF RangeOf
  <2> QED
    BY <1>1, <2>1
<1>2. CASE ops = <<>>
  BY <1>2 DEF RangeOf
<1>3. \/ ops = <<>> \/ ops = <<DontCare(facet)>> \/ ops = <<Clear(facet)>>
      \/ \E r : ops = <<Replace(facet, r)>>
  BY DEF FacetOperation
<1>4. /\ DontCare(facet).op # "switch" /\ Clear(facet).op # "switch"
      /\ \A r : Replace(facet, r).op # "switch"
  BY DEF DontCare, Clear, Replace
<1> QED
  BY <1>1, <1>2, <1>3, <1>4

\* upto holds the operations up to each facet in order.
Rounds(upto, i, f, t, target, baseline) ==
    LET NewOn(g) == Only(target.new, On(RangeOf(target.new), g))
    IN  upto = [n \in 0..Len(FacetOrder) |->
                   IF n = 0 THEN SwitchOperation(i, f, target.old)
                   ELSE LET g == FacetOrder[n]
                        IN  upto[n - 1] \o
                            FacetOperation(g, Len(upto[n - 1]), t, On(baseline, g),
                                           On(target.old, g), NewOn(g),
                                           g \in BaselineDontCare(i, f),
                                           g \in DesiredDontCare(f, target))]

LEMMA FacetOrderLength == Len(FacetOrder) \in Nat
<1>1. Cardinality(Facets) \in Nat
  BY FacetsAssumption, FS_CardinalityType
<1> QED
  BY <1>1, PlannerAssumption

LEMMA RoundsSteered ==
    ASSUME NEW i, NEW f, NEW t, NEW target, NEW baseline, NEW upto,
           upto = CHOOSE u : Rounds(u, i, f, t, target, baseline)
    PROVE  /\ Rounds(upto, i, f, t, target, baseline)
           /\ \A n \in 0..Len(FacetOrder) : Listed(upto[n])
           /\ Steered(upto[Len(FacetOrder)], i, f)
<1> DEFINE N == Len(FacetOrder)
           first == SwitchOperation(i, f, target.old)
           Round(n, k) ==
               FacetOperation(FacetOrder[n], k, t, On(baseline, FacetOrder[n]),
                              On(target.old, FacetOrder[n]),
                              Only(target.new, On(RangeOf(target.new), FacetOrder[n])),
                              FacetOrder[n] \in BaselineDontCare(i, f),
                              FacetOrder[n] \in DesiredDontCare(f, target))
           U == RangeOf(first) \cup UNION {RangeOf(Round(n, k)) : n \in 1..N, k \in Nat}
           X == Seq(U)
           G == [n \in 1..N |-> [x \in X |-> x \o Round(n, Len(x))]]
           Good == {k \in Nat : k <= N => upto[k] \in X}
<1>1. N \in Nat
  BY FacetOrderLength
<1>2. \A n, k : /\ Round(n, k) \in Seq(RangeOf(Round(n, k)))
                /\ \A op \in RangeOf(Round(n, k)) : op.op # "switch"
  BY FacetRound
<1>3. first \in Seq(RangeOf(first)) /\ \A op \in RangeOf(first) : Steers(op, i, f)
  <2>1. CASE first = <<>>
    BY <2>1 DEF RangeOf
  <2>2. CASE first # <<>>
    <3> DEFINE op == Switch(NewGoal(i, f), SortedIds(Ids(target.old)))
    <3>1. first = <<op>> /\ GoalChanged(i, f) /\ op.goal = NewGoal(i, f)
      BY <2>2 DEF SwitchOperation, Switch
    <3> HIDE DEF op, first
    <3>2. RangeOf(first) = {op} /\ Steers(op, i, f)
      BY <3>1 DEF RangeOf, Steers
    <3> QED
      BY <3>1, <3>2
  <2> QED
    BY <2>1, <2>2
<1> HIDE DEF N, first, Round
<1>4. ASSUME NEW op \in U PROVE Steers(op, i, f)
  BY <1>2, <1>3 DEF Steers
<1>5. first \in X
  BY <1>3
<1>6. ASSUME NEW n \in 1..N, NEW x \in X PROVE x \o Round(n, Len(x)) \in X
  <2>1. Len(x) \in Nat
    OBVIOUS
  <2>2. RangeOf(Round(n, Len(x))) \subseteq U
    BY <2>1
  <2> HIDE DEF U
  <2>3. Round(n, Len(x)) \in X
    BY <1>2, <2>2
  <2> QED
    BY <2>3, ConcatProperties
<1> HIDE DEF U
<1>7. \E u : Rounds(u, i, f, t, target, baseline)
  <2>1. G \in [1..N -> [X -> X]]
    BY <1>6
  <2>2. PICK u : Loops(u, X, first, G, N)
    <3> HIDE DEF G, X
    <3> QED
      BY <1>1, <1>5, <2>1, Loop
  <2> HIDE DEF X
  <2>3. ASSUME NEW n \in 0..N
        PROVE  u[n] = IF n = 0 THEN first ELSE u[n - 1] \o Round(n, Len(u[n - 1]))
    <3>1. CASE n # 0
      <4>1. n \in 1..N /\ n - 1 \in 0..N
        BY <1>1, <3>1
      <4>2. u[n - 1] \in X
        BY <2>2, <4>1 DEF Loops
      <4> QED
        BY <2>2, <4>1, <4>2, <3>1 DEF Loops
    <3> QED
      BY <2>2, <3>1 DEF Loops
  <2>4. u = [n \in 0..N |-> IF n = 0 THEN first
                            ELSE u[n - 1] \o Round(n, Len(u[n - 1]))]
    BY <2>2, <2>3 DEF Loops
  <2> QED
    BY <2>4, Zenon DEF Rounds, N, first, Round
<1>8. Rounds(upto, i, f, t, target, baseline)
  BY <1>7, Zenon
<1>9. upto = [n \in 0..N |-> IF n = 0 THEN first
                             ELSE upto[n - 1] \o Round(n, Len(upto[n - 1]))]
  BY <1>8, Zenon DEF Rounds, N, first, Round
<1> HIDE DEF X
<1>10. 0 \in Good
  <2>1. 0 \in 0..N
    BY <1>1
  <2>2. upto[0] = first
    BY <1>9, <2>1
  <2> QED
    BY <1>5, <2>2
<1>11. ASSUME NEW k \in Nat, k \in Good PROVE k + 1 \in Good
  <2> SUFFICES ASSUME k + 1 <= N PROVE upto[k + 1] \in X
    OBVIOUS
  <2>1. k + 1 \in 0..N /\ k + 1 \in 1..N /\ k + 1 # 0 /\ (k + 1) - 1 = k /\ upto[k] \in X
    BY <1>1, <1>11
  <2>2. upto[k + 1] = upto[k] \o Round(k + 1, Len(upto[k]))
    BY <1>9, <2>1
  <2> QED
    BY <1>6, <2>1, <2>2
<1>12. \A n \in 0..N : n \in Good
  <2>1. \A n \in 0..N : n \in Nat
    BY <1>1
  <2> HIDE DEF Good
  <2> QED
    BY <1>1, <1>10, <1>11, <2>1, SetInduction
<1>13. \A n \in 0..N : upto[n] \in Seq(U)
  BY <1>1, <1>12 DEF X
<1>14. \A n \in 0..N : Listed(upto[n])
  BY <1>13 DEF Listed
<1>15. Steered(upto[N], i, f)
  <2>1. N \in 0..N
    BY <1>1
  <2> QED
    BY <1>4, <1>13, <2>1 DEF Steered
<1> QED
  BY <1>8, <1>14, <1>15 DEF N

LEMMA WishesSteered ==
    ASSUME NEW i, NEW f, NEW k, NEW t, NEW removed, NEW new, Listed(new)
    PROVE  Steered(SemanticOperations(k, t, removed, new), i, f)
<1> DEFINE removal == IF removed = {} THEN <<>> ELSE <<Remove(SortedIds(Ids(removed)))>>
           adds == [j \in DOMAIN new |-> Add(Allocated(new[j], t, k + Len(removal) + j - 1, 0))]
           S == {adds[j] : j \in DOMAIN new}
<1>1. Steered(removal, i, f)
  <2>1. Steers(Remove(SortedIds(Ids(removed))), i, f)
    BY DEF Steers, Remove
  <2> QED
    BY <2>1, SteeredParts
<1>2. \A op \in S : Steers(op, i, f)
  BY DEF Steers, Add
<1>3. Len(new) \in Nat /\ DOMAIN new = 1..Len(new)
  BY Sequences
<1>4. adds \in [1..Len(new) -> S]
  BY <1>3
<1>5. SemanticOperations(k, t, removed, new) = removal \o adds
  BY DEF SemanticOperations
<1> HIDE DEF S, adds, removal
<1>6. adds \in Seq(S)
  BY <1>3, <1>4
<1>7. Steered(adds, i, f)
  BY <1>2, <1>6 DEF Steered
<1> QED
  BY <1>1, <1>5, <1>7, SteeredParts

LEMMA TargetListed ==
    ASSUME NEW i, NEW f, NEW candidates, Listed(candidates)
    PROVE  Listed(TargetOf(i, f, candidates).new)
<1> DEFINE old == Kept(i, f) \cup Reused(i.prefs, candidates)
           new == Fresh(i.prefs, candidates)
           target == [old |-> old, new |-> new]
           dropped == ReservedPreferences(BaselinePrefs(i, f, old))
<1>1. Listed(new)
  BY OnlyPicks DEF Fresh, Listed
<1>2. TargetOf(i, f, candidates) = Broadened(i, f, target, dropped)
  BY DEF TargetOf
<1> HIDE DEF old, new, dropped
<1>3. \/ Broadened(i, f, target, dropped).new = new
      \/ Broadened(i, f, target, dropped).new = Append(new, RootCategory)
  BY DEF Broadened
<1> QED
  BY <1>1, <1>2, <1>3, Sequences

LEMMA PlanSteered ==
    ASSUME NEW i, NEW f, Formed(f), NEW t
    PROVE  Steered(PlannedOperations(i, f, t, TargetOf(i, f, Candidates(i, f))), i, f)
<1> DEFINE target == TargetOf(i, f, Candidates(i, f))
           baseline == BaselinePrefs(i, f, target.old)
           upto == CHOOSE u : Rounds(u, i, f, t, target, baseline)
           structured == upto[Len(FacetOrder)]
           wishes == Only(target.new, On(RangeOf(target.new), SemanticOnly))
<1>1. Listed(target.new)
  BY CandidatesListed, TargetListed
<1> HIDE DEF target
<1>2. Listed(wishes)
  BY <1>1, OnlyPicks DEF Listed
<1>3. Steered(structured, i, f)
  BY RoundsSteered
<1>4. PlannedOperations(i, f, t, target)
        = structured \o SemanticOperations(Len(structured), t,
                            On(baseline \ target.old, SemanticOnly), wishes)
  BY Zenon DEF PlannedOperations, OperationsTo, Rounds
<1> HIDE DEF structured, wishes, upto, baseline
<1>5. Steered(PlannedOperations(i, f, t, target), i, f)
  BY <1>2, <1>3, <1>4, WishesSteered, SteeredParts
<1> QED
  BY <1>5 DEF target


----------------------------------------------------------------------------
(* The category through the reduction of a plan *)

\* A working intent has a category, under one of the ids a batch may not
\* remove.
Keeping(w, ids) ==
    /\ ReservedPreferences(w.prefs) # {}
    /\ Ids(ReservedPreferences(w.prefs)) \subseteq ids

\* The rules of a batch for one operation, given the ids of the category.
Reserving(op, ids) ==
    /\ op.op = "add" => op.pref.facet # Category
    /\ op.op = "replace" /\ op.facet = Category =>
          /\ Len(op.prefs) = 1
          /\ Ids(ReservedPreferences(RangeOf(op.prefs))) \subseteq ids
    /\ op.op = "remove" => RangeOf(op.ids) \cap ids = {}
    /\ op.op \in {"clear", "dont_care"} => op.facet # Category

LEMMA ReservedOperations ==
    ASSUME NEW base, NEW ops, ReservedMatrix(base, ops)
    PROVE  \E ids : /\ Ids(ReservedPreferences(base.prefs)) \subseteq ids
                    /\ \A n \in DOMAIN ops : Reserving(ops[n], ids)
<1> DEFINE replacing == {n \in DOMAIN ops : ops[n].op = "replace" /\ ops[n].facet = Category}
           current == Ids(ReservedPreferences(base.prefs))
           Of(n) == Ids(ReservedPreferences(RangeOf(ops[n].prefs)))
           ids == current \cup UNION {Of(n) : n \in replacing}
<1>1. \A n \in DOMAIN ops :
          CASE ops[n].op = "add" -> ops[n].pref.facet # Category
            [] ops[n].op = "replace" ->
                   ops[n].op = "replace" /\ ops[n].facet = Category
                     => Len(ops[n].prefs) = 1 /\ ReservedValid(ops[n].prefs[1])
            [] ops[n].op = "remove" -> RangeOf(ops[n].ids) \cap ids = {}
            [] ops[n].op \in {"clear", "dont_care"} -> ops[n].facet # Category
            [] OTHER -> Cardinality(RangeOf(ops[n].carry) \cap current) <= 1
  BY DEF ReservedMatrix
<1>2. \A n \in replacing : Of(n) \subseteq ids
  OBVIOUS
<1>3. current \subseteq ids
  OBVIOUS
<1> HIDE DEF ids, Of
<1>4. ASSUME NEW n \in DOMAIN ops PROVE Reserving(ops[n], ids)
  <2>1. CASE ops[n].op = "add"
    BY <1>1, <2>1 DEF Reserving
  <2>2. CASE ops[n].op = "replace"
    <3>1. ops[n].facet = Category => Len(ops[n].prefs) = 1 /\ n \in replacing
      BY <1>1, <2>2
    <3> QED
      BY <1>2, <2>2, <3>1 DEF Reserving, Of
  <2>3. CASE ops[n].op = "remove"
    BY <1>1, <2>3 DEF Reserving
  <2>4. CASE ops[n].op \in {"clear", "dont_care"}
    BY <1>1, <2>4 DEF Reserving
  <2> QED
    BY <2>1, <2>2, <2>3, <2>4 DEF Reserving
<1> QED
  BY <1>3, <1>4

\* No such operation but a switch leaves the category empty.
LEMMA OperationKeeps ==
    ASSUME NEW w, Shaped(w), NEW pre, NEW op, OperationValid(op), op.op # "switch",
           NEW ids, Reserving(op, ids), Keeping(w, ids)
    PROVE  Keeping(Applied(w, pre, op), ids)
<1>1. op.op \in OpNames \ {"switch"}
  BY DEF OperationValid, OpNames
<1> DEFINE R(prefs) == ReservedPreferences(prefs)
<1>2. CASE op.op = "add"
  <2>1. Applied(w, pre, op) = AddPreference(w, op.pref) /\ op.pref.facet # Category
    BY <1>2 DEF Applied, Reserving
  <2>2. R(WithPreference(w.prefs, op.pref)) = R(w.prefs)
    BY <2>1 DEF WithPreference, MatchingBound, ReservedPreferences
  <2> DEFINE P == WithPreference(w.prefs, op.pref)
             D == w.dontCare \ {op.pref.facet}
  <2>3. \/ AddPreference(w, op.pref) = w
        \/ AddPreference(w, op.pref) = [goal |-> w.goal, prefs |-> P, dontCare |-> D]
    <3>1. \/ AddPreference(w, op.pref) = w
          \/ AddPreference(w, op.pref) = [w EXCEPT !.prefs = P, !.dontCare = D]
      BY DEF AddPreference
    <3> HIDE DEF P, D
    <3> QED
      BY <3>1, PartsReplaced
  <2>4. R(Applied(w, pre, op).prefs) = R(w.prefs)
    BY <2>1, <2>2, <2>3
  <2> QED
    BY <2>4 DEF Keeping
<1>3. CASE op.op = "replace"
  <2>1. Applied(w, pre, op) = ReplaceFacet(w, op.facet, op.prefs)
    BY <1>3 DEF Applied
  <2>2. ReplaceFacet(w, op.facet, op.prefs)
          = [goal |-> w.goal,
             prefs |-> OffFacet(w.prefs, op.facet) \cup RangeOf(op.prefs),
             dontCare |-> w.dontCare \ {op.facet}]
    BY PartsReplaced DEF ReplaceFacet
  <2>3. \A p \in RangeOf(op.prefs) : p.facet = op.facet
    BY <1>3 DEF OperationValid, ReplacementValid
  <2>4. CASE op.facet = Category
    <3>1. /\ Len(op.prefs) = 1 /\ IsTuple(op.prefs)
          /\ Ids(R(RangeOf(op.prefs))) \subseteq ids
      BY <1>3, <2>4 DEF Reserving, OperationValid, ReplacementValid
    <3>2. RangeOf(op.prefs) # {}
      <4>1. Listed(op.prefs)
        BY <3>1 DEF IsTuple, Listed
      <4>2. 1 \in DOMAIN op.prefs
        BY <3>1, <4>1, Sequences
      <4> QED
        BY <4>2 DEF RangeOf
    <3>3. /\ R(RangeOf(op.prefs)) = RangeOf(op.prefs)
          /\ R(OffFacet(w.prefs, op.facet) \cup RangeOf(op.prefs)) = RangeOf(op.prefs)
      BY <2>3, <2>4 DEF ReservedPreferences, OffFacet
    <3> QED
      BY <2>1, <2>2, <3>1, <3>2, <3>3 DEF Keeping
  <2>5. CASE op.facet # Category
    <3>1. R(OffFacet(w.prefs, op.facet) \cup RangeOf(op.prefs)) = R(w.prefs)
      BY <2>3, <2>5 DEF ReservedPreferences, OffFacet
    <3> QED
      BY <2>1, <2>2, <3>1 DEF Keeping
  <2> QED
    BY <2>4, <2>5
<1>4. CASE op.op = "remove"
  <2>1. Applied(w, pre, op) = RemovePreferences(w, op.ids)
    BY <1>4 DEF Applied
  <2>2. RemovePreferences(w, op.ids).prefs = {p \in w.prefs : p.id \notin RangeOf(op.ids)}
    BY PrefsReplaced DEF RemovePreferences
  <2>3. \A p \in R(w.prefs) : p.id \notin RangeOf(op.ids)
    BY <1>4 DEF Reserving, Keeping, Ids
  <2>4. R({p \in w.prefs : p.id \notin RangeOf(op.ids)}) = R(w.prefs)
    BY <2>3 DEF ReservedPreferences
  <2> QED
    BY <2>1, <2>2, <2>4 DEF Keeping
<1>5. CASE op.op \in {"clear", "dont_care"}
  <2>1. /\ Applied(w, pre, op) \in {ClearFacet(w, op.facet), SetDontCare(w, op.facet)}
        /\ op.facet # Category
    BY <1>5 DEF Applied, Reserving
  <2>2. ClearFacet(w, op.facet) = [goal |-> w.goal, prefs |-> OffFacet(w.prefs, op.facet),
                                   dontCare |-> w.dontCare \ {op.facet}]
    BY PartsReplaced DEF ClearFacet
  <2>3. SetDontCare(w, op.facet).prefs = OffFacet(w.prefs, op.facet)
    BY <2>2 DEF SetDontCare
  <2>4. R(OffFacet(w.prefs, op.facet)) = R(w.prefs)
    BY <2>1 DEF OffFacet, ReservedPreferences
  <2> QED
    BY <2>1, <2>2, <2>3, <2>4 DEF Keeping
<1> QED
  BY <1>1, <1>2, <1>3, <1>4, <1>5 DEF OpNames

\* Only a switch changes the goal.
LEMMA GoalStays ==
    ASSUME NEW w, Shaped(w), NEW pre, NEW op, op.op \in OpNames \ {"switch"}
    PROVE  Applied(w, pre, op).goal = w.goal
<1>1. CASE op.op = "add"
  <2> DEFINE P == WithPreference(w.prefs, op.pref)
             D == w.dontCare \ {op.pref.facet}
  <2>1. \/ Applied(w, pre, op) = w
        \/ Applied(w, pre, op) = [w EXCEPT !.prefs = P, !.dontCare = D]
    BY <1>1 DEF Applied, AddPreference
  <2> HIDE DEF P, D
  <2>2. Applied(w, pre, op) = w \/
        Applied(w, pre, op) = [goal |-> w.goal, prefs |-> P, dontCare |-> D]
    BY <2>1, PartsReplaced
  <2> QED
    BY <2>2
<1>2. CASE op.op = "replace"
  <2>1. Applied(w, pre, op)
          = [goal |-> w.goal,
             prefs |-> OffFacet(w.prefs, op.facet) \cup RangeOf(op.prefs),
             dontCare |-> w.dontCare \ {op.facet}]
    BY <1>2, PartsReplaced DEF Applied, ReplaceFacet
  <2> QED
    BY <2>1
<1>3. CASE op.op = "remove"
  <2>1. Applied(w, pre, op)
          = [goal |-> w.goal,
             prefs |-> {p \in w.prefs : p.id \notin RangeOf(op.ids)},
             dontCare |-> w.dontCare]
    BY <1>3, PrefsReplaced DEF Applied, RemovePreferences
  <2> QED
    BY <2>1
<1>4. CASE op.op \in {"clear", "dont_care"}
  <2>1. Applied(w, pre, op) \in {ClearFacet(w, op.facet), SetDontCare(w, op.facet)}
    BY <1>4 DEF Applied
  <2>2. ClearFacet(w, op.facet) = [goal |-> w.goal, prefs |-> OffFacet(w.prefs, op.facet),
                                   dontCare |-> w.dontCare \ {op.facet}]
    BY PartsReplaced DEF ClearFacet
  <2>3. SetDontCare(w, op.facet).goal = w.goal
    BY <2>2 DEF SetDontCare
  <2> QED
    BY <2>1, <2>2, <2>3
<1> QED
  BY <1>1, <1>2, <1>3, <1>4 DEF OpNames

LEMMA ReductionKeeps ==
    ASSUME NEW base, NEW list, NEW t, BatchValid(list), NEW ids,
           Reduction(base, list, t).ok,
           ReservedPreferences(base.prefs) # {},
           Ids(ReservedPreferences(base.prefs)) \subseteq ids,
           \A n \in DOMAIN list : Reserving(list[n], ids)
    PROVE  IF list[1].op = "switch"
           THEN Reduction(base, list, t).work.goal = list[1].goal
           ELSE Keeping(Reduction(base, list, t).work, ids)
<1> DEFINE N == Len(list)
           f == CHOOSE g : Reduces(g, base, list, t, N)
           switched == list[1].op = "switch"
           Fine(k) == /\ Shaped(f[k].work)
                      /\ switched /\ k > 0 => f[k].work.goal = list[1].goal
                      /\ ~switched => Keeping(f[k].work, ids)
           Good == {k \in Nat : k <= N /\ f[k].ok => Fine(k)}
<1>1. /\ N \in Nat /\ DOMAIN list = 1..N /\ N > 0
      /\ \A n \in 1..N : OperationValid(list[n]) /\ (list[n].op = "switch" => n = 1)
  <2>1. Listed(list) /\ list # <<>>
    BY DEF BatchValid, IsTuple, Listed
  <2>2. N \in Nat /\ DOMAIN list = 1..N
    BY <2>1, Sequences
  <2>3. N # 0
    BY <2>1, <2>2 DEF Listed
  <2> QED
    BY <2>2, <2>3 DEF BatchValid
<1>2. Reduces(f, base, list, t, N) /\ Reduction(base, list, t) = f[N]
  BY <1>1, ReductionUnfolds
<1> HIDE DEF N, f
<1>3. 0 \in Good
  <2>1. f[0] = Start(base)
    BY <1>1, <1>2 DEF Reduces
  <2>2. f[0].work = [goal |-> base.goal, prefs |-> base.prefs,
                     dontCare |-> base.dontCare]
    BY <2>1 DEF Start, Content
  <2> QED
    BY <2>2 DEF Shaped, Keeping
<1>4. ASSUME NEW k \in Nat, k \in Good PROVE k + 1 \in Good
  <2> SUFFICES ASSUME k + 1 <= N, f[k + 1].ok PROVE Fine(k + 1)
    OBVIOUS
  <2> DEFINE o == list[k + 1]
             w == f[k].work
  <2>1. /\ k + 1 \in 0..N /\ k + 1 # 0 /\ (k + 1) - 1 = k /\ k + 1 \in 1..N /\ k <= N
        /\ k + 1 = 1 <=> k = 0
    BY <1>1
  <2>2. f[k + 1] = Continued(f[k], base.prefs, o, t, k)
    BY <1>2, <2>1 DEF Reduces
  <2>3. OperationValid(o) /\ Reserving(o, ids) /\ (o.op = "switch" <=> switched /\ k = 0)
    BY <1>1, <2>1
  <2>4. f[k].ok /\ f[k + 1].work = Applied(w, base.prefs, o)
    BY <2>2 DEF Continued, Step
  <2>5. Fine(k)
    BY <1>4, <2>1, <2>4
  <2>6. o.op \in OpNames
    BY <2>3 DEF OperationValid, OpNames
  <2>7. Shaped(Applied(w, base.prefs, o))
    BY <2>5, <2>6, AppliedWithin
  <2>8. switched => Applied(w, base.prefs, o).goal = list[1].goal
    <3>1. CASE switched /\ k = 0
      <4>1. Applied(w, base.prefs, o) = SwitchGoal(base.prefs, o.goal, o.carry) /\ o = list[1]
        BY <2>3, <3>1 DEF Applied
      <4> QED
        BY <4>1 DEF SwitchGoal
    <3>2. CASE switched /\ k # 0
      <4>1. o.op # "switch" /\ w.goal = list[1].goal
        BY <2>3, <2>5, <3>2
      <4> QED
        BY <2>5, <2>6, <4>1, GoalStays
    <3> QED
      BY <3>1, <3>2
  <2>9. ~switched => Keeping(Applied(w, base.prefs, o), ids)
    BY <2>3, <2>5, OperationKeeps
  <2> QED
    BY <2>4, <2>7, <2>8, <2>9
<1>5. N \in Good
  <2> HIDE DEF Good
  <2> QED
    BY <1>1, <1>3, <1>4, SetInduction
<1> QED
  BY <1>1, <1>2, <1>5

\* An accepted plan that keeps the goal keeps a category.
LEMMA PlanKeeps ==
    ASSUME NEW i, NEW f, Formed(f), NEW t, NEW m, m = Materialized(i, f, t),
           m.error = "none", m.final.goal = i.goal,
           ReservedPreferences(i.prefs) # {}
    PROVE  ReservedPreferences(m.final.prefs) # {}
<1> DEFINE ops == PlannedOperations(i, f, t, TargetOf(i, f, Candidates(i, f)))
           batch == [turn |-> t, base |-> i.version, ops |-> ops]
           preview == Preview(i, batch)
           s == Reduction(i, ops, t)
<1>1. \/ m.final = i
      \/ preview.ok /\ m.final = preview.intent
  <2>1. FrameError(i, f, Candidates(i, f)) = "none"
    BY DEF Materialized, Considered, Refused
  <2>2. m = Carried(i, f, t, ops)
    BY <2>1 DEF Materialized, Considered
  <2>3. m = Previewed(i, f, ops, preview)
    BY <2>2 DEF Carried
  <2> HIDE DEF ops, preview
  <2> QED
    BY <2>3 DEF Previewed, Refused
<1>2. Steered(ops, i, f)
  BY PlanSteered
<1>3. CASE preview.ok /\ m.final = preview.intent
  <2>1. /\ ReduceIntent(i, batch).ok /\ preview.intent = ReduceIntent(i, batch).intent
        /\ ReservedMatrix(i, batch.ops)
    BY <1>3 DEF Preview
  <2>2. batch.ops = ops /\ batch.turn = t
    OBVIOUS
  <2> HIDE DEF ops, batch, preview
  <2>3. BatchValid(ops) /\ s.ok /\ preview.intent = Snapshot(i, s.work)
    BY <2>1, <2>2 DEF ReduceIntent
  <2>4. m.final.goal = s.work.goal /\ m.final.prefs = s.work.prefs
    BY <1>3, <2>3 DEF Snapshot
  <2>5. ops[1].op # "switch"
    <3> SUFFICES ASSUME ops[1].op = "switch" PROVE FALSE
      OBVIOUS
    <3>1. s.work.goal = ops[1].goal
      <4>1. PICK ids : /\ Ids(ReservedPreferences(i.prefs)) \subseteq ids
                       /\ \A n \in DOMAIN ops : Reserving(ops[n], ids)
        BY <2>1, <2>2, ReservedOperations
      <4> QED
        BY <2>3, <4>1, ReductionKeeps
    <3>2. GoalChanged(i, f) /\ ops[1].goal = NewGoal(i, f)
      <4>1. PICK S : ops \in Seq(S) /\ \A op \in S : Steers(op, i, f)
        BY <1>2 DEF Steered
      <4>2. ops # <<>>
        BY <2>3 DEF BatchValid
      <4>3. ops[1] \in S
        BY <4>1, <4>2
      <4> QED
        BY <4>1, <4>3 DEF Steers
    <3> QED
      BY <2>4, <3>1, <3>2 DEF GoalChanged
  <2>6. PICK ids : /\ Ids(ReservedPreferences(i.prefs)) \subseteq ids
                   /\ \A n \in DOMAIN ops : Reserving(ops[n], ids)
    BY <2>1, <2>2, ReservedOperations
  <2>7. Keeping(s.work, ids)
    BY <2>3, <2>5, <2>6, ReductionKeeps
  <2> QED
    BY <2>4, <2>7 DEF Keeping
<1> QED
  BY <1>1, <1>3

----------------------------------------------------------------------------
(* The text order of ids *)

\* The first difference of two texts, t being the greater there.
Exceeds(s, t, k) ==
    /\ k \in 1..Len(t)
    /\ \A j \in 1..(k - 1) : j <= Len(s) /\ s[j] = t[j]
    /\ k > Len(s) \/ s[k] < t[k]

\* A text is less if it has a first difference.
LEMMA LessAt ==
    ASSUME NEW s, NEW t PROVE StringLess(s, t) <=> \E k : Exceeds(s, t, k)
  BY DEF StringLess, Exceeds

\* The order of texts is transitive.
LEMMA StringsTransitive ==
    ASSUME NEW s \in Seq(Nat), NEW t \in Seq(Nat), NEW u \in Seq(Nat),
           StringLess(s, t), StringLess(t, u)
    PROVE  StringLess(s, u)
<1>1. PICK k : Exceeds(s, t, k)
  BY LessAt
<1>2. PICK l : Exceeds(t, u, l)
  BY LessAt
<1>3. /\ k \in 1..Len(t) /\ l \in 1..Len(u)
      /\ Len(s) \in Nat /\ Len(t) \in Nat /\ Len(u) \in Nat
      /\ k \in Nat /\ l \in Nat
      /\ \A j \in 1..Len(s) : s[j] \in Nat
      /\ \A j \in 1..Len(t) : t[j] \in Nat
      /\ \A j \in 1..Len(u) : u[j] \in Nat
  <2>1. k \in 1..Len(t) /\ l \in 1..Len(u)
    BY <1>1, <1>2 DEF Exceeds
  <2> QED
    BY <2>1
<1>4. CASE k < l
  <2>1. k \in 1..(l - 1) /\ k \in 1..Len(u) /\ u[k] = t[k]
    BY <1>2, <1>3, <1>4 DEF Exceeds
  <2>2. \A j \in 1..(k - 1) : j \in 1..(l - 1) /\ j <= Len(s) /\ s[j] = t[j]
    BY <1>1, <1>3, <1>4 DEF Exceeds
  <2>3. \A j \in 1..(k - 1) : j <= Len(s) /\ s[j] = u[j]
    BY <1>2, <2>2 DEF Exceeds
  <2>4. Exceeds(s, u, k)
    BY <1>1, <2>1, <2>3 DEF Exceeds
  <2> QED
    BY <2>4, LessAt
<1>5. CASE l < k
  <2>1. l \in 1..(k - 1) /\ l <= Len(s) /\ s[l] = t[l] /\ l <= Len(t)
    BY <1>1, <1>3, <1>5 DEF Exceeds
  <2>2. ~(l > Len(t)) /\ s[l] < u[l]
    BY <1>2, <1>3, <2>1 DEF Exceeds
  <2>3. \A j \in 1..(l - 1) : j \in 1..(k - 1) /\ t[j] = u[j]
    BY <1>2, <1>3, <1>5 DEF Exceeds
  <2>4. \A j \in 1..(l - 1) : j <= Len(s) /\ s[j] = u[j]
    BY <1>1, <2>3 DEF Exceeds
  <2>5. Exceeds(s, u, l)
    BY <1>3, <2>2, <2>4 DEF Exceeds
  <2> QED
    BY <2>5, LessAt
<1>6. CASE k = l
  <2>1. t[k] < u[k] /\ t[k] \in Nat /\ u[k] \in Nat
    BY <1>2, <1>3, <1>6 DEF Exceeds
  <2>2. k > Len(s) \/ (s[k] < u[k])
    <3> SUFFICES ASSUME ~(k > Len(s)) PROVE s[k] < u[k]
      OBVIOUS
    <3>1. k > Len(s) \/ s[k] < t[k]
      BY <1>1 DEF Exceeds
    <3>2. s[k] < t[k]
      BY <3>1
    <3>3. k \in 1..Len(s)
      BY <1>3
    <3>4. s[k] \in Nat
      BY <1>3, <3>3
    <3> QED
      BY <2>1, <3>2, <3>4
  <2>3. \A j \in 1..(k - 1) : j <= Len(s) /\ s[j] = u[j]
    BY <1>1, <1>2, <1>6 DEF Exceeds
  <2>4. Exceeds(s, u, k)
    BY <1>3, <1>6, <2>2, <2>3 DEF Exceeds
  <2> QED
    BY <2>4, LessAt
<1> QED
  BY <1>3, <1>4, <1>5, <1>6

\* Texts with the same characters are the same.
LEMMA SameTexts ==
    \A s, t \in Seq(Nat) :
       Len(s) = Len(t) /\ (\A i \in 1..Len(s) : s[i] = t[i]) => s = t
  BY SeqEqual

\* Different texts are in one order or the other.
LEMMA StringsTotal ==
    ASSUME NEW s \in Seq(Nat), NEW t \in Seq(Nat)
    PROVE  /\ ~StringLess(s, s)
           /\ s = t \/ StringLess(s, t) \/ StringLess(t, s)
<1>1. /\ Len(s) \in Nat /\ Len(t) \in Nat
      /\ \A j \in 1..Len(s) : s[j] \in Nat
      /\ \A j \in 1..Len(t) : t[j] \in Nat
  OBVIOUS
<1>2. ~StringLess(s, s)
  BY <1>1 DEF StringLess
<1>3. ASSUME s # t PROVE StringLess(s, t) \/ StringLess(t, s)
  <2> DEFINE Both(j) == j <= Len(s) /\ j <= Len(t) /\ s[j] = t[j]
             D == {j \in Nat \ {0} : (j <= Len(s) \/ j <= Len(t)) /\ ~Both(j)}
  <2>1. D # {}
    <3> SUFFICES ASSUME D = {} PROVE FALSE
      OBVIOUS
    <3>1. \A j \in Nat \ {0} : j <= Len(s) \/ j <= Len(t) => Both(j)
      OBVIOUS
    <3>2. Len(s) = Len(t)
      BY <1>1, <3>1
    <3>3. \A j \in 1..Len(s) : s[j] = t[j]
      BY <1>1, <3>1
    <3>4. s = t
      BY <3>2, <3>3, SameTexts, Zenon
    <3> QED
      BY <1>3, <3>4
  <2>2. D \subseteq Nat
    OBVIOUS
  <2>3. \A j : j \in D <=> j \in Nat \ {0} /\ (j <= Len(s) \/ j <= Len(t)) /\ ~Both(j)
    OBVIOUS
  <2> HIDE DEF D, Both
  <2>4. PICK k \in D : \A j \in D : ~(<<j, k>> \in Less)
    BY <2>1, <2>2, LessIsWellFounded, WFMin
  <2>5. /\ k \in Nat \ {0} /\ (k <= Len(s) \/ k <= Len(t)) /\ ~Both(k)
    BY <2>3
  <2>6. ASSUME NEW j \in 1..(k - 1) PROVE Both(j)
    <3>1. j \in Nat /\ k \in Nat /\ j < k /\ j \in Nat \ {0}
      BY <2>5
    <3>2. <<j, k>> \in Less
      BY <3>1 DEF Less
    <3>3. j \notin D
      BY <2>4, <3>2
    <3>4. j <= Len(s) \/ j <= Len(t)
      BY <1>1, <2>5, <3>1
    <3> QED
      BY <2>3, <3>1, <3>3, <3>4
  <2>7. \/ k \in 1..Len(t) /\ (k > Len(s) \/ s[k] < t[k])
        \/ k \in 1..Len(s) /\ (k > Len(t) \/ t[k] < s[k])
    <3>1. CASE k <= Len(s) /\ k <= Len(t)
      <4>1. s[k] # t[k] /\ s[k] \in Nat /\ t[k] \in Nat
        BY <1>1, <2>5, <3>1 DEF Both
      <4> QED
        BY <1>1, <2>5, <3>1, <4>1
    <3> QED
      BY <1>1, <2>5, <3>1
  <2>8. Exceeds(s, t, k) \/ Exceeds(t, s, k)
    BY <2>6, <2>7 DEF Exceeds, Both
  <2> QED
    BY <2>8, LessAt
<1> QED
  BY <1>2, <1>3

\* The decimals of the numbers in S.
DecimalsOf(D, S) ==
    D = [n \in S |-> IF n < 10 THEN <<n>> ELSE Append(D[n \div 10], n % 10)]

\* What is left of a number without its last digit.
LEMMA Tenth ==
    ASSUME NEW n \in Nat
    PROVE  /\ n \div 10 \in Nat /\ n % 10 \in 0..9
           /\ n % 10 = n - 10 * (n \div 10)
           /\ n >= 10 => n \div 10 < n
  OBVIOUS

\* There are decimals of the numbers up to any one,
LEMMA DecimalsExist ==
    ASSUME NEW N \in Nat PROVE \E D : DecimalsOf(D, 0..N)
<1> DEFINE Known == {n \in Nat : \E D : DecimalsOf(D, 0..n)}
<1>1. \A n : n \in Known <=> n \in Nat /\ \E D : DecimalsOf(D, 0..n)
  OBVIOUS
<1> HIDE DEF Known
<1>2. 0 \in Known
  <2> DEFINE D == [n \in 0..0 |-> <<n>>]
  <2>1. D = [n \in 0..0 |-> IF n < 10 THEN <<n>> ELSE Append(D[n \div 10], n % 10)]
    OBVIOUS
  <2> HIDE DEF D
  <2> QED
    BY <1>1, <2>1 DEF DecimalsOf
<1>3. ASSUME NEW n \in Nat, n \in Known PROVE n + 1 \in Known
  <2>1. PICK D : DecimalsOf(D, 0..n)
    BY <1>1, <1>3
  <2> DEFINE W(E, m) == IF m < 10 THEN <<m>> ELSE Append(E[m \div 10], m % 10)
             E == [m \in 0..(n + 1) |-> IF m = n + 1 THEN W(D, n + 1) ELSE D[m]]
  <2>2. ASSUME NEW m \in 0..(n + 1) PROVE E[m] = W(E, m)
    <3>1. m \in Nat /\ (m >= 10 => m \div 10 \in 0..n)
      BY Tenth
    <3>2. m >= 10 => E[m \div 10] = D[m \div 10]
      BY <3>1
    <3>3. W(E, m) = W(D, m)
      BY <3>1, <3>2
    <3>4. CASE m = n + 1
      BY <3>3, <3>4
    <3>5. CASE m # n + 1
      <4>1. m \in 0..n
        BY <3>5
      <4>2. D[m] = W(D, m)
        BY <2>1, <4>1 DEF DecimalsOf
      <4> QED
        BY <3>3, <3>5, <4>2
    <3> QED
      BY <3>4, <3>5
  <2>3. DecimalsOf(E, 0..(n + 1))
    <3>1. E = [m \in 0..(n + 1) |-> E[m]]
      OBVIOUS
    <3> HIDE DEF E
    <3> QED
      BY <2>2, <3>1 DEF DecimalsOf
  <2> QED
    BY <1>1, <2>3
<1> QED
  BY <1>1, <1>2, <1>3, SetInduction

\* the same for a number whatever the largest one is,
LEMMA DecimalsAgree ==
    ASSUME NEW N \in Nat, NEW M \in Nat, N <= M,
           NEW D, DecimalsOf(D, 0..N), NEW E, DecimalsOf(E, 0..M),
           NEW n \in 0..N
    PROVE  D[n] = E[n]
<1> DEFINE Wrong == {k \in 0..N : D[k] # E[k]}
<1> SUFFICES ASSUME Wrong # {} PROVE FALSE
  OBVIOUS
<1>1. Wrong \subseteq Nat
  OBVIOUS
<1>2. \A k : k \in Wrong <=> k \in 0..N /\ D[k] # E[k]
  OBVIOUS
<1> HIDE DEF Wrong
<1>3. PICK k \in Wrong : \A j \in Wrong : ~(<<j, k>> \in Less)
  BY <1>1, LessIsWellFounded, WFMin
<1>4. k \in Nat /\ k \in 0..N /\ k \in 0..M
  BY <1>2
<1>5. k >= 10 => D[k \div 10] = E[k \div 10]
  <2> SUFFICES ASSUME k >= 10 PROVE D[k \div 10] = E[k \div 10]
    OBVIOUS
  <2>1. k \div 10 \in Nat /\ k \div 10 < k
    BY <1>4, Tenth
  <2>2. <<k \div 10, k>> \in Less
    BY <1>4, <2>1 DEF Less
  <2>3. k \div 10 \in 0..N
    BY <1>4, <2>1
  <2> QED
    BY <1>2, <1>3, <2>2, <2>3
<1>6. /\ D[k] = IF k < 10 THEN <<k>> ELSE Append(D[k \div 10], k % 10)
      /\ E[k] = IF k < 10 THEN <<k>> ELSE Append(E[k \div 10], k % 10)
  BY <1>4 DEF DecimalsOf
<1>7. D[k] = E[k]
  BY <1>4, <1>5, <1>6
<1> QED
  BY <1>2, <1>7

\* so that Digits is what its definition says.
LEMMA DigitsUnfold == DecimalsOf(Digits, Nat)
<1> DEFINE To(n) == CHOOSE D : DecimalsOf(D, 0..n)
           H == [n \in Nat |-> To(n)[n]]
<1>1. ASSUME NEW n \in Nat PROVE DecimalsOf(To(n), 0..n)
  BY DecimalsExist, Zenon
<1> HIDE DEF To
<1>2. ASSUME NEW n \in Nat, n >= 10 PROVE To(n)[n \div 10] = H[n \div 10]
  <2>1. n \div 10 \in Nat /\ n \div 10 <= n /\ n \div 10 \in 0..(n \div 10)
    BY <1>2, Tenth
  <2>2. To(n \div 10)[n \div 10] = To(n)[n \div 10]
    BY <1>1, <2>1, DecimalsAgree
  <2> QED
    BY <2>1, <2>2
<1>3. ASSUME NEW n \in Nat
      PROVE  H[n] = IF n < 10 THEN <<n>> ELSE Append(H[n \div 10], n % 10)
  <2>1. n \in 0..n
    OBVIOUS
  <2>2. To(n)[n] = IF n < 10 THEN <<n>> ELSE Append(To(n)[n \div 10], n % 10)
    BY <1>1, <2>1 DEF DecimalsOf
  <2>3. H[n] = To(n)[n]
    OBVIOUS
  <2> HIDE DEF H
  <2> QED
    BY <1>2, <2>2, <2>3
<1>4. DecimalsOf(H, Nat)
  <2>1. H = [n \in Nat |-> H[n]]
    OBVIOUS
  <2> HIDE DEF H
  <2> QED
    BY <1>3, <2>1 DEF DecimalsOf
<1>5. \E D : DecimalsOf(D, Nat)
  BY <1>4
<1>6. Digits = CHOOSE D : DecimalsOf(D, Nat)
  BY Zenon DEF Digits, DecimalsOf
<1> QED
  BY <1>5, <1>6, Zenon

\* Digits of a number are those of its tens and its last digit.
LEMMA DigitsAre ==
    ASSUME NEW n \in Nat
    PROVE  Digits[n] = IF n < 10 THEN <<n>> ELSE Append(Digits[n \div 10], n % 10)
  BY DigitsUnfold DEF DecimalsOf

\* What Append makes of a list of numbers.
LEMMA AppendType ==
    ASSUME NEW S, NEW s \in Seq(S), NEW x \in S
    PROVE  /\ Append(s, x) \in Seq(S) /\ Append(s, x) # <<>>
           /\ Len(Append(s, x)) = Len(s) + 1 /\ Len(s) \in Nat
<1>1. Append(s, x) \in Seq(S) /\ Len(Append(s, x)) = Len(s) + 1 /\ Len(s) \in Nat
  OBVIOUS
<1>2. Len(<<>>) = 0
  OBVIOUS
<1>3. Append(s, x) # <<>>
  BY <1>1, <1>2
<1> QED
  BY <1>1, <1>3

\* Digits are a list of digits.
LEMMA DigitsType ==
    ASSUME NEW n \in Nat
    PROVE  Digits[n] \in Seq(0..9) /\ Digits[n] # <<>>
<1> DEFINE Fine(k) == Digits[k] \in Seq(0..9) /\ Digits[k] # <<>>
           Wrong == {k \in Nat : ~Fine(k)}
<1> SUFFICES ASSUME Wrong # {} PROVE FALSE
  OBVIOUS
<1>1. Wrong \subseteq Nat /\ \A k : k \in Wrong <=> k \in Nat /\ ~Fine(k)
  OBVIOUS
<1> HIDE DEF Wrong
<1>2. PICK k \in Wrong : \A j \in Wrong : ~(<<j, k>> \in Less)
  BY <1>1, LessIsWellFounded, WFMin
<1>3. k \in Nat /\ ~Fine(k)
  BY <1>1
<1>4. CASE k < 10
  <2>1. Digits[k] = <<k>> /\ k \in 0..9
    <3>1. Digits[k] = IF k < 10 THEN <<k>> ELSE Append(Digits[k \div 10], k % 10)
      BY <1>3, DigitsAre
    <3> QED
      BY <1>3, <1>4, <3>1
  <2>2. <<k>> \in Seq(0..9) /\ <<k>> # <<>>
    BY <2>1
  <2> QED
    BY <1>3, <2>1, <2>2
<1>5. CASE ~(k < 10)
  <2>1. k \div 10 \in Nat /\ k \div 10 < k /\ k % 10 \in 0..9
    BY <1>3, <1>5, Tenth
  <2>2. <<k \div 10, k>> \in Less
    BY <1>3, <2>1 DEF Less
  <2>3. Digits[k \div 10] \in Seq(0..9)
    BY <1>1, <1>2, <2>1, <2>2
  <2>4. Digits[k] = Append(Digits[k \div 10], k % 10)
    BY <1>3, <1>5, DigitsAre
  <2>5. Fine(k)
    BY <2>1, <2>3, <2>4, AppendType
  <2> QED
    BY <1>3, <2>5
<1> QED
  BY <1>4, <1>5

\* q is s, then x.
OneMore(q, s, x) ==
    /\ Len(q) = Len(s) + 1
    /\ q[Len(s) + 1] = x
    /\ \A i \in 1..Len(s) : q[i] = s[i]

\* Append adds one element at the end.
LEMMA AppendGrows ==
    \A s \in Seq(Nat) : \A x \in Nat : OneMore(Append(s, x), s, x)
  BY DEF OneMore

\* A text has one last character and one text before it.
LEMMA OneMoreThanOne ==
    ASSUME NEW q, NEW s \in Seq(Nat), NEW t \in Seq(Nat), NEW x, NEW y,
           OneMore(q, s, x), OneMore(q, t, y)
    PROVE  s = t /\ x = y
<1>1. Len(s) = Len(t)
  <2>1. Len(s) \in Nat /\ Len(t) \in Nat
    OBVIOUS
  <2>2. Len(s) + 1 = Len(t) + 1
    BY DEF OneMore
  <2> QED
    BY <2>1, <2>2
<1>2. x = y
  BY <1>1 DEF OneMore
<1>3. \A i \in 1..Len(s) : s[i] = t[i]
  BY <1>1 DEF OneMore
<1>4. s = t
  BY <1>1, <1>3, SameTexts, Zenon
<1> QED
  BY <1>2, <1>4

\* A list with one more element determines both.
LEMMA Appended ==
    ASSUME NEW s \in Seq(Nat), NEW t \in Seq(Nat), NEW x \in Nat, NEW y \in Nat,
           Append(s, x) = Append(t, y)
    PROVE  s = t /\ x = y
<1>1. OneMore(Append(s, x), s, x) /\ OneMore(Append(s, x), t, y)
  BY AppendGrows, Zenon
<1> QED
  BY <1>1, OneMoreThanOne, Zenon

\* s is the decimals of a, then x.
Longer(s, a, x) == s = Append(Digits[a], x)

\* The last digit of decimals is the remainder.
LEMMA LastDigit ==
    ASSUME NEW n \in Nat, ~(n < 10)
    PROVE  \E a \in Nat, x \in Nat :
              Longer(Digits[n], a, x) /\ a < n /\ x = n - 10 * a
<1>1. /\ n \div 10 \in Nat /\ n % 10 \in Nat /\ n \div 10 < n
      /\ n % 10 = n - 10 * (n \div 10)
  BY Tenth
<1>2. Longer(Digits[n], n \div 10, n % 10)
  BY DigitsAre DEF Longer
<1> QED
  BY <1>1, <1>2

\* Equal decimals have equal tens and units.
LEMMA SameTens ==
    ASSUME NEW s, NEW a \in Nat, NEW b \in Nat, NEW x \in Nat, NEW y \in Nat,
           Longer(s, a, x), Longer(s, b, y)
    PROVE  Digits[a] = Digits[b] /\ x = y
<1>1. \A n \in Nat : Digits[n] \in Seq(Nat)
  <2> SUFFICES ASSUME NEW n \in Nat PROVE Digits[n] \in Seq(Nat)
    OBVIOUS
  <2>1. Digits[n] \in Seq(0..9)
    BY DigitsType
  <2> QED
    BY <2>1
<1>2. Digits[a] \in Seq(Nat) /\ Digits[b] \in Seq(Nat)
  BY <1>1, Zenon
<1>3. OneMore(s, Digits[a], x) /\ OneMore(s, Digits[b], y)
  BY <1>2, AppendGrows, Zenon DEF Longer
<1> QED
  BY <1>2, <1>3, OneMoreThanOne, Zenon

\* Different numbers have different decimals.
LEMMA DigitsDiffer ==
    ASSUME NEW m \in Nat, NEW n \in Nat, Digits[m] = Digits[n]
    PROVE  m = n
<1> DEFINE Wrong == {k \in Nat : \E l \in Nat : Digits[k] = Digits[l] /\ k # l}
<1> SUFFICES ASSUME Wrong # {} PROVE FALSE
  OBVIOUS
<1>1. /\ Wrong \subseteq Nat
      /\ \A k : k \in Wrong <=> k \in Nat /\ \E l \in Nat : Digits[k] = Digits[l] /\ k # l
  OBVIOUS
<1> HIDE DEF Wrong
<1>2. PICK k \in Wrong : \A j \in Wrong : ~(<<j, k>> \in Less)
  BY <1>1, LessIsWellFounded, WFMin
<1>3. PICK l \in Nat : Digits[k] = Digits[l] /\ k # l
  BY <1>1
<1>4. k \in Nat
  BY <1>1
<1>5. ASSUME NEW a \in Nat, NEW b \in Nat, a < 10, ~(b < 10)
      PROVE  Digits[a] # Digits[b]
  <2>1. Digits[a] = <<a>> /\ Digits[b] = Append(Digits[b \div 10], b % 10)
    BY <1>5, DigitsAre
  <2>2. b \div 10 \in Nat /\ b % 10 \in 0..9
    BY Tenth
  <2>3. Digits[b \div 10] \in Seq(0..9) /\ Digits[b \div 10] # <<>>
    BY <2>2, DigitsType
  <2>4. Len(Digits[b]) = Len(Digits[b \div 10]) + 1 /\ Len(Digits[b \div 10]) # 0
    <3>1. Len(Digits[b \div 10]) # 0
      BY <2>3
    <3> QED
      BY <2>1, <2>2, <2>3, <3>1, AppendType
  <2>5. Len(Digits[a]) = 1
    BY <2>1
  <2>6. Len(Digits[b \div 10]) \in Nat
    BY <2>3
  <2>7. Len(Digits[b]) # Len(Digits[a])
    BY <2>4, <2>5, <2>6
  <2> QED
    BY <2>7
<1>6. CASE k < 10 /\ l < 10
  <2>1. <<k>> = <<l>>
    BY <1>3, <1>4, <1>6, DigitsAre
  <2> QED
    BY <1>3, <2>1
<1>7. CASE ~(k < 10) /\ ~(l < 10)
  <2>1. PICK a \in Nat, x \in Nat :
           Longer(Digits[k], a, x) /\ a < k /\ x = k - 10 * a
    BY <1>4, <1>7, LastDigit
  <2>2. PICK b \in Nat, y \in Nat :
           Longer(Digits[l], b, y) /\ b < l /\ y = l - 10 * b
    BY <1>7, LastDigit
  <2>3. Longer(Digits[k], b, y)
    BY <1>3, <2>1, <2>2
  <2>4. Digits[a] = Digits[b] /\ x = y
    BY <2>1, <2>3, SameTens
  <2>5. a # b
    BY <1>3, <1>4, <2>1, <2>2, <2>4
  <2>6. a \in Wrong
    BY <1>1, <2>4, <2>5
  <2>7. <<a, k>> \in Less
    BY <1>4, <2>1 DEF Less
  <2> QED
    BY <1>2, <2>6, <2>7
<1> QED
  BY <1>3, <1>4, <1>5, <1>6, <1>7

\* Digits and words are texts.
LEMMA WordType ==
    ASSUME NEW n \in Nat
    PROVE  Digits[n] \in Seq(Nat) /\ Word(n) \in Seq(Nat)
<1>1. Digits[n] \in Seq(0..9)
  BY DigitsType
<1>2. Digits[n] \in Seq(Nat)
  BY <1>1
<1> QED
  BY <1>2 DEF Word, Underscore

\* Different numbers have different words.
LEMMA WordsDiffer ==
    ASSUME NEW m \in Nat, NEW n \in Nat, Word(m) = Word(n)
    PROVE  m = n
<1>1. Digits[m] \in Seq(Nat) /\ Digits[n] \in Seq(Nat) /\ Underscore \in Nat
  BY WordType DEF Underscore
<1>2. Digits[m] = Digits[n]
  BY <1>1, Appended, Zenon DEF Word
<1> QED
  BY <1>2, DigitsDiffer

\* Numbers are in one order as words and as digits.
LEMMA NumbersInTextOrder ==
    ASSUME NEW a \in Nat, NEW b \in Nat, NEW c \in Nat
    PROVE  /\ ~StringLess(Word(a), Word(a)) /\ ~StringLess(Digits[a], Digits[a])
           /\ StringLess(Word(a), Word(b)) /\ StringLess(Word(b), Word(c))
                => StringLess(Word(a), Word(c))
           /\ StringLess(Digits[a], Digits[b]) /\ StringLess(Digits[b], Digits[c])
                => StringLess(Digits[a], Digits[c])
           /\ a = b \/ StringLess(Word(a), Word(b)) \/ StringLess(Word(b), Word(a))
           /\ a = b \/ StringLess(Digits[a], Digits[b]) \/ StringLess(Digits[b], Digits[a])
<1>1. /\ Word(a) \in Seq(Nat) /\ Word(b) \in Seq(Nat) /\ Word(c) \in Seq(Nat)
      /\ Digits[a] \in Seq(Nat) /\ Digits[b] \in Seq(Nat) /\ Digits[c] \in Seq(Nat)
  BY WordType
<1>2. \A s, t, u \in Seq(Nat) : StringLess(s, t) /\ StringLess(t, u) => StringLess(s, u)
  BY StringsTransitive
<1>3. \A s, t \in Seq(Nat) : ~StringLess(s, s) /\ (s = t \/ StringLess(s, t) \/ StringLess(t, s))
  BY StringsTotal
<1>4. (Word(a) = Word(b) => a = b) /\ (Digits[a] = Digits[b] => a = b)
  BY WordsDiffer, DigitsDiffer
<1> QED
  BY <1>1, <1>2, <1>3, <1>4, Zenon

\* Ids are in one order as texts.
LEMMA IdsInTextOrder ==
    ASSUME NEW a \in IdTuples, NEW b \in IdTuples, NEW c \in IdTuples
    PROVE  /\ ~TextLess(a, a)
           /\ TextLess(a, b) /\ TextLess(b, c) => TextLess(a, c)
           /\ a = b \/ TextLess(a, b) \/ TextLess(b, a)
<1> DEFINE W(x, y) == StringLess(Word(x), Word(y))
           D(x, y) == StringLess(Digits[x], Digits[y])
<1>1. \A x \in IdTuples : /\ x[1] \in Nat /\ x[2] \in Nat /\ x[3] \in Nat
                          /\ x = <<x[1], x[2], x[3]>>
  BY DEF IdTuples
<1>2. a[1] = b[1] /\ a[2] = b[2] /\ a[3] = b[3] => a = b
  BY <1>1
<1>3. \A x, y, z \in Nat : /\ ~W(x, x) /\ ~D(x, x)
                           /\ W(x, y) /\ W(y, z) => W(x, z)
                           /\ D(x, y) /\ D(y, z) => D(x, z)
                           /\ x = y \/ W(x, y) \/ W(y, x)
                           /\ x = y \/ D(x, y) \/ D(y, x)
  BY NumbersInTextOrder
<1>4. \A x, y \in IdTuples :
         TextLess(x, y) <=> \/ W(x[1], y[1])
                            \/ x[1] = y[1] /\ W(x[2], y[2])
                            \/ x[1] = y[1] /\ x[2] = y[2] /\ D(x[3], y[3])
  BY DEF TextLess
<1> HIDE DEF W, D, IdTuples
<1>5. ~TextLess(a, a)
  BY <1>1, <1>3, <1>4
<1>6. TextLess(a, b) /\ TextLess(b, c) => TextLess(a, c)
  <2> SUFFICES ASSUME TextLess(a, b), TextLess(b, c) PROVE TextLess(a, c)
    OBVIOUS
  <2>1. \/ W(a[1], b[1])
        \/ a[1] = b[1] /\ W(a[2], b[2])
        \/ a[1] = b[1] /\ a[2] = b[2] /\ D(a[3], b[3])
    BY <1>4
  <2>2. \/ W(b[1], c[1])
        \/ b[1] = c[1] /\ W(b[2], c[2])
        \/ b[1] = c[1] /\ b[2] = c[2] /\ D(b[3], c[3])
    BY <1>4
  <2>3. \/ W(a[1], c[1])
        \/ a[1] = c[1] /\ W(a[2], c[2])
        \/ a[1] = c[1] /\ a[2] = c[2] /\ D(a[3], c[3])
    BY <1>1, <1>3, <2>1, <2>2
  <2> QED
    BY <1>4, <2>3
<1>7. a = b \/ TextLess(a, b) \/ TextLess(b, a)
  <2> SUFFICES ASSUME a # b PROVE TextLess(a, b) \/ TextLess(b, a)
    OBVIOUS
  <2>1. a[1] # b[1] \/ a[2] # b[2] \/ a[3] # b[3]
    BY <1>2
  <2> QED
    BY <1>1, <1>3, <1>4, <2>1
<1> QED
  BY <1>5, <1>6, <1>7

----------------------------------------------------------------------------
(* Sorting by that order lists a set: each of its ids once *)

TextBefore(S, a) == {b \in S : TextLess(b, a)}
TextPlace(S, a) == Cardinality(TextBefore(S, a))

\* The ids before one are fewer than all,
LEMMA TextPlaceType ==
    ASSUME NEW S, IsFiniteSet(S), S \subseteq IdTuples, NEW a \in S
    PROVE  TextPlace(S, a) \in 0..(Cardinality(S) - 1) /\ IsFiniteSet(TextBefore(S, a))
<1>1. TextBefore(S, a) \in SUBSET S /\ a \notin TextBefore(S, a)
  BY IdsInTextOrder DEF TextBefore
<1>2. Cardinality(S) \in Nat
  BY FS_CardinalityType
<1>3. /\ IsFiniteSet(TextBefore(S, a))
      /\ Cardinality(TextBefore(S, a)) <= Cardinality(S)
      /\ Cardinality(TextBefore(S, a)) # Cardinality(S)
  BY <1>1, FS_Subset
<1>4. Cardinality(TextBefore(S, a)) \in Nat
  BY <1>3, FS_CardinalityType
<1> QED
  BY <1>2, <1>3, <1>4 DEF TextPlace

\* more before a later one,
LEMMA TextPlacesGrow ==
    ASSUME NEW S, IsFiniteSet(S), S \subseteq IdTuples,
           NEW a \in S, NEW b \in S, TextLess(a, b)
    PROVE  TextPlace(S, a) < TextPlace(S, b)
<1>1. TextBefore(S, a) \in SUBSET TextBefore(S, b)
  <2> SUFFICES ASSUME NEW c \in S, TextLess(c, a) PROVE TextLess(c, b)
    BY DEF TextBefore
  <2> QED
    BY IdsInTextOrder
<1>2. a \in TextBefore(S, b) /\ a \notin TextBefore(S, a)
  BY IdsInTextOrder DEF TextBefore
<1>3. /\ Cardinality(TextBefore(S, a)) <= Cardinality(TextBefore(S, b))
      /\ Cardinality(TextBefore(S, a)) # Cardinality(TextBefore(S, b))
  BY <1>1, <1>2, TextPlaceType, FS_Subset
<1>4. TextPlace(S, a) \in Int /\ TextPlace(S, b) \in Int
  BY TextPlaceType
<1> QED
  BY <1>3, <1>4 DEF TextPlace

\* and so never as many before two.
LEMMA TextPlacesDiffer ==
    ASSUME NEW S, IsFiniteSet(S), S \subseteq IdTuples,
           NEW a \in S, NEW b \in S, TextPlace(S, a) = TextPlace(S, b)
    PROVE  a = b
<1>1. TextPlace(S, a) \in Int
  BY TextPlaceType
<1>2. ~TextLess(a, b) /\ ~TextLess(b, a)
  BY <1>1, TextPlacesGrow
<1>3. a \in IdTuples /\ b \in IdTuples
  OBVIOUS
<1> QED
  BY <1>2, <1>3, IdsInTextOrder

\* Every place is some id's.
LEMMA EveryTextPlace ==
    ASSUME NEW S, IsFiniteSet(S), S \subseteq IdTuples, NEW i \in 0..(Cardinality(S) - 1)
    PROVE  \E a \in S : TextPlace(S, a) = i
<1> DEFINE N == Cardinality(S)
           f == [a \in S |-> TextPlace(S, a)]
<1>1. N \in Nat
  BY FS_CardinalityType
<1>2. IsFiniteSet(0..(N - 1)) /\ Cardinality(0..(N - 1)) = N
  BY <1>1, FS_Interval
<1>3. f \in [S -> 0..(N - 1)] /\ \A a, b \in S : f[a] = f[b] => a = b
  BY TextPlaceType, TextPlacesDiffer
<1> HIDE DEF N
<1>4. f \in Injection(S, 0..(N - 1))
  BY <1>3 DEF Injection, IsInjective
<1>5. f \in Surjection(S, 0..(N - 1))
  <2> HIDE DEF f
  <2> QED
    BY <1>1, <1>2, <1>4, FS_Injection DEF N
<1> QED
  BY <1>5 DEF Surjection, N

\* Sorted ids are a list of exactly these ids,
LEMMA SortedIdsList ==
    ASSUME NEW S, IsFiniteSet(S), S \subseteq IdTuples
    PROVE  SortedIds(S) \in Seq(S) /\ RangeOf(SortedIds(S)) = S
<1> DEFINE N == Cardinality(S)
           At(i) == CHOOSE a \in S : Cardinality({b \in S : TextLess(b, a)}) = i - 1
<1>1. N \in Nat
  BY FS_CardinalityType
<1>2. SortedIds(S) = [i \in 1..N |-> At(i)]
  BY DEF SortedIds
<1>3. ASSUME NEW i \in 1..N PROVE At(i) \in S /\ TextPlace(S, At(i)) = i - 1
  <2>1. i - 1 \in 0..(N - 1)
    BY <1>1
  <2>2. \E a \in S : Cardinality({b \in S : TextLess(b, a)}) = i - 1
    BY <2>1, EveryTextPlace DEF TextPlace, TextBefore
  <2> QED
    BY <2>2 DEF TextPlace, TextBefore
<1>4. ASSUME NEW a \in S PROVE \E i \in 1..N : At(i) = a
  <2>1. TextPlace(S, a) + 1 \in 1..N /\ (TextPlace(S, a) + 1) - 1 = TextPlace(S, a)
    BY <1>1, TextPlaceType
  <2>2. At(TextPlace(S, a) + 1) \in S /\ TextPlace(S, At(TextPlace(S, a) + 1)) = TextPlace(S, a)
    BY <1>3, <2>1
  <2>3. At(TextPlace(S, a) + 1) = a
    BY <2>2, TextPlacesDiffer
  <2> QED
    BY <2>1, <2>3
<1> HIDE DEF At
<1>5. SortedIds(S) \in Seq(S)
  BY <1>1, <1>2, <1>3
<1>6. DOMAIN SortedIds(S) = 1..N /\ \A i \in 1..N : SortedIds(S)[i] = At(i)
  BY <1>2
<1>7. RangeOf(SortedIds(S)) = S
  BY <1>3, <1>4, <1>6 DEF RangeOf
<1> QED
  BY <1>5, <1>7

\* and sorted preferences one of exactly these preferences.
LEMMA SortedPrefsList ==
    ASSUME NEW S, Ordered(S)
    PROVE  Listed(SortedPrefs(S)) /\ RangeOf(SortedPrefs(S)) = S
<1> DEFINE ids == SortedIds(Ids(S))
           Of(a) == CHOOSE p \in S : p.id = a
<1>1. IsFiniteSet(Ids(S)) /\ Ids(S) \subseteq IdTuples
  <2>1. Ids(S) \subseteq IdTuples
    BY DEF Ids, Ordered
  <2> DEFINE f == [p \in S |-> p.id]
  <2>2. f \in Surjection(S, Ids(S))
    BY DEF Surjection, Ids
  <2> HIDE DEF f
  <2>3. IsFiniteSet(Ids(S))
    BY <2>2, FS_Surjection DEF Ordered
  <2> QED
    BY <2>1, <2>3
<1>2. ids \in Seq(Ids(S)) /\ RangeOf(ids) = Ids(S)
  BY <1>1, SortedIdsList
<1>3. \A p \in S : Of(p.id) = p
  BY DEF Ordered
<1>4. SortedPrefs(S) = [i \in DOMAIN ids |-> Of(ids[i])]
  BY DEF SortedPrefs
<1> HIDE DEF ids, Of
<1>5. \A i \in DOMAIN ids : \E p \in S : ids[i] = p.id /\ Of(ids[i]) = p
  <2> SUFFICES ASSUME NEW i \in DOMAIN ids PROVE \E p \in S : ids[i] = p.id /\ Of(ids[i]) = p
    OBVIOUS
  <2>1. ids[i] \in Ids(S)
    BY <1>2 DEF RangeOf
  <2>2. PICK p \in S : ids[i] = p.id
    BY <2>1 DEF Ids
  <2> QED
    BY <1>3, <2>2
<1>6. \A p \in S : \E i \in DOMAIN ids : Of(ids[i]) = p
  <2> SUFFICES ASSUME NEW p \in S PROVE \E i \in DOMAIN ids : Of(ids[i]) = p
    OBVIOUS
  <2>1. PICK i \in DOMAIN ids : ids[i] = p.id
    BY <1>2 DEF RangeOf, Ids
  <2> QED
    BY <1>3, <2>1
<1>7. RangeOf(SortedPrefs(S)) = S
  BY <1>4, <1>5, <1>6 DEF RangeOf
<1>8. SortedPrefs(S) \in Seq(S)
  <2>1. Len(ids) \in Nat /\ DOMAIN ids = 1..Len(ids)
    BY <1>2
  <2> QED
    BY <1>4, <1>5, <2>1
<1> QED
  BY <1>7, <1>8 DEF Listed

----------------------------------------------------------------------------
(* The target of a plan says what the frame says *)

\* The elements of a list made of another one element by element.
LEMMA MappedElements ==
    ASSUME NEW s, NEW G, G = [x \in RangeOf(s) |-> G[x]],
           NEW u, u = [j \in DOMAIN s |-> G[s[j]]]
    PROVE  RangeOf(u) = {G[x] : x \in RangeOf(s)}
  BY DEF RangeOf

\* Candidates say what the items say, all of it, the rest being kept.
LEMMA CandidatesTold ==
    ASSUME NEW i, NEW f, Formed(f)
    PROVE  /\ Listed(Candidates(i, f))
           /\ \A c \in RangeOf(Candidates(i, f)) : \E item \in Items(f) : c \in Readings(item)
           /\ \A item \in Items(f) :
                 \E c \in RangeOf(Candidates(i, f)) \cup Keys(Kept(i, f)) : c \in Readings(item)
<1> DEFINE kept == Kept(i, f)
           categories == CategoryItems(f)
           scope == TargetScope(kept, categories)
           first == [j \in DOMAIN categories |-> StructuredOf(categories[j])]
           others == OtherItems(f)
           new == CHOOSE g : Structures(g, first, kept, others, scope)
           said == new[Len(others)]
           price == [j \in DOMAIN f.price |-> Interpreted(f.price[j], "price", scope)]
           semantic == [j \in DOMAIN f.semantic |-> SemanticOf(f.semantic[j])]
<1>1. /\ Listed(categories) /\ Listed(others)
      /\ RangeOf(f.structured) = RangeOf(categories) \cup RangeOf(others)
  <2>1. \A S : /\ Listed(Only(f.structured, S))
               /\ RangeOf(Only(f.structured, S)) = RangeOf(f.structured) \cap S
    BY OnlyPicks DEF Listed, Formed
  <2>2. /\ RangeOf(categories) = {c \in RangeOf(f.structured) : OnCategory(c)}
        /\ RangeOf(others) = {c \in RangeOf(f.structured) : ~OnCategory(c)}
    BY <2>1 DEF CategoryItems, OtherItems
  <2>3. Listed(categories) /\ Listed(others)
    BY <2>1 DEF CategoryItems, OtherItems
  <2> QED
    BY <2>2, <2>3
<1> HIDE DEF categories, others, kept, scope
<1>2. /\ Listed(first)
      /\ \A c \in RangeOf(first) : \E item \in RangeOf(categories) : c \in Readings(item)
      /\ \A item \in RangeOf(categories) : \E c \in RangeOf(first) : c \in Readings(item)
  <2>1. DOMAIN first = DOMAIN categories /\ first = [j \in DOMAIN first |-> first[j]]
    OBVIOUS
  <2>2. \A j \in DOMAIN categories : first[j] \in Readings(categories[j])
    BY DEF Readings
  <2> HIDE DEF first
  <2>3. Listed(first)
    BY <1>1, <2>1, Mapped
  <2> QED
    BY <2>1, <2>2, <2>3 DEF RangeOf
<1>3. /\ Listed(price)
      /\ \A c \in RangeOf(price) : \E item \in RangeOf(f.price) : c \in Readings(item)
      /\ \A item \in RangeOf(f.price) : \E c \in RangeOf(price) : c \in Readings(item)
  <2>1. DOMAIN price = DOMAIN f.price /\ price = [j \in DOMAIN price |-> price[j]]
    OBVIOUS
  <2>2. \A j \in DOMAIN f.price : price[j] \in Readings(f.price[j])
    BY DEF Interpreted, Readings
  <2> HIDE DEF price
  <2>3. Listed(price)
    BY <2>1, Mapped DEF Formed
  <2> QED
    BY <2>1, <2>2, <2>3 DEF RangeOf
<1>4. /\ Listed(semantic)
      /\ \A c \in RangeOf(semantic) : \E item \in RangeOf(f.semantic) : c \in Readings(item)
      /\ \A item \in RangeOf(f.semantic) : \E c \in RangeOf(semantic) : c \in Readings(item)
  <2>1. DOMAIN semantic = DOMAIN f.semantic
        /\ semantic = [j \in DOMAIN semantic |-> semantic[j]]
    OBVIOUS
  <2>2. \A j \in DOMAIN f.semantic : semantic[j] \in Readings(f.semantic[j])
    BY DEF Readings
  <2> HIDE DEF semantic
  <2>3. Listed(semantic)
    BY <2>1, Mapped DEF Formed
  <2> QED
    BY <2>1, <2>2, <2>3 DEF RangeOf
<1> HIDE DEF first
<1>5. Told(said, first, kept, others, Len(others))
  BY <1>1, <1>2, StructuresTold
<1>6. Candidates(i, f) = (said \o price) \o semantic
  BY Zenon DEF Candidates, Structures, said, new, first, kept, scope, categories, others,
               price, semantic
<1> HIDE DEF said, new, price, semantic
<1>7. Listed(said)
  BY <1>5 DEF Told
<1>8. /\ Listed(said \o price)
      /\ RangeOf(said \o price) = RangeOf(said) \cup RangeOf(price)
  BY <1>3, <1>7, Sequences, Elements
<1>9. /\ Listed(Candidates(i, f))
      /\ RangeOf(Candidates(i, f))
           = RangeOf(said) \cup RangeOf(price) \cup RangeOf(semantic)
  BY <1>4, <1>6, <1>8, Sequences, Elements
<1>10. /\ \A c \in RangeOf(said) : \E item \in RangeOf(f.structured) : c \in Readings(item)
       /\ \A item \in RangeOf(f.structured) :
             \E c \in RangeOf(said) \cup Keys(kept) : c \in Readings(item)
  <2>1. DOMAIN others = 1..Len(others)
    BY <1>1, Sequences
  <2>2. \A j \in 1..Len(others) : others[j] \in RangeOf(others)
    BY <2>1 DEF RangeOf
  <2>3. \A item \in RangeOf(others) : \E j \in 1..Len(others) : item = others[j]
    BY <2>1 DEF RangeOf
  <2>4. \A c \in RangeOf(said) :
           c \in RangeOf(first) \/ \E j \in 1..Len(others) : c \in Readings(others[j])
    BY <1>5 DEF Told
  <2>5. \A j \in 1..Len(others) :
           \E c \in RangeOf(said) \cup Keys(kept) : c \in Readings(others[j])
    BY <1>5 DEF Told
  <2>6. RangeOf(first) \subseteq RangeOf(said)
    BY <1>5 DEF Told
  <2>7. \A item \in RangeOf(others) :
           \E c \in RangeOf(said) \cup Keys(kept) : c \in Readings(item)
    BY <2>3, <2>5
  <2>8. \A item \in RangeOf(categories) :
           \E c \in RangeOf(said) \cup Keys(kept) : c \in Readings(item)
    BY <1>2, <2>6
  <2>9. \A c \in RangeOf(said) : \E item \in RangeOf(f.structured) : c \in Readings(item)
    BY <1>1, <1>2, <2>2, <2>4
  <2> QED
    BY <1>1, <2>7, <2>8, <2>9
<1>11. Items(f) = RangeOf(f.structured) \cup RangeOf(f.price) \cup RangeOf(f.semantic)
  BY DEF Items
<1>12. \A c \in RangeOf(Candidates(i, f)) : \E item \in Items(f) : c \in Readings(item)
  BY <1>3, <1>4, <1>9, <1>10, <1>11
<1>13. \A item \in Items(f) :
          \E c \in RangeOf(Candidates(i, f)) \cup Keys(kept) : c \in Readings(item)
  BY <1>3, <1>4, <1>9, <1>10, <1>11
<1> QED
  BY <1>9, <1>12, <1>13 DEF kept

AnyFacet == Facets \cup {SemanticOnly}

\* The items of a frame are records of LogicalFields, about known facets.
Worded(f) ==
    /\ \A item \in Items(f) : item = LogicalKey(item) /\ item.facet \in AnyFacet
    /\ f.dontCare \subseteq Facets

\* A reading of an item is a record like it.
LEMMA ReadingKeys ==
    ASSUME NEW item, item = LogicalKey(item), item.facet \in AnyFacet,
           NEW c \in Readings(item)
    PROVE  c = LogicalKey(c) /\ c.facet \in AnyFacet
<1>1. item = [field \in LogicalFields |-> item[field]]
  BY DEF LogicalKey
<1>2. /\ "facet" \in LogicalFields /\ "text" \in LogicalFields
      /\ "value" \in LogicalFields /\ "op" \in LogicalFields
  BY DEF LogicalFields
<1>3. ASSUME NEW d, DOMAIN d = LogicalFields, d = [field \in DOMAIN d |-> d[field]]
      PROVE  d = LogicalKey(d)
  BY <1>3 DEF LogicalKey
<1>4. CASE c = StructuredOf(item)
  <2> DEFINE text == IF item.facet \in RetrievalDerived THEN item.text ELSE NoText
  <2>1. c = [item EXCEPT !.text = text]
    BY <1>4 DEF StructuredOf
  <2> HIDE DEF text
  <2>2. DOMAIN c = LogicalFields /\ c = [field \in DOMAIN c |-> c[field]]
    BY <1>1, <2>1
  <2>3. c.facet = item.facet
    BY <1>1, <1>2, <2>1
  <2> QED
    BY <1>3, <2>2, <2>3
<1>5. CASE c = SemanticOf(item)
  <2> DEFINE op == IF item.op \in Polarities THEN item.op ELSE PolarityOf(item.op)
  <2>1. c = [item EXCEPT !.facet = SemanticOnly, !.value = {}, !.op = op]
    BY <1>5 DEF SemanticOf
  <2> HIDE DEF op
  <2>2. DOMAIN c = LogicalFields /\ c = [field \in DOMAIN c |-> c[field]]
    BY <1>1, <2>1
  <2>3. c.facet = SemanticOnly
    BY <1>1, <1>2, <2>1
  <2> QED
    BY <1>3, <2>2, <2>3 DEF AnyFacet
<1> QED
  BY <1>4, <1>5 DEF Readings

\* Nothing that is kept is about the category, which there was.
CategoryDropped(i, f) ==
    /\ ReservedPreferences(i.prefs) # {}
    /\ \A q \in Kept(i, f) : q.facet # Category

\* What target says is what the frame says; the category can be the root.
Targeted(i, f, target) ==
    /\ target.old \subseteq i.prefs /\ Kept(i, f) \subseteq target.old
    /\ Listed(target.new)
    /\ \A c \in RangeOf(target.new) :
          c = LogicalKey(c) /\ c.facet \in AnyFacet /\ c \notin Keys(i.prefs)
    /\ \A item \in Items(f) :
          \E c \in RangeOf(target.new) \cup Keys(target.old) : c \in Readings(item)
    /\ \A p \in target.old :
          \/ p \in Kept(i, f)
          \/ \E item \in Items(f) : LogicalKey(p) \in Readings(item)
          \/ p.facet = Category /\ p.value = {RootScope} /\ CategoryDropped(i, f)
    /\ \A c \in RangeOf(target.new) :
          \/ \E item \in Items(f) : c \in Readings(item)
          \/ c = RootCategory /\ CategoryDropped(i, f)

\* The target before the category is looked at.
LEMMA TargetBefore ==
    ASSUME NEW i, NEW f, Formed(f), Worded(f),
           NEW candidates, candidates = Candidates(i, f),
           NEW target, target = [old |-> Kept(i, f) \cup Reused(i.prefs, candidates),
                                 new |-> Fresh(i.prefs, candidates)]
    PROVE  Targeted(i, f, target)
<1> DEFINE O == target.old
           C == target.new
<1>1. /\ O = Kept(i, f) \cup Reused(i.prefs, candidates)
      /\ C = Only(candidates, RangeOf(candidates) \ Keys(i.prefs))
  BY DEF Fresh, Keys
<1>2. /\ Listed(candidates)
      /\ \A c \in RangeOf(candidates) : \E item \in Items(f) : c \in Readings(item)
      /\ \A item \in Items(f) :
            \E c \in RangeOf(candidates) \cup Keys(Kept(i, f)) : c \in Readings(item)
  BY CandidatesTold
<1> HIDE DEF O, C
<1>3. Listed(C) /\ RangeOf(C) = RangeOf(candidates) \ Keys(i.prefs)
  BY <1>1, <1>2, OnlyPicks DEF Listed
<1>4. O \subseteq i.prefs /\ Kept(i, f) \subseteq O
  BY <1>1 DEF Kept, Reused
<1>5. \A c \in RangeOf(C) :
         c = LogicalKey(c) /\ c.facet \in AnyFacet /\ c \notin Keys(i.prefs)
  <2> SUFFICES ASSUME NEW c \in RangeOf(C)
               PROVE  c = LogicalKey(c) /\ c.facet \in AnyFacet /\ c \notin Keys(i.prefs)
    OBVIOUS
  <2>1. PICK item \in Items(f) : c \in Readings(item)
    BY <1>2, <1>3
  <2>2. item = LogicalKey(item) /\ item.facet \in AnyFacet
    BY DEF Worded
  <2>3. c = LogicalKey(c) /\ c.facet \in AnyFacet
    BY <2>1, <2>2, ReadingKeys
  <2> QED
    BY <1>3, <2>3
<1>6. \A p \in O : p \in Kept(i, f) \/ \E item \in Items(f) : LogicalKey(p) \in Readings(item)
  BY <1>1, <1>2 DEF Reused
<1>7. ASSUME NEW item \in Items(f)
      PROVE  \E c \in RangeOf(C) \cup Keys(O) : c \in Readings(item)
  <2>1. PICK c \in RangeOf(candidates) \cup Keys(Kept(i, f)) : c \in Readings(item)
    BY <1>2
  <2>2. CASE c \in Keys(Kept(i, f))
    BY <1>4, <2>1, <2>2 DEF Keys
  <2>3. CASE c \in RangeOf(candidates) /\ c \in Keys(i.prefs)
    <3>1. PICK p \in i.prefs : c = LogicalKey(p)
      BY <2>3 DEF Keys
    <3>2. p \in O
      BY <1>1, <2>3, <3>1 DEF Reused
    <3> QED
      BY <2>1, <3>1, <3>2 DEF Keys
  <2>4. CASE c \in RangeOf(candidates) /\ c \notin Keys(i.prefs)
    BY <1>3, <2>1, <2>4
  <2> QED
    BY <2>1, <2>2, <2>3, <2>4
<1>8. \A c \in RangeOf(C) : \E item \in Items(f) : c \in Readings(item)
  BY <1>2, <1>3
<1> QED
  BY <1>3, <1>4, <1>5, <1>6, <1>7, <1>8 DEF Targeted, O, C

\* The root category is a record of a category.
LEMMA RootIsKey == RootCategory = LogicalKey(RootCategory) /\ RootCategory.facet = Category
                   /\ RootCategory.value = {RootScope}
  BY DEF RootCategory, LogicalKey, LogicalFields

\* The target of a plan says what the frame says.
LEMMA TargetTold ==
    ASSUME NEW i, NEW f, Formed(f), Worded(f), CompleteIntent(i.prefs, i.dontCare),
           NEW target, target = TargetOf(i, f, Candidates(i, f))
    PROVE  Targeted(i, f, target)
<1> DEFINE candidates == Candidates(i, f)
           O == Kept(i, f) \cup Reused(i.prefs, candidates)
           C == Fresh(i.prefs, candidates)
           before == [old |-> O, new |-> C]
           dropped == ReservedPreferences(BaselinePrefs(i, f, O))
<1>1. Targeted(i, f, before)
  BY TargetBefore
<1>2. target = Broadened(i, f, before, dropped)
  BY DEF TargetOf
<1>3. dropped \subseteq ReservedPreferences(i.prefs)
  <2>1. O \subseteq i.prefs
    BY DEF Kept, Reused
  <2> QED
    BY <2>1 DEF BaselinePrefs, ReservedPreferences
<1>4. before.old = O /\ before.new = C
  OBVIOUS
<1> HIDE DEF candidates, O, C, dropped
<1>5. \A p, q \in ReservedPreferences(i.prefs) : p = q
  BY DEF CompleteIntent
<1>6. \/ target = before
      \/ /\ ReservedPreferences(O \cup RangeOf(C)) = {} /\ dropped # {}
         /\ \/ /\ \E p \in dropped : p.value = {RootScope}
               /\ target = [before EXCEPT !.old = @ \cup dropped]
            \/ /\ ~\E p \in dropped : p.value = {RootScope}
               /\ target = [before EXCEPT !.new = Append(@, RootCategory)]
  BY <1>2, <1>4 DEF Broadened
<1> SUFFICES ASSUME ReservedPreferences(O \cup RangeOf(C)) = {}, dropped # {}
             PROVE  (\/ /\ \E p \in dropped : p.value = {RootScope}
                        /\ target = [before EXCEPT !.old = @ \cup dropped]
                     \/ /\ ~\E p \in dropped : p.value = {RootScope}
                        /\ target = [before EXCEPT !.new = Append(@, RootCategory)])
                    => Targeted(i, f, target)
  BY <1>1, <1>6
<1>7. CategoryDropped(i, f)
  <2>1. Kept(i, f) \subseteq O
    BY DEF O
  <2>2. \A q \in Kept(i, f) : q.facet # Category
    BY <2>1 DEF ReservedPreferences
  <2> QED
    BY <1>3, <2>2 DEF CategoryDropped
<1>8. CASE /\ \E p \in dropped : p.value = {RootScope}
           /\ target = [before EXCEPT !.old = @ \cup dropped]
  <2>1. target = [old |-> O \cup dropped, new |-> C]
    BY <1>8
  <2>2. target.old = O \cup dropped /\ target.new = C
    BY <2>1
  <2>3. \A p \in dropped : p.facet = Category /\ p.value = {RootScope} /\ p \in i.prefs
    BY <1>3, <1>5, <1>8 DEF ReservedPreferences
  <2> HIDE DEF before
  <2>4. Targeted(i, f, target)
    BY <1>1, <1>4, <1>7, <2>2, <2>3 DEF Targeted, Keys
  <2> QED
    BY <2>4
<1>9. CASE /\ ~\E p \in dropped : p.value = {RootScope}
           /\ target = [before EXCEPT !.new = Append(@, RootCategory)]
  <2>1. target = [old |-> O, new |-> Append(C, RootCategory)]
    BY <1>9
  <2>2. target.old = O /\ target.new = Append(C, RootCategory)
    BY <2>1
  <2> HIDE DEF before
  <2>3. Listed(C)
    BY <1>1, <1>4 DEF Targeted
  <2>4. Listed(target.new) /\ RangeOf(target.new) = RangeOf(C) \cup {RootCategory}
    <3>1. Listed(Append(C, RootCategory))
      BY <2>3, Sequences, Zenon
    <3>2. RangeOf(Append(C, RootCategory)) = RangeOf(C) \cup {RootCategory}
      BY <2>3, Elements, Zenon
    <3> QED
      BY <2>2, <3>1, <3>2, Zenon
  <2>5. RootCategory \notin Keys(i.prefs)
    <3> SUFFICES ASSUME NEW p \in i.prefs, RootCategory = LogicalKey(p) PROVE FALSE
      BY DEF Keys
    <3>1. LogicalKey(p).facet = p.facet /\ LogicalKey(p).value = p.value
      BY DEF LogicalKey, LogicalFields
    <3>2. p.facet = Category /\ p.value = {RootScope}
      BY <3>1, RootIsKey
    <3>3. p \in ReservedPreferences(i.prefs)
      BY <3>2 DEF ReservedPreferences
    <3> QED
      BY <1>3, <1>5, <1>9, <3>2, <3>3
  <2>6. Category \in AnyFacet
    BY FacetsAssumption DEF AnyFacet
  <2>7. \A c \in RangeOf(target.new) :
           c = LogicalKey(c) /\ c.facet \in AnyFacet /\ c \notin Keys(i.prefs)
    BY <1>1, <1>4, <2>4, <2>5, <2>6, RootIsKey DEF Targeted
  <2>8. Targeted(i, f, target)
    BY <1>1, <1>4, <1>7, <2>2, <2>4, <2>7 DEF Targeted
  <2> QED
    BY <2>8
<1> QED
  BY <1>8, <1>9

----------------------------------------------------------------------------
(* The states of a reduction that succeeds *)

OneMeaning(known) == \A p, q \in known : p.id = q.id => LogicalKey(p) = LogicalKey(q)

\* A state within the rules: what it works on is known, and an id of the
\* identity table has one meaning.
Kempt(s, base, t) ==
    /\ Reduced(s.work, base, t)
    /\ IsFiniteSet(s.work.prefs)
    /\ \A p \in s.work.prefs : p.id \in IdTuples
    /\ base.prefs \subseteq s.known /\ s.work.prefs \subseteq s.known
    /\ OneMeaning(s.known)

\* What an operation introduces keeps the meanings of ids.
LEMMA MeaningsStay ==
    ASSUME NEW s, NEW base, NEW t \in Nat, NEW k \in Nat, Kempt(s, base, t),
           NEW o, OperationValid(o),
           Permitted(s.work, s.known, base.prefs, o, t, k)
    PROVE  OneMeaning(s.known \cup Introduced(o))
<1> DEFINE w == s.work
           known == s.known
<1>1. /\ OneMeaning(known) /\ w.prefs \subseteq known
      /\ \A p \in w.prefs : p.id \in IdTuples
  BY DEF Kempt
<1>2. o.op \in OpNames
  BY DEF OperationValid, OpNames
<1>3. ASSUME \A p, q \in Introduced(o) : p.id = q.id => p = q,
             \A p \in Introduced(o), q \in known :
                p.id = q.id => LogicalKey(p) = LogicalKey(q)
      PROVE  OneMeaning(known \cup Introduced(o))
  BY <1>1, <1>3 DEF OneMeaning
<1>4. CASE o.op = "add"
  <2>1. Introduced(o) = {o.pref} /\ Resolvable(o.pref, w.prefs, known, t, k, 0)
    BY <1>4 DEF Introduced, Permitted
  <2>2. \A q \in known : o.pref.id = q.id => LogicalKey(o.pref) = LogicalKey(q)
    BY <1>1, <2>1 DEF Resolvable, OneMeaning
  <2> QED
    BY <1>3, <2>1, <2>2
<1>5. CASE o.op = "replace"
  <2>1. ReplacementValid(o) /\ Introduced(o) = RangeOf(o.prefs)
    BY <1>5 DEF OperationValid, Introduced
  <2>2. \A p, q \in Introduced(o) : p.id = q.id => p = q
    BY <2>1 DEF ReplacementValid, ValidIntent, UniqueIds
  <2>3. ASSUME NEW p \in Introduced(o), NEW q \in known, p.id = q.id
        PROVE  LogicalKey(p) = LogicalKey(q)
    <3>1. PICK n \in DOMAIN o.prefs : p = o.prefs[n]
      BY <2>1 DEF RangeOf
    <3>2. Resolvable(p, w.prefs, known \cup {o.prefs[j] : j \in 1..(n - 1)}, t, k, n - 1)
      BY <1>5, <3>1 DEF Permitted
    <3>3. PICK e \in known \cup {o.prefs[j] : j \in 1..(n - 1)} :
             e.id = p.id /\ LogicalKey(e) = LogicalKey(p)
      BY <2>3, <3>2 DEF Resolvable
    <3>4. CASE e \in known
      BY <1>1, <2>3, <3>3, <3>4 DEF OneMeaning
    <3>5. CASE e \in {o.prefs[j] : j \in 1..(n - 1)}
      <4>1. PICK j \in 1..(n - 1) : e = o.prefs[j]
        BY <3>5
      <4>2. /\ DOMAIN o.prefs = 1..Len(o.prefs) /\ Len(o.prefs) \in Nat
            /\ CanonicalIds([i \in DOMAIN o.prefs |-> o.prefs[i].id])
        <5>1. Listed(o.prefs)
          BY <2>1 DEF ReplacementValid, IsTuple, Listed
        <5> QED
          BY <2>1, <5>1, Sequences DEF ReplacementValid
      <4>3. j \in DOMAIN o.prefs /\ j < n
        BY <3>1, <4>1, <4>2
      <4>4. IdLess(e.id, p.id)
        BY <3>1, <4>1, <4>2, <4>3 DEF CanonicalIds
      <4>5. p.id \in IdTuples
        <5>1. p.id \in Ids(w.prefs) \/ p.id \in IdTuples
          BY IntroducedIds
        <5> QED
          BY <1>1, <5>1 DEF Ids
      <4> QED
        BY <3>3, <4>4, <4>5, IdsInOrder
    <3> QED
      BY <3>3, <3>4, <3>5
  <2> QED
    BY <1>3, <2>2, <2>3
<1>6. CASE o.op \notin {"add", "replace"}
  <2>1. Introduced(o) = {}
    BY <1>6 DEF Introduced
  <2> QED
    BY <1>1, <2>1
<1> QED
  BY <1>4, <1>5, <1>6

\* An operation introduces finitely many preferences.
LEMMA FewIntroduced ==
    ASSUME NEW o, OperationValid(o)
    PROVE  IsFiniteSet(Introduced(o))
<1>1. CASE o.op = "add"
  BY <1>1, FS_Singleton DEF Introduced
<1>2. CASE o.op = "replace"
  <2>1. Introduced(o) = RangeOf(o.prefs) /\ Listed(o.prefs)
    BY <1>2 DEF Introduced, OperationValid, ReplacementValid, IsTuple, Listed
  <2>2. Len(o.prefs) \in Nat /\ DOMAIN o.prefs = 1..Len(o.prefs)
    BY <2>1, Sequences
  <2>3. IsFiniteSet(DOMAIN o.prefs)
    BY <2>2, FS_Interval
  <2> DEFINE g == [n \in DOMAIN o.prefs |-> o.prefs[n]]
  <2>4. g \in Surjection(DOMAIN o.prefs, RangeOf(o.prefs))
    BY DEF Surjection, RangeOf
  <2> HIDE DEF g
  <2> QED
    BY <2>1, <2>3, <2>4, FS_Surjection
<1>3. CASE o.op \notin {"add", "replace"}
  BY <1>3, FS_EmptySet DEF Introduced
<1> QED
  BY <1>1, <1>2, <1>3

\* A step of a reduction without its flag.
Moves(s, base, o, t, k, r) ==
    /\ r.work = Applied(s.work, base.prefs, o)
    /\ r.known = s.known \cup Introduced(o)
    /\ Permitted(s.work, s.known, base.prefs, o, t, k)
    /\ ValidIntent(r.work.prefs, r.work.dontCare)

\* A step keeps the state within the rules.
LEMMA MoveKempt ==
    ASSUME NEW s, NEW base, NEW t \in Nat, NEW k \in Nat, Kempt(s, base, t),
           IsFiniteSet(base.prefs), \A p \in base.prefs : p.id \in IdTuples,
           NEW o, OperationValid(o), NEW r, Moves(s, base, o, t, k, r)
    PROVE  Kempt(r, base, t)
<1> DEFINE w == r.work
<1>1. o.op \in OpNames
  BY DEF OperationValid, OpNames
<1>2. Shaped(w) /\ w.prefs \subseteq s.work.prefs \cup base.prefs \cup Introduced(o)
  BY <1>1, AppliedWithin DEF Moves, Kempt, Reduced
<1>3. Reduced(w, base, t)
  <2>1. Step(s, base.prefs, o, t, k).ok /\ Step(s, base.prefs, o, t, k).work = w
    BY DEF Step, Moves
  <2> QED
    BY <2>1, StepGrows DEF Kempt, Reduced
<1>4. IsFiniteSet(w.prefs)
  <2>1. IsFiniteSet(s.work.prefs \cup base.prefs \cup Introduced(o))
    BY FewIntroduced, FS_Union DEF Kempt
  <2> QED
    BY <1>2, <2>1, FS_Subset
<1>5. \A p \in w.prefs : p.id \in IdTuples
  <2> SUFFICES ASSUME NEW p \in w.prefs PROVE p.id \in IdTuples
    OBVIOUS
  <2>1. p.id \in Ids(base.prefs) \/ p.id \in IdTuples
    BY <1>3 DEF Reduced, Grown
  <2> QED
    BY <2>1 DEF Ids
<1>6. OneMeaning(r.known)
  BY MeaningsStay DEF Moves
<1>7. base.prefs \subseteq r.known /\ w.prefs \subseteq r.known
  BY <1>2 DEF Moves, Kempt
<1> QED
  BY <1>3, <1>4, <1>5, <1>6, <1>7 DEF Kempt

\* g holds the states of a reduction of list on base that succeeds.
Run(g, base, list, t) ==
    /\ g[0] = Start(base)
    /\ \A k \in 0..Len(list) : Kempt(g[k], base, t)
    /\ \A k \in 0..(Len(list) - 1) : /\ Moves(g[k], base, list[k + 1], t, k, g[k + 1])
                                     /\ OperationValid(list[k + 1])

\* A reduction that succeeds has its states.
LEMMA RunExists ==
    ASSUME NEW base, NEW list, NEW t \in Nat, Listed(list),
           \A n \in DOMAIN list : OperationValid(list[n]),
           ValidIntent(base.prefs, base.dontCare), IsFiniteSet(base.prefs),
           \A p \in base.prefs : p.id \in IdTuples,
           Reduction(base, list, t).ok
    PROVE  \E g : Run(g, base, list, t) /\ Reduction(base, list, t) = g[Len(list)]
<1> DEFINE N == Len(list)
           g == CHOOSE h : Reduces(h, base, list, t, N)
<1>1. N \in Nat /\ DOMAIN list = 1..N
  BY Sequences
<1>2. Reduces(g, base, list, t, N) /\ Reduction(base, list, t) = g[N]
  BY <1>1, ReductionUnfolds
<1> HIDE DEF N, g
<1>3. g[0] = Start(base)
  BY <1>1, <1>2 DEF Reduces
<1>4. \A k \in 0..(N - 1) :
         /\ g[k + 1] = Continued(g[k], base.prefs, list[k + 1], t, k)
         /\ OperationValid(list[k + 1]) /\ k \in Nat
  <2> SUFFICES ASSUME NEW k \in 0..(N - 1)
               PROVE  /\ g[k + 1] = Continued(g[k], base.prefs, list[k + 1], t, k)
                      /\ OperationValid(list[k + 1]) /\ k \in Nat
    OBVIOUS
  <2>1. /\ k + 1 \in 0..N /\ k + 1 # 0 /\ (k + 1) - 1 = k /\ k + 1 \in 1..N
        /\ k \in Nat
    BY <1>1
  <2> QED
    BY <1>1, <1>2, <2>1 DEF Reduces
<1>5. \A k \in 0..N : g[k].ok
  <2> DEFINE Good == {n \in Nat : n <= N => g[N - n].ok}
  <2>1. 0 \in Good
    <3>1. N - 0 = N
      BY <1>1
    <3> QED
      BY <1>2, <3>1
  <2>2. ASSUME NEW n \in Nat, n \in Good PROVE n + 1 \in Good
    <3> SUFFICES ASSUME n + 1 <= N PROVE g[N - (n + 1)].ok
      OBVIOUS
    <3> DEFINE k == N - (n + 1)
    <3>1. k \in 0..(N - 1) /\ N - n = k + 1 /\ n <= N
      BY <1>1
    <3>2. g[N - n].ok
      BY <2>2, <3>1
    <3> HIDE DEF k
    <3>3. g[k + 1].ok /\ g[k + 1] = Continued(g[k], base.prefs, list[k + 1], t, k)
      BY <1>4, <3>1, <3>2
    <3>4. g[k].ok
      BY <3>3 DEF Continued
    <3> QED
      BY <3>4 DEF k
  <2>3. \A n \in Nat : n \in Good
    <3> HIDE DEF Good
    <3> QED
      BY <2>1, <2>2, SetInduction
  <2> SUFFICES ASSUME NEW k \in 0..N PROVE g[k].ok
    OBVIOUS
  <2>4. N - k \in Nat /\ N - k <= N /\ N - (N - k) = k
    BY <1>1
  <2> QED
    BY <2>3, <2>4
<1>6. \A k \in 0..(N - 1) : Moves(g[k], base, list[k + 1], t, k, g[k + 1])
  <2> SUFFICES ASSUME NEW k \in 0..(N - 1)
               PROVE  Moves(g[k], base, list[k + 1], t, k, g[k + 1])
    OBVIOUS
  <2> DEFINE o == list[k + 1]
  <2>1. k \in 0..N /\ k + 1 \in 0..N
    BY <1>1
  <2>2. g[k].ok /\ g[k + 1].ok /\ g[k + 1] = Continued(g[k], base.prefs, o, t, k)
    BY <1>4, <1>5, <2>1
  <2> HIDE DEF o
  <2>3. g[k + 1] = Step(g[k], base.prefs, o, t, k)
    BY <2>2 DEF Continued
  <2>4. Moves(g[k], base, o, t, k, g[k + 1])
    BY <2>2, <2>3 DEF Step, Moves
  <2> QED
    BY <2>4 DEF o
<1>7. \A k \in 0..N : Kempt(g[k], base, t)
  <2> DEFINE Good == {n \in Nat : n <= N => Kempt(g[n], base, t)}
  <2>1. 0 \in Good
    <3>1. g[0].work = [goal |-> base.goal, prefs |-> base.prefs,
                       dontCare |-> base.dontCare] /\ g[0].known = base.prefs
      BY <1>3 DEF Start, Content
    <3>2. OneMeaning(base.prefs)
      BY DEF OneMeaning, ValidIntent, UniqueIds
    <3>3. Reduced(g[0].work, base, t)
      BY <3>1 DEF Reduced, Shaped, Grown, Ids
    <3>4. Kempt(g[0], base, t)
      BY <3>1, <3>2, <3>3 DEF Kempt
    <3> QED
      BY <3>4
  <2>2. ASSUME NEW n \in Nat, n \in Good PROVE n + 1 \in Good
    <3> SUFFICES ASSUME n + 1 <= N PROVE Kempt(g[n + 1], base, t)
      OBVIOUS
    <3>1. n \in 0..(N - 1) /\ n <= N
      BY <1>1
    <3>2. Kempt(g[n], base, t)
      BY <2>2, <3>1
    <3>3. Moves(g[n], base, list[n + 1], t, n, g[n + 1]) /\ OperationValid(list[n + 1])
      BY <1>4, <1>6, <3>1
    <3> QED
      BY <3>2, <3>3, MoveKempt
  <2>3. \A n \in Nat : n \in Good
    <3> HIDE DEF Good
    <3> QED
      BY <2>1, <2>2, SetInduction
  <2> SUFFICES ASSUME NEW k \in 0..N PROVE Kempt(g[k], base, t)
    OBVIOUS
  <2>4. k \in Nat /\ k <= N
    BY <1>1
  <2> QED
    BY <2>3, <2>4
<1>8. Run(g, base, list, t)
  BY <1>3, <1>4, <1>6, <1>7 DEF Run, N
<1> QED
  BY <1>2, <1>8 DEF N

----------------------------------------------------------------------------
(* A facet's round brings the facet, and no other, to the target *)

\* The preferences P are the old ones and one for each of the new ones.
AimedAt(P, old, news) ==
    /\ old \subseteq P
    /\ \A c \in news : \E p \in P : LogicalKey(p) = c
    /\ \A p \in P : p \in old \/ LogicalKey(p) \in news

\* Allocation adds an id to a candidate.
LEMMA AllocatedKey ==
    ASSUME NEW c, c = LogicalKey(c), NEW t, NEW k, NEW j
    PROVE  /\ LogicalKey(Allocated(c, t, k, j)) = c
           /\ Allocated(c, t, k, j).facet = c.facet
<1>1. /\ Allocated(c, t, k, j).facet = c.facet
      /\ \A field \in LogicalFields : Allocated(c, t, k, j)[field] = c[field]
  BY DEF Allocated, LogicalFields
<1>2. LogicalKey(Allocated(c, t, k, j)) = LogicalKey(c)
  BY <1>1 DEF LogicalKey
<1> QED
  BY <1>1, <1>2, Zenon

\* A preference is about the facet of its meaning.
LEMMA KeyFacet == \A p : LogicalKey(p).facet = p.facet
  BY DEF LogicalKey, LogicalFields

\* What the operation of a facet replaces it with.
Replacement(old, new, t, k) ==
    SortedPrefs(old) \o
        [j \in DOMAIN new |-> Allocated(new[j], t, k, Cardinality(old) + j - 1)]

\* A replacement holds the old preferences and one for each candidate.
LEMMA ReplacementIs ==
    ASSUME NEW old, Ordered(old), NEW new, Listed(new), NEW t, NEW k,
           \A c \in RangeOf(new) : c = LogicalKey(c),
           NEW r, r = Replacement(old, new, t, k)
    PROVE  /\ old \subseteq RangeOf(r)
           /\ \A c \in RangeOf(new) : \E p \in RangeOf(r) : LogicalKey(p) = c
           /\ \A p \in RangeOf(r) : p \in old \/ LogicalKey(p) \in RangeOf(new)
<1> DEFINE made == [j \in DOMAIN new |-> Allocated(new[j], t, k, Cardinality(old) + j - 1)]
           sorted == SortedPrefs(old)
<1>1. Listed(sorted) /\ RangeOf(sorted) = old
  BY SortedPrefsList
<1>2. DOMAIN made = DOMAIN new /\ made = [j \in DOMAIN made |-> made[j]]
  OBVIOUS
<1>3. \A j \in DOMAIN new : LogicalKey(made[j]) = new[j]
  <2> SUFFICES ASSUME NEW j \in DOMAIN new PROVE LogicalKey(made[j]) = new[j]
    OBVIOUS
  <2>1. new[j] = LogicalKey(new[j])
    BY DEF RangeOf
  <2> DEFINE place == Cardinality(old) + j - 1
  <2>2. made[j] = Allocated(new[j], t, k, place)
    OBVIOUS
  <2> HIDE DEF place, made
  <2>3. LogicalKey(Allocated(new[j], t, k, place)) = new[j]
    BY <2>1, AllocatedKey
  <2> QED
    BY <2>2, <2>3
<1> HIDE DEF made, sorted
<1>4. Listed(made)
  BY <1>2, Mapped
<1>5. RangeOf(r) = old \cup RangeOf(made)
  BY <1>1, <1>4, Elements DEF Replacement, made, sorted
<1>6. /\ \A c \in RangeOf(new) : \E p \in RangeOf(made) : LogicalKey(p) = c
      /\ \A p \in RangeOf(made) : LogicalKey(p) \in RangeOf(new)
  BY <1>2, <1>3 DEF RangeOf
<1> QED
  BY <1>5, <1>6

\* A facet's round that starts and ends with these irrelevant facets.
Round(g, k, t, baseline, old, new, W, I) ==
    FacetOperation(g, k, t, baseline, old, new, g \in W, g \in I)

\* The operation of a round brings its facet, and no other, to the target.
LEMMA RoundMoves ==
    ASSUME NEW g, NEW k, NEW t, NEW baseline, NEW old, NEW new,
           NEW W, NEW I,
           Ordered(old), Listed(new), \A p \in old : p.facet = g,
           \A c \in RangeOf(new) : c = LogicalKey(c) /\ c.facet = g,
           g \in I => old = {} /\ RangeOf(new) = {},
           NEW op,
           Round(g, k, t, baseline, old, new, W, I) = <<op>>,
           NEW w, Shaped(w), NEW pre, NEW z, z = Applied(w, pre, op)
    PROVE  /\ z.goal = w.goal
           /\ AimedAt(On(z.prefs, g), old, RangeOf(new))
           /\ g \in z.dontCare <=> g \in I
           /\ \A h : h # g => /\ On(z.prefs, h) = On(w.prefs, h)
                              /\ h \in z.dontCare <=> h \in w.dontCare
<1> DEFINE r == Replacement(old, new, t, k)
           is == g \in I
<1>1. \/ is /\ <<op>> = <<DontCare(g)>>
      \/ ~is /\ <<op>> = <<Replace(g, r)>>
      \/ ~is /\ old = {} /\ new = <<>> /\ <<op>> = <<Clear(g)>>
  <2>1. \A x : <<op>> # <<>>
    OBVIOUS
  <2> HIDE DEF r
  <2> QED
    BY <2>1 DEF Round, FacetOperation, Replacement, r
<1>2. \/ is /\ op = DontCare(g)
      \/ ~is /\ op = Replace(g, r)
      \/ ~is /\ old = {} /\ new = <<>> /\ op = Clear(g)
  <2> HIDE DEF r
  <2> QED
    BY <1>1
<1>3. /\ old \subseteq RangeOf(r)
      /\ \A c \in RangeOf(new) : \E p \in RangeOf(r) : LogicalKey(p) = c
      /\ \A p \in RangeOf(r) : p \in old \/ LogicalKey(p) \in RangeOf(new)
  <2>1. \A c \in RangeOf(new) : c = LogicalKey(c)
    OBVIOUS
  <2> QED
    BY <2>1, ReplacementIs, Zenon
<1> HIDE DEF r
<1>4. On(OffFacet(w.prefs, g), g) = {}
  BY DEF On, OffFacet
<1>5. \A h : h # g => On(OffFacet(w.prefs, g), h) = On(w.prefs, h)
  BY DEF On, OffFacet
<1>6. ClearFacet(w, g) = [goal |-> w.goal, prefs |-> OffFacet(w.prefs, g),
                          dontCare |-> w.dontCare \ {g}]
  BY PartsReplaced DEF ClearFacet
<1>7. CASE is /\ op = DontCare(g)
  <2>1. z = SetDontCare(w, g)
    BY <1>7 DEF DontCare, Applied
  <2>2. z = [goal |-> w.goal, prefs |-> OffFacet(w.prefs, g),
             dontCare |-> (w.dontCare \ {g}) \cup {g}]
    <3>1. \A G, P, D, v : v = [goal |-> G, prefs |-> P, dontCare |-> D]
              => [v EXCEPT !.dontCare = @ \cup {g}]
                 = [goal |-> G, prefs |-> P, dontCare |-> D \cup {g}]
      OBVIOUS
    <3> QED
      BY <1>6, <2>1, <3>1 DEF SetDontCare
  <2>3. /\ z.goal = w.goal /\ z.prefs = OffFacet(w.prefs, g)
        /\ z.dontCare = (w.dontCare \ {g}) \cup {g}
    BY <2>2
  <2>4. AimedAt(On(z.prefs, g), old, RangeOf(new))
    BY <1>4, <1>7, <2>3 DEF AimedAt
  <2> QED
    BY <1>5, <1>7, <2>3, <2>4
<1>8. CASE ~is /\ old = {} /\ new = <<>> /\ op = Clear(g)
  <2>1. z = ClearFacet(w, g)
    BY <1>8 DEF Clear, Applied
  <2>2. /\ z.goal = w.goal /\ z.prefs = OffFacet(w.prefs, g)
        /\ z.dontCare = w.dontCare \ {g}
    BY <1>6, <2>1
  <2>3. AimedAt(On(z.prefs, g), old, RangeOf(new))
    <3>1. RangeOf(new) = {}
      BY <1>8, Elements
    <3> QED
      BY <1>4, <1>8, <2>2, <3>1 DEF AimedAt
  <2> QED
    BY <1>5, <1>8, <2>2, <2>3
<1>9. CASE ~is /\ op = Replace(g, r)
  <2>1. z = ReplaceFacet(w, g, r)
    BY <1>9 DEF Replace, Applied
  <2>2. z = [goal |-> w.goal, prefs |-> OffFacet(w.prefs, g) \cup RangeOf(r),
             dontCare |-> w.dontCare \ {g}]
    BY <2>1, PartsReplaced DEF ReplaceFacet
  <2>3. /\ z.goal = w.goal /\ z.prefs = OffFacet(w.prefs, g) \cup RangeOf(r)
        /\ z.dontCare = w.dontCare \ {g}
    BY <2>2
  <2>4. \A p \in RangeOf(r) : p.facet = g
    <3> SUFFICES ASSUME NEW p \in RangeOf(r), p \notin old PROVE p.facet = g
      OBVIOUS
    <3>1. LogicalKey(p) \in RangeOf(new)
      BY <1>3
    <3>2. LogicalKey(p).facet = g
      BY <3>1
    <3> QED
      BY <3>2, KeyFacet
  <2>5. On(z.prefs, g) = RangeOf(r)
    BY <2>3, <2>4 DEF On, OffFacet
  <2>6. \A h : h # g => On(z.prefs, h) = On(w.prefs, h)
    BY <2>3, <2>4 DEF On, OffFacet
  <2>7. AimedAt(On(z.prefs, g), old, RangeOf(new))
    BY <1>3, <2>5 DEF AimedAt
  <2> QED
    BY <1>9, <2>3, <2>6, <2>7
<1> QED
  BY <1>2, <1>7, <1>8, <1>9

\* No operation: the facet is as it should be.
LEMMA RoundRests ==
    ASSUME NEW g, NEW k, NEW t, NEW baseline, NEW old, NEW new,
           NEW W, NEW I,
           Listed(new), g \in I => old = {} /\ RangeOf(new) = {},
           Round(g, k, t, baseline, old, new, W, I) = <<>>
    PROVE  /\ g \in I <=> g \in W
           /\ new = <<>> /\ old = baseline
           /\ AimedAt(baseline, old, RangeOf(new))
<1>1. \A x : <<x>> # <<>>
  OBVIOUS
<1>2. /\ g \in I => g \in W /\ baseline = {}
      /\ g \notin I => g \notin W /\ new = <<>> /\ old = baseline
  BY <1>1 DEF Round, FacetOperation, SaysOtherwise
<1>3. new = <<>> <=> RangeOf(new) = {}
  BY Elements
<1> QED
  BY <1>2, <1>3 DEF AimedAt

----------------------------------------------------------------------------
(* The rounds of a plan along the states of its reduction *)

\* The first operations of ops are those of s.
Prefix(s, ops) == Len(s) <= Len(ops) /\ \A j \in 1..Len(s) : s[j] = ops[j]

\* The first part of a prefix is a prefix, and the second comes next.
LEMMA PrefixParts ==
    ASSUME NEW s, NEW r, NEW ops, Listed(s), Listed(r), Listed(ops),
           Prefix(s \o r, ops)
    PROVE  /\ Prefix(s, ops) /\ Len(s \o r) = Len(s) + Len(r)
           /\ \A j \in 1..Len(r) : r[j] = ops[Len(s) + j] /\ Len(s) + j <= Len(ops)
<1> DEFINE u == s \o r
<1>1. Prefix(u, ops)
  OBVIOUS
<1>2. PICK S : s \in Seq(S)
  BY DEF Listed
<1>3. PICK T : r \in Seq(T)
  BY DEF Listed
<1>4. s \in Seq(S \cup T) /\ r \in Seq(S \cup T)
  BY <1>2, <1>3
<1>5. /\ Len(u) = Len(s) + Len(r)
      /\ \A i \in 1..(Len(s) + Len(r)) : u[i] = IF i <= Len(s) THEN s[i] ELSE r[i - Len(s)]
  BY <1>4, ConcatProperties
<1> HIDE DEF u
<1>6. Len(s) \in Nat /\ Len(r) \in Nat /\ Len(ops) \in Nat
  BY Sequences
<1>7. Prefix(s, ops)
  BY <1>1, <1>5, <1>6 DEF Prefix
<1>8. ASSUME NEW j \in 1..Len(r)
      PROVE  r[j] = ops[Len(s) + j] /\ Len(s) + j <= Len(ops)
  <2>1. /\ Len(s) + j \in 1..(Len(s) + Len(r)) /\ ~(Len(s) + j <= Len(s))
        /\ (Len(s) + j) - Len(s) = j
    BY <1>6
  <2>2. u[Len(s) + j] = r[j]
    BY <1>5, <2>1
  <2> QED
    BY <1>1, <1>5, <1>6, <2>1, <2>2 DEF Prefix
<1> QED
  BY <1>5, <1>7, <1>8 DEF u

\* Facet h is as the target wants it, or as the operations found it.
AimedOn(w, f, target, h) ==
    /\ AimedAt(On(w.prefs, h), On(target.old, h), On(RangeOf(target.new), h))
    /\ h \in w.dontCare <=> h \in DesiredDontCare(f, target)
UntouchedOn(w, i, f, target, h) ==
    /\ On(w.prefs, h) = On(BaselinePrefs(i, f, target.old), h)
    /\ h \in w.dontCare <=> h \in BaselineDontCare(i, f)

\* Where the reduction is after n rounds.
Reached(w, n, i, f, target) ==
    /\ w.goal = NewGoal(i, f)
    /\ \A h \in Facets :
          \/ AimedOn(w, f, target, h)
          \/ /\ UntouchedOn(w, i, f, target, h)
             /\ \A j \in 1..n : FacetOrder[j] # h
    /\ \A h : h \notin Facets =>
          On(w.prefs, h) = On(BaselinePrefs(i, f, target.old), h)

\* An intent as the session keeps it.
Proper(i) ==
    /\ IntentAllowed(i)
    /\ IsFiniteSet(i.prefs)
    /\ \A p \in i.prefs : p.id \in IdTuples /\ p.facet \in AnyFacet

\* Some preferences of an intent are told apart by their ids.
LEMMA ProperParts ==
    ASSUME NEW i, Proper(i), NEW S, S \subseteq i.prefs
    PROVE  /\ Ordered(S)
           /\ IsFiniteSet(Ids(S)) /\ Ids(S) \subseteq IdTuples
           /\ \A p \in i.prefs : p.id \in Ids(S) => p \in S
<1>1. \A p, q \in i.prefs : p.id = q.id => p = q
  BY DEF Proper, IntentAllowed, ValidIntent, UniqueIds
<1>2. IsFiniteSet(S)
  BY FS_Subset DEF Proper
<1>3. Ordered(S)
  BY <1>1, <1>2 DEF Ordered, Proper
<1>4. Ids(S) \subseteq IdTuples
  BY DEF Ids, Proper
<1> DEFINE g == [p \in S |-> p.id]
<1>5. g \in Surjection(S, Ids(S))
  BY DEF Surjection, Ids
<1> HIDE DEF g
<1>6. IsFiniteSet(Ids(S))
  BY <1>2, <1>5, FS_Surjection
<1>7. \A p \in i.prefs : p.id \in Ids(S) => p \in S
  BY <1>1 DEF Ids
<1> QED
  BY <1>3, <1>4, <1>6, <1>7

\* What a facet's round is about.
LEMMA RoundParts ==
    ASSUME NEW i, Proper(i), NEW f, NEW target, Targeted(i, f, target),
           NEW h \in Facets, NEW new,
           new = Only(target.new, On(RangeOf(target.new), h))
    PROVE  /\ Ordered(On(target.old, h)) /\ \A p \in On(target.old, h) : p.facet = h
           /\ Listed(new) /\ RangeOf(new) = On(RangeOf(target.new), h)
           /\ \A c \in RangeOf(new) : c = LogicalKey(c) /\ c.facet = h
           /\ h \in DesiredDontCare(f, target)
                 => On(target.old, h) = {} /\ RangeOf(new) = {}
<1>1. Ordered(On(target.old, h))
  <2>1. On(target.old, h) \subseteq i.prefs
    BY DEF On, Targeted
  <2> QED
    BY <2>1, ProperParts
<1>2. Listed(new) /\ RangeOf(new) = RangeOf(target.new) \cap On(RangeOf(target.new), h)
  BY OnlyPicks DEF Listed, Targeted
<1>3. RangeOf(new) = On(RangeOf(target.new), h)
  BY <1>2 DEF On
<1>4. \A c \in RangeOf(new) : c = LogicalKey(c) /\ c.facet = h
  BY <1>3 DEF On, Targeted
<1>5. h \in DesiredDontCare(f, target) => On(target.old, h) = {} /\ RangeOf(new) = {}
  <2> SUFFICES ASSUME h \in DesiredDontCare(f, target),
                      NEW p \in target.old \cup RangeOf(target.new), p.facet = h
               PROVE  FALSE
    BY <1>3 DEF On
  <2>1. h # SemanticOnly
    BY FacetsAssumption
  <2>2. h \in ActiveFacets(target.old \cup RangeOf(target.new))
    BY <2>1 DEF ActiveFacets
  <2> QED
    BY <2>2 DEF DesiredDontCare
<1> QED
  BY <1>1, <1>2, <1>3, <1>4, <1>5 DEF On

\* The round of facet h at place k.
RoundOf(i, f, target, t, h, k) ==
    FacetOperation(h, k, t, On(BaselinePrefs(i, f, target.old), h),
                   On(target.old, h), Only(target.new, On(RangeOf(target.new), h)),
                   h \in BaselineDontCare(i, f), h \in DesiredDontCare(f, target))

\* A round brings its facet to the target.
LEMMA RoundReached ==
    ASSUME NEW i, Proper(i), NEW f, NEW target, Targeted(i, f, target), NEW t, NEW k,
           NEW n \in Nat, NEW h \in Facets, h = FacetOrder[n + 1],
           NEW w, Shaped(w), Reached(w, n, i, f, target),
           NEW r, r = RoundOf(i, f, target, t, h, k)
    PROVE  /\ r = <<>> => Reached(w, n + 1, i, f, target)
           /\ \A op : r = <<op>> =>
                 Reached(Applied(w, i.prefs, op), n + 1, i, f, target)
<1> DEFINE baseline == On(BaselinePrefs(i, f, target.old), h)
           old == On(target.old, h)
           new == Only(target.new, On(RangeOf(target.new), h))
           news == On(RangeOf(target.new), h)
           W == BaselineDontCare(i, f)
           I == DesiredDontCare(f, target)
<1>1. /\ Ordered(old) /\ \A p \in old : p.facet = h
      /\ Listed(new) /\ RangeOf(new) = news
      /\ \A c \in RangeOf(new) : c = LogicalKey(c) /\ c.facet = h
      /\ h \in I => old = {} /\ RangeOf(new) = {}
  BY RoundParts
<1>2. r = Round(h, k, t, baseline, old, new, W, I)
  BY DEF Round, RoundOf
<1>3. \A z : /\ AimedOn(z, f, target, h)
                <=> AimedAt(On(z.prefs, h), old, news) /\ (h \in z.dontCare <=> h \in I)
             /\ UntouchedOn(z, i, f, target, h)
                <=> On(z.prefs, h) = baseline /\ (h \in z.dontCare <=> h \in W)
  BY DEF AimedOn, UntouchedOn
<1>4. \A j \in 1..(n + 1) : j \in 1..n \/ FacetOrder[j] = h
  OBVIOUS
<1> HIDE DEF baseline, old, new, news, W, I
<1>5. ASSUME r = <<>> PROVE Reached(w, n + 1, i, f, target)
  <2>0. Round(h, k, t, baseline, old, new, W, I) = <<>>
    BY <1>2, <1>5
  <2>1. /\ h \in I <=> h \in W
        /\ new = <<>> /\ old = baseline
        /\ AimedAt(baseline, old, RangeOf(new))
    BY <1>1, <2>0, RoundRests
  <2>2. AimedOn(w, f, target, h)
    BY <1>1, <1>3, <2>1 DEF Reached
  <2> QED
    BY <1>4, <2>2 DEF Reached
<1>6. ASSUME NEW op, r = <<op>>, NEW z, z = Applied(w, i.prefs, op)
      PROVE  Reached(z, n + 1, i, f, target)
  <2>1. /\ z.goal = w.goal
        /\ AimedAt(On(z.prefs, h), old, RangeOf(new))
        /\ h \in z.dontCare <=> h \in I
        /\ \A e : e # h => /\ On(z.prefs, e) = On(w.prefs, e)
                           /\ e \in z.dontCare <=> e \in w.dontCare
    <3>1. Round(h, k, t, baseline, old, new, W, I) = <<op>>
      BY <1>2, <1>6
    <3>2. Ordered(old) /\ Listed(new) /\ \A p \in old : p.facet = h
      BY <1>1
    <3>3. \A c \in RangeOf(new) : c = LogicalKey(c) /\ c.facet = h
      BY <1>1
    <3>4. h \in I => old = {} /\ RangeOf(new) = {}
      BY <1>1
    <3>5. z = Applied(w, i.prefs, op)
      BY <1>6
    <3> QED
      BY <3>1, <3>2, <3>3, <3>4, <3>5, RoundMoves
  <2>2. AimedOn(z, f, target, h)
    BY <1>1, <1>3, <2>1
  <2>3. \A e : e # h =>
           /\ AimedOn(z, f, target, e) <=> AimedOn(w, f, target, e)
           /\ UntouchedOn(z, i, f, target, e) <=> UntouchedOn(w, i, f, target, e)
    BY <2>1 DEF AimedOn, UntouchedOn
  <2>4. \A e \in Facets :
           \/ AimedOn(z, f, target, e)
           \/ /\ UntouchedOn(z, i, f, target, e)
              /\ \A j \in 1..(n + 1) : FacetOrder[j] # e
    <3> SUFFICES ASSUME NEW e \in Facets, e # h, ~AimedOn(z, f, target, e)
                 PROVE  /\ UntouchedOn(z, i, f, target, e)
                        /\ \A j \in 1..(n + 1) : FacetOrder[j] # e
      BY <2>2, Zenon
    <3>1. /\ AimedOn(z, f, target, e) <=> AimedOn(w, f, target, e)
          /\ UntouchedOn(z, i, f, target, e) <=> UntouchedOn(w, i, f, target, e)
      BY <2>3
    <3>2. UntouchedOn(w, i, f, target, e) /\ \A j \in 1..n : FacetOrder[j] # e
      BY <3>1, Zenon DEF Reached
    <3>3. \A j \in 1..(n + 1) : FacetOrder[j] # e
      BY <1>4, <3>2
    <3> QED
      BY <3>1, <3>2, <3>3, Zenon
  <2>5. \A e : e \notin Facets =>
           On(z.prefs, e) = On(BaselinePrefs(i, f, target.old), e)
    BY <2>1 DEF Reached
  <2> QED
    BY <2>1, <2>4, <2>5 DEF Reached
<1> QED
  BY <1>5, <1>6

\* A round makes one operation at most.
LEMMA RoundIsOne ==
    ASSUME NEW i, NEW f, NEW target, NEW t, NEW h, NEW k,
           NEW r, r = RoundOf(i, f, target, t, h, k)
    PROVE  Listed(r) /\ (r = <<>> \/ \E op : r = <<op>>)
<1>1. Listed(r)
  BY FacetRound DEF RoundOf, Listed
<1>2. r = <<>> \/ \E op : r = <<op>>
  BY DEF RoundOf, FacetOperation
<1> QED
  BY <1>1, <1>2

\* The goal switch leaves the preferences that are carried.
LEMMA SwitchReached ==
    ASSUME NEW i, Proper(i), NEW f, NEW target, Targeted(i, f, target), NEW t,
           NEW ops, Listed(ops), NEW g, Run(g, i, ops, t),
           NEW s, s = SwitchOperation(i, f, target.old), Prefix(s, ops)
    PROVE  Listed(s) /\ Reached(g[Len(s)].work, 0, i, f, target)
<1> DEFINE O == target.old
<1>1. /\ O \subseteq i.prefs
      /\ IsFiniteSet(Ids(O)) /\ Ids(O) \subseteq IdTuples
      /\ \A p \in i.prefs : p.id \in Ids(O) => p \in O
  <2>1. O \subseteq i.prefs
    BY DEF Targeted
  <2> HIDE DEF O
  <2> QED
    BY <2>1, ProperParts
<1>2. Len(ops) \in Nat
  BY Sequences
<1>3. g[0] = [work |-> Content(i), known |-> i.prefs, ok |-> TRUE]
  BY DEF Run, Start
<1>4. ASSUME NEW w, w.goal = NewGoal(i, f), w.prefs = BaselinePrefs(i, f, O),
             w.dontCare = BaselineDontCare(i, f)
      PROVE  Reached(w, 0, i, f, target)
  BY <1>4 DEF Reached, UntouchedOn
<1>5. CASE ~GoalChanged(i, f)
  <2>1. s = <<>> /\ Len(s) = 0
    BY <1>5 DEF SwitchOperation
  <2>2. /\ g[0].work.goal = NewGoal(i, f) /\ g[0].work.prefs = BaselinePrefs(i, f, O)
        /\ g[0].work.dontCare = BaselineDontCare(i, f)
    BY <1>3, <1>5 DEF Content, GoalChanged, BaselinePrefs, BaselineDontCare
  <2> QED
    BY <1>4, <2>1, <2>2, Sequences
<1>6. CASE GoalChanged(i, f)
  <2> DEFINE carry == SortedIds(Ids(O))
             op == Switch(NewGoal(i, f), carry)
  <2>1. s = <<op>> /\ Len(s) = 1 /\ s[1] = op
    BY <1>6 DEF SwitchOperation
  <2>2. RangeOf(carry) = Ids(O)
    <3> HIDE DEF O
    <3> QED
      BY <1>1, SortedIdsList
  <2>3. op.op = "switch" /\ op.goal = NewGoal(i, f) /\ op.carry = carry
    BY DEF Switch
  <2> HIDE DEF op, carry
  <2>4. Len(ops) >= 1 /\ ops[1] = op
    BY <2>1 DEF Prefix
  <2>5. Moves(g[0], i, ops[0 + 1], t, 0, g[0 + 1])
    BY <1>2, <2>4 DEF Run
  <2>6. g[1].work = SwitchGoal(i.prefs, op.goal, op.carry)
    BY <2>3, <2>4, <2>5 DEF Moves, Applied
  <2>7. {p \in i.prefs : p.id \in RangeOf(carry)} = O
    BY <1>1, <2>2 DEF Ids
  <2>8. /\ g[1].work.goal = NewGoal(i, f) /\ g[1].work.prefs = O
        /\ g[1].work.dontCare = {}
    BY <2>3, <2>6, <2>7 DEF SwitchGoal
  <2>9. Reached(g[1].work, 0, i, f, target)
    BY <1>4, <1>6, <2>8 DEF BaselinePrefs, BaselineDontCare
  <2> QED
    BY <2>1, <2>9, Sequences
<1> QED
  BY <1>5, <1>6

\* After n rounds the first n facets are at the target.
LEMMA RoundsReached ==
    ASSUME NEW i, Proper(i), NEW f, NEW target, Targeted(i, f, target), NEW t,
           NEW ops, Listed(ops), NEW g, Run(g, i, ops, t),
           NEW upto, Rounds(upto, i, f, t, target, BaselinePrefs(i, f, target.old)),
           \A n \in 0..Len(FacetOrder) : Listed(upto[n]),
           NEW m \in 0..Len(FacetOrder), Prefix(upto[m], ops)
    PROVE  Reached(g[Len(upto[m])].work, m, i, f, target)
<1> DEFINE N == Len(FacetOrder)
           Good == {n \in Nat : n <= N /\ Prefix(upto[n], ops)
                                  => Reached(g[Len(upto[n])].work, n, i, f, target)}
<1>1. N \in Nat /\ DOMAIN FacetOrder = 1..N
  BY FacetOrderLength, PlannerAssumption
<1>2. /\ upto[0] = SwitchOperation(i, f, target.old)
      /\ \A n \in 1..N :
            upto[n] = upto[n - 1] \o RoundOf(i, f, target, t, FacetOrder[n], Len(upto[n - 1]))
  <2>1. upto = [n \in 0..N |->
                   IF n = 0 THEN SwitchOperation(i, f, target.old)
                   ELSE upto[n - 1] \o RoundOf(i, f, target, t, FacetOrder[n], Len(upto[n - 1]))]
    BY Zenon DEF Rounds, RoundOf
  <2> HIDE DEF N
  <2>2. 0 \in 0..N /\ \A n \in 1..N : n \in 0..N /\ n # 0
    BY <1>1
  <2> QED
    BY <2>1, <2>2
<1>3. Len(ops) \in Nat
  BY Sequences
<1>4. \A n \in 0..N : Listed(upto[n])
  OBVIOUS
<1> HIDE DEF N
<1>5. 0 \in Good
  BY <1>2, SwitchReached
<1>6. ASSUME NEW n \in Nat, n \in Good PROVE n + 1 \in Good
  <2> SUFFICES ASSUME n + 1 <= N, Prefix(upto[n + 1], ops)
               PROVE  Reached(g[Len(upto[n + 1])].work, n + 1, i, f, target)
    OBVIOUS
  <2> DEFINE h == FacetOrder[n + 1]
             s == upto[n]
             u == upto[n + 1]
             L == Len(s)
             r == RoundOf(i, f, target, t, h, L)
  <2>1. n + 1 \in 1..N /\ n \in 0..N /\ (n + 1) - 1 = n /\ n <= N
    BY <1>1
  <2>2. u = s \o r /\ Listed(s)
    BY <1>2, <1>4, <2>1
  <2>3. h \in Facets
    BY <1>1, <2>1, PlannerAssumption DEF RangeOf
  <2>4. Listed(r) /\ (r = <<>> \/ \E op : r = <<op>>)
    BY RoundIsOne
  <2>5. Prefix(u, ops)
    OBVIOUS
  <2>6. h = FacetOrder[n + 1] /\ r = RoundOf(i, f, target, t, h, L)
    OBVIOUS
  <2>7. L \in Nat /\ L = Len(s)
    BY <2>2, Sequences
  <2> HIDE DEF h, s, u, r, L
  <2>8. /\ Prefix(s, ops) /\ Len(u) = L + Len(r)
        /\ \A j \in 1..Len(r) : r[j] = ops[L + j] /\ L + j <= Len(ops)
    <3>0. Prefix(s \o r, ops)
      BY <2>2, <2>5, Zenon
    <3>1. /\ Prefix(s, ops) /\ Len(s \o r) = Len(s) + Len(r)
          /\ \A j \in 1..Len(r) : r[j] = ops[Len(s) + j] /\ Len(s) + j <= Len(ops)
      BY <2>2, <2>4, <3>0, PrefixParts
    <3> QED
      BY <2>2, <2>7, <3>1
  <2>9. Reached(g[L].work, n, i, f, target)
    BY <1>6, <2>1, <2>7, <2>8 DEF s
  <2>10. Shaped(g[L].work)
    <3>1. L \in 0..Len(ops)
      BY <1>3, <2>7, <2>8 DEF Prefix
    <3> QED
      BY <3>1 DEF Run, Kempt, Reduced
  <2>11. /\ r = <<>> => Reached(g[L].work, n + 1, i, f, target)
         /\ \A op : r = <<op>> =>
               Reached(Applied(g[L].work, i.prefs, op), n + 1, i, f, target)
    BY <2>3, <2>6, <2>9, <2>10, RoundReached
  <2>12. CASE r = <<>>
    <3>1. Len(u) = L
      BY <2>7, <2>8, <2>12
    <3> QED
      BY <2>11, <2>12, <3>1 DEF u
  <2>13. CASE \E op : r = <<op>>
    <3>1. PICK op : r = <<op>>
      BY <2>13
    <3>2. Len(r) = 1 /\ r[1] = op
      BY <3>1
    <3>3. Len(u) = L + 1 /\ op = ops[L + 1] /\ L + 1 <= Len(ops)
      BY <2>8, <3>2
    <3>4. L \in 0..(Len(ops) - 1)
      BY <1>3, <2>7, <3>3
    <3>5. Moves(g[L], i, ops[L + 1], t, L, g[L + 1])
      BY <3>4 DEF Run
    <3>6. g[L + 1].work = Applied(g[L].work, i.prefs, op)
      BY <3>3, <3>5 DEF Moves
    <3>7. Reached(g[L + 1].work, n + 1, i, f, target)
      BY <2>11, <3>1, <3>6
    <3> QED
      BY <3>3, <3>7 DEF u
  <2> QED
    BY <2>4, <2>12, <2>13
<1>7. m \in Nat /\ m <= N
  BY <1>1 DEF N
<1>8. m \in Good
  <2> HIDE DEF Good
  <2> QED
    BY <1>5, <1>6, <1>7, SetInduction
<1> QED
  BY <1>7, <1>8

\* After the last round every facet is as the target wants it.
LEMMA FacetsReached ==
    ASSUME NEW w, NEW i, NEW f, NEW target,
           Reached(w, Len(FacetOrder), i, f, target), NEW h \in Facets
    PROVE  AimedOn(w, f, target, h)
<1>1. PICK j \in DOMAIN FacetOrder : h = FacetOrder[j]
  BY PlannerAssumption DEF RangeOf
<1>2. DOMAIN FacetOrder = 1..Len(FacetOrder)
  BY PlannerAssumption
<1> QED
  BY <1>1, <1>2 DEF Reached

----------------------------------------------------------------------------
(* The wishes after the facets *)

\* Every facet is as the target wants it and, of the new wishes, these are
\* expressed.
Wished(w, said, i, f, target) ==
    /\ w.goal = NewGoal(i, f)
    /\ \A h \in Facets : AimedOn(w, f, target, h)
    /\ AimedAt(On(w.prefs, SemanticOnly), On(target.old, SemanticOnly), said)
    /\ \A h : h \notin AnyFacet => On(w.prefs, h) = {}

\* The removal leaves the wishes that stay.
LEMMA RemovalReached ==
    ASSUME NEW i, Proper(i), NEW f, NEW target, Targeted(i, f, target), NEW t,
           NEW s, Kempt(s, i, t), Reached(s.work, Len(FacetOrder), i, f, target),
           NEW removed,
           removed = On(BaselinePrefs(i, f, target.old) \ target.old, SemanticOnly)
    PROVE  /\ removed = {} => Wished(s.work, {}, i, f, target)
           /\ Wished(Applied(s.work, i.prefs, Remove(SortedIds(Ids(removed)))),
                     {}, i, f, target)
<1> DEFINE w == s.work
           B == BaselinePrefs(i, f, target.old)
           O == target.old
           P == {p \in w.prefs : p.id \notin Ids(removed)}
           z == Applied(w, i.prefs, Remove(SortedIds(Ids(removed))))
<1>1. O \subseteq B /\ B \subseteq i.prefs
  BY DEF BaselinePrefs, Targeted
<1>2. removed = On(B \ O, SemanticOnly) /\ removed \subseteq i.prefs
  BY <1>1 DEF On
<1>3. /\ IsFiniteSet(Ids(removed)) /\ Ids(removed) \subseteq IdTuples
      /\ \A p \in i.prefs : p.id \in Ids(removed) => p \in removed
  BY <1>2, ProperParts
<1>4. SemanticOnly \notin Facets
  BY FacetsAssumption
<1>5. On(w.prefs, SemanticOnly) = On(B, SemanticOnly)
  BY <1>4 DEF Reached
<1>6. \A h : h \notin AnyFacet => On(w.prefs, h) = {}
  <2> SUFFICES ASSUME NEW h, h \notin AnyFacet PROVE On(w.prefs, h) = {}
    OBVIOUS
  <2>1. On(w.prefs, h) = On(B, h)
    BY DEF Reached, AnyFacet
  <2>2. \A p \in B : p.facet \in AnyFacet
    BY <1>1 DEF Proper
  <2> QED
    BY <2>1, <2>2 DEF On
<1>7. \A h \in Facets : AimedOn(w, f, target, h)
  BY FacetsReached
<1>8. w.goal = NewGoal(i, f)
  BY DEF Reached
<1>9. Shaped(w) /\ w.prefs \subseteq s.known /\ i.prefs \subseteq s.known /\ OneMeaning(s.known)
  BY DEF Kempt, Reduced
<1> HIDE DEF w, B, O
<1>10. On(P, SemanticOnly) = On(O, SemanticOnly)
  BY <1>1, <1>2, <1>3, <1>5 DEF On, Ids
<1>11. \A h : h # SemanticOnly => On(P, h) = On(w.prefs, h)
  <2> SUFFICES ASSUME NEW h, h # SemanticOnly, NEW p \in On(w.prefs, h)
               PROVE  p.id \notin Ids(removed)
    BY DEF On
  <2> SUFFICES ASSUME p.id \in Ids(removed) PROVE FALSE
    OBVIOUS
  <2>1. PICK q \in removed : q.id = p.id
    BY DEF Ids
  <2>2. p \in s.known /\ q \in s.known
    BY <1>2, <1>9, <2>1 DEF On
  <2>3. LogicalKey(p) = LogicalKey(q)
    BY <1>9, <2>1, <2>2 DEF OneMeaning
  <2>4. p.facet = q.facet
    BY <2>3, KeyFacet
  <2> QED
    BY <1>2, <2>4 DEF On
<1>12. \A Q, v : /\ Q = P /\ v.prefs = Q /\ v.goal = w.goal /\ v.dontCare = w.dontCare
                 => Wished(v, {}, i, f, target)
  <2> SUFFICES ASSUME NEW v, v.prefs = P, v.goal = w.goal, v.dontCare = w.dontCare
               PROVE  Wished(v, {}, i, f, target)
    OBVIOUS
  <2>1. AimedAt(On(v.prefs, SemanticOnly), On(O, SemanticOnly), {})
    BY <1>10 DEF AimedAt
  <2>2. \A h : h \notin AnyFacet => On(v.prefs, h) = {}
    BY <1>6, <1>11 DEF AnyFacet
  <2>3. \A h \in Facets : AimedOn(v, f, target, h)
    <3> SUFFICES ASSUME NEW h \in Facets PROVE AimedOn(v, f, target, h)
      OBVIOUS
    <3>1. On(v.prefs, h) = On(w.prefs, h)
      BY <1>4, <1>11
    <3>2. AimedOn(w, f, target, h)
      BY <1>7
    <3> QED
      BY <3>1, <3>2 DEF AimedOn
  <2> QED
    BY <1>8, <2>1, <2>2, <2>3 DEF Wished, O
<1>13. ASSUME removed = {} PROVE Wished(w, {}, i, f, target)
  <2>1. w.prefs = P
    BY <1>13 DEF Ids
  <2> QED
    BY <1>12, <2>1
<1>14. Wished(z, {}, i, f, target)
  <2> DEFINE ids == SortedIds(Ids(removed))
  <2>1. RangeOf(ids) = Ids(removed)
    BY <1>3, SortedIdsList
  <2> HIDE DEF ids
  <2>2. Remove(ids).op = "remove" /\ Remove(ids).ids = ids
    BY DEF Remove
  <2>3. Applied(w, i.prefs, Remove(ids)) = RemovePreferences(w, ids)
    BY <2>2 DEF Applied
  <2>4. RemovePreferences(w, ids) = [w EXCEPT !.prefs = P]
    BY <2>1 DEF RemovePreferences
  <2>5. z = [w EXCEPT !.prefs = P]
    BY <2>3, <2>4 DEF ids
  <2> HIDE DEF z, P
  <2>6. z.prefs = P /\ z.goal = w.goal /\ z.dontCare = w.dontCare
    BY <1>9, <2>5 DEF Shaped
  <2> QED
    BY <1>12, <2>6
<1> QED
  BY <1>13, <1>14 DEF w

\* An added wish is expressed, by an active preference if there is one.
LEMMA WishApplied ==
    ASSUME NEW i, NEW f, NEW target, NEW t, NEW k, NEW s, Kempt(s, i, t),
           NEW p, p.facet = SemanticOnly, NEW c, c = LogicalKey(p),
           Permitted(s.work, s.known, i.prefs, Add(p), t, k),
           NEW z, z = Applied(s.work, i.prefs, Add(p)),
           NEW said, Wished(s.work, said, i, f, target)
    PROVE  Wished(z, said \cup {c}, i, f, target)
<1> DEFINE w == s.work
<1>1. Add(p).op = "add" /\ Add(p).pref = p
  BY DEF Add
<1>2. z = AddPreference(w, p) /\ Resolvable(p, w.prefs, s.known, t, k, 0)
  BY <1>1 DEF Applied, Permitted
<1>3. Shaped(w) /\ w.prefs \subseteq s.known /\ OneMeaning(s.known)
  BY DEF Kempt, Reduced
<1>4. SemanticOnly \notin Facets /\ SemanticOnly \notin NumericFacets /\ SemanticOnly \in AnyFacet
  BY FacetsAssumption DEF AnyFacet
<1> DEFINE W == On(w.prefs, SemanticOnly)
           O == On(target.old, SemanticOnly)
<1>5. /\ w.goal = NewGoal(i, f) /\ \A h \in Facets : AimedOn(w, f, target, h)
      /\ AimedAt(W, O, said) /\ \A h : h \notin AnyFacet => On(w.prefs, h) = {}
  BY DEF Wished
<1> HIDE DEF w
<1>6. CASE \E a \in w.prefs : a.id = p.id
  <2>1. z = w
    BY <1>2, <1>6 DEF AddPreference
  <2>2. PICK a \in w.prefs : a.id = p.id
    BY <1>6
  <2>3. a \in s.known
    BY <1>3
  <2>4. PICK e \in s.known : e.id = p.id /\ LogicalKey(e) = LogicalKey(p)
    BY <1>2, <2>2, <2>3 DEF Resolvable
  <2>5. LogicalKey(a) = c
    BY <1>3, <2>2, <2>3, <2>4 DEF OneMeaning
  <2>6. a.facet = SemanticOnly
    BY <2>5, KeyFacet
  <2>7. a \in W
    BY <2>6 DEF On
  <2>8. AimedAt(W, O, said \cup {c})
    BY <1>5, <2>5, <2>7 DEF AimedAt
  <2> QED
    BY <1>5, <2>1, <2>8 DEF Wished, w
<1>7. CASE ~\E a \in w.prefs : a.id = p.id
  <2>1. z = [w EXCEPT !.prefs = w.prefs \cup {p}, !.dontCare = w.dontCare \ {SemanticOnly}]
    BY <1>2, <1>4, <1>7, Zenon DEF AddPreference, WithPreference
  <2>2. z = [goal |-> w.goal, prefs |-> w.prefs \cup {p},
             dontCare |-> w.dontCare \ {SemanticOnly}]
    BY <1>3, <2>1, PartsReplaced
  <2>3. /\ z.goal = w.goal /\ z.prefs = w.prefs \cup {p}
        /\ z.dontCare = w.dontCare \ {SemanticOnly}
    BY <2>2
  <2>4. On(z.prefs, SemanticOnly) = W \cup {p}
    BY <2>3 DEF On
  <2>5. \A h : h # SemanticOnly => On(z.prefs, h) = On(w.prefs, h)
    BY <2>3 DEF On
  <2>6. AimedAt(W \cup {p}, O, said \cup {c})
    BY <1>5 DEF AimedAt
  <2>7. \A h \in Facets : AimedOn(z, f, target, h)
    <3> SUFFICES ASSUME NEW h \in Facets PROVE AimedOn(z, f, target, h)
      OBVIOUS
    <3>1. On(z.prefs, h) = On(w.prefs, h) /\ (h \in z.dontCare <=> h \in w.dontCare)
      BY <1>4, <2>3, <2>5
    <3>2. AimedOn(w, f, target, h)
      BY <1>5
    <3> QED
      BY <3>1, <3>2 DEF AimedOn
  <2>8. \A h : h \notin AnyFacet => On(z.prefs, h) = {}
    BY <1>4, <1>5, <2>5
  <2> QED
    BY <1>5, <2>3, <2>4, <2>6, <2>7, <2>8 DEF Wished
<1> QED
  BY <1>6, <1>7

\* The step that adds a wish.
LEMMA WishReached ==
    ASSUME NEW i, NEW f, NEW target, NEW t, NEW k, NEW s, Kempt(s, i, t),
           NEW p, p.facet = SemanticOnly, NEW c, c = LogicalKey(p),
           NEW r, Moves(s, i, Add(p), t, k, r),
           NEW said, Wished(s.work, said, i, f, target)
    PROVE  Wished(r.work, said \cup {c}, i, f, target)
  BY WishApplied DEF Moves

Removal(removed) ==
    IF removed = {} THEN <<>> ELSE <<Remove(SortedIds(Ids(removed)))>>

\* The operations r on wishes: a removal, then the additions a one by one.
WishParts(r, a, m, t, removed, new) ==
    /\ r = m \o a
    /\ Listed(m) /\ Listed(a) /\ Len(a) = Len(new)
    /\ removed = {} => Len(m) = 0
    /\ removed # {} => Len(m) = 1 /\ m[1] = Remove(SortedIds(Ids(removed)))
    /\ \A j \in 1..Len(new) : \E n : a[j] = Add(Allocated(new[j], t, n, 0))

\* The operations on wishes are a removal and an addition for each.
LEMMA WishesAre ==
    ASSUME NEW k, NEW t, NEW removed, NEW new, Listed(new),
           NEW r, r = SemanticOperations(k, t, removed, new)
    PROVE  \E a : WishParts(r, a, Removal(removed), t, removed, new)
<1> DEFINE m == Removal(removed)
           a == [j \in DOMAIN new |-> Add(Allocated(new[j], t, k + Len(m) + j - 1, 0))]
           op == Remove(SortedIds(Ids(removed)))
<1>1. r = m \o a
  BY Zenon DEF SemanticOperations, Removal
<1>2. Len(new) \in Nat /\ DOMAIN new = 1..Len(new)
  BY Sequences
<1>3. DOMAIN a = DOMAIN new /\ a = [j \in DOMAIN a |-> a[j]]
  OBVIOUS
<1>4. \A j \in 1..Len(new) : \E n : a[j] = Add(Allocated(new[j], t, n, 0))
  <2> SUFFICES ASSUME NEW j \in 1..Len(new)
               PROVE  \E n : a[j] = Add(Allocated(new[j], t, n, 0))
    OBVIOUS
  <2>1. a[j] = Add(Allocated(new[j], t, k + Len(m) + j - 1, 0))
    BY <1>2
  <2> HIDE DEF a
  <2> QED
    BY <2>1, Zenon
<1>5. m = IF removed = {} THEN <<>> ELSE <<op>>
  BY Zenon DEF Removal
<1> HIDE DEF a, op, m
<1>6. Listed(m) /\ (removed = {} => Len(m) = 0) /\ (removed # {} => Len(m) = 1)
  BY <1>5, Sequences
<1>7. removed # {} => m[1] = op
  BY <1>5
<1>8. Listed(a)
  BY <1>3, Mapped
<1>9. Len(a) = Len(new)
  <2>1. Len(a) \in Nat /\ DOMAIN a = 1..Len(a)
    BY <1>8, Sequences
  <2> QED
    BY <1>2, <1>3, <2>1
<1>10. WishParts(r, a, m, t, removed, new)
  BY <1>1, <1>4, <1>6, <1>7, <1>8, <1>9 DEF WishParts, op
<1> QED
  BY <1>10, Zenon DEF m

\* After the operations on wishes every new wish is expressed.
LEMMA WishesReached ==
    ASSUME NEW i, Proper(i), NEW f, NEW target, Targeted(i, f, target), NEW t,
           NEW ops, Listed(ops), NEW g, Run(g, i, ops, t),
           NEW s, Listed(s), NEW removed, NEW new, Listed(new),
           ops = s \o SemanticOperations(Len(s), t, removed, new),
           removed = On(BaselinePrefs(i, f, target.old) \ target.old, SemanticOnly),
           \A c \in RangeOf(new) : c = LogicalKey(c) /\ c.facet = SemanticOnly,
           Prefix(s, ops) => Reached(g[Len(s)].work, Len(FacetOrder), i, f, target)
    PROVE  Wished(g[Len(ops)].work, RangeOf(new), i, f, target)
<1> DEFINE r == SemanticOperations(Len(s), t, removed, new)
           m == Removal(removed)
           L == Len(s)
           M == Len(m)
           K == L + M
           N == Len(new)
           R == Len(r)
           op == Remove(SortedIds(Ids(removed)))
<1>1. r = SemanticOperations(Len(s), t, removed, new)
  OBVIOUS
<1>2. ops = s \o r
  OBVIOUS
<1> HIDE DEF r
<1>3. PICK a : WishParts(r, a, m, t, removed, new)
  BY <1>1, WishesAre, Zenon
<1> HIDE DEF m, op
<1>4. /\ r = m \o a /\ Listed(m) /\ Listed(a) /\ Len(a) = N
      /\ removed = {} => M = 0
      /\ removed # {} => M = 1 /\ m[1] = op
      /\ \A j \in 1..N : \E n : a[j] = Add(Allocated(new[j], t, n, 0))
  BY <1>3 DEF WishParts, op
<1>5. Listed(m) /\ Listed(a) /\ Listed(r) /\ Listed(s) /\ Listed(ops) /\ Listed(m \o a)
  BY <1>4, Sequences
<1>6. /\ L \in Nat /\ N \in Nat /\ M \in Nat /\ R \in Nat /\ Len(ops) \in Nat
       /\ DOMAIN new = 1..N
  BY <1>5, Sequences
<1>7. \A q : Listed(q) => Prefix(q, q)
  BY Sequences DEF Prefix
<1>8. /\ R = M + N
      /\ \A j \in 1..M : m[j] = r[j]
      /\ \A j \in 1..N : a[j] = r[M + j]
  <2>1. Prefix(m \o a, r)
    BY <1>4, <1>5, <1>7
  <2>2. /\ Prefix(m, r) /\ Len(m \o a) = Len(m) + Len(a)
        /\ \A j \in 1..Len(a) : a[j] = r[Len(m) + j] /\ Len(m) + j <= Len(r)
    BY <1>5, <2>1, PrefixParts
  <2> QED
    BY <1>4, <2>2 DEF Prefix
<1>9. /\ Prefix(s, ops) /\ Len(ops) = L + R
      /\ \A j \in 1..R : r[j] = ops[L + j]
  <2>1. Prefix(s \o r, ops)
    BY <1>5, <1>7, <1>2
  <2>2. /\ Prefix(s, ops) /\ Len(s \o r) = Len(s) + Len(r)
        /\ \A j \in 1..Len(r) : r[j] = ops[Len(s) + j] /\ Len(s) + j <= Len(ops)
    <3>1. \A z : Listed(z) /\ Prefix(s \o r, z) =>
             /\ Prefix(s, z) /\ Len(s \o r) = Len(s) + Len(r)
             /\ \A j \in 1..Len(r) : r[j] = z[Len(s) + j] /\ Len(s) + j <= Len(z)
      BY <1>5, PrefixParts
    <3> QED
      BY <1>5, <2>1, <3>1, Zenon
  <2> QED
    BY <1>2, <2>2
<1>10. Reached(g[L].work, Len(FacetOrder), i, f, target)
  BY <1>9
<1> HIDE DEF L, M, N, R
<1>11. K \in Nat /\ Len(ops) = K + N /\ K = L + M
  BY <1>6, <1>8, <1>9
<1> HIDE DEF K
<1>12. \A j \in 1..N : a[j] = ops[K + j]
  <2> SUFFICES ASSUME NEW j \in 1..N PROVE a[j] = ops[K + j]
    OBVIOUS
  <2>1. a[j] = r[M + j]
    BY <1>8
  <2>2. M + j \in 1..R /\ L + (M + j) = K + j
    BY <1>6, <1>8, <1>11
  <2>3. r[M + j] = ops[L + (M + j)]
    BY <1>9, <2>2
  <2> QED
    BY <2>1, <2>2, <2>3
<1>13. \A n \in 0..Len(ops) : Kempt(g[n], i, t)
  BY DEF Run
<1>14. \A n \in 0..(Len(ops) - 1) : Moves(g[n], i, ops[n + 1], t, n, g[n + 1])
  BY DEF Run
<1>15. Wished(g[K].work, {}, i, f, target)
  <2>1. L \in 0..Len(ops)
    BY <1>6, <1>11
  <2>2. Kempt(g[L], i, t)
    BY <1>13, <2>1
  <2>3. /\ removed = {} => Wished(g[L].work, {}, i, f, target)
        /\ Wished(Applied(g[L].work, i.prefs, op), {}, i, f, target)
    BY <1>10, <2>2, RemovalReached DEF op
  <2>4. CASE removed = {}
    <3>0. M = 0
      BY <1>4, <2>4
    <3>1. K = L
      BY <1>6, <1>11, <3>0
    <3> QED
      BY <2>3, <2>4, <3>1
  <2>5. CASE removed # {}
    <3>1. M = 1 /\ m[1] = op
      BY <1>4, <2>5
    <3>2. K = L + 1 /\ 1 \in 1..M /\ 1 \in 1..R
      BY <1>6, <1>8, <1>11, <3>1
    <3>3. ops[L + 1] = op
      BY <1>8, <1>9, <3>1, <3>2
    <3>4. L \in 0..(Len(ops) - 1)
      BY <1>6, <1>11, <3>2
    <3>5. Moves(g[L], i, op, t, L, g[L + 1])
      BY <1>14, <3>3, <3>4
    <3>6. g[L + 1].work = Applied(g[L].work, i.prefs, op)
      BY <3>5 DEF Moves
    <3> QED
      BY <2>3, <3>2, <3>6
  <2> QED
    BY <2>4, <2>5
<1> DEFINE Said(j) == {new[n] : n \in 1..j}
           Good == {j \in Nat : j <= N => Wished(g[K + j].work, Said(j), i, f, target)}
<1>16. 0 \in Good
  <2>1. Said(0) = {} /\ K + 0 = K
    BY <1>11
  <2> HIDE DEF Said
  <2> QED
    BY <1>15, <2>1
<1>17. ASSUME NEW j \in Nat, j \in Good PROVE j + 1 \in Good
  <2> SUFFICES ASSUME j + 1 <= N
               PROVE  Wished(g[K + (j + 1)].work, Said(j + 1), i, f, target)
    OBVIOUS
  <2>1. j + 1 \in 1..N /\ j <= N /\ K + (j + 1) = (K + j) + 1 /\ K + j \in 0..(Len(ops) - 1)
        /\ K + j \in 0..Len(ops)
    <3>1. /\ K \in Nat /\ N \in Nat /\ Len(ops) = K + N
          /\ j \in Nat /\ j + 1 <= N
      BY <1>6, <1>11
    <3> DEFINE E == Len(ops)
    <3>2. E = K + N
      BY <3>1
    <3> HIDE DEF E
    <3>3. K + j \in 0..(E - 1) /\ K + j \in 0..E
      BY <3>1, <3>2
    <3>4. j + 1 \in 1..N /\ j <= N /\ K + (j + 1) = (K + j) + 1
      BY <3>1
    <3> QED
      BY <3>3, <3>4 DEF E
  <2>2. Said(j + 1) = Said(j) \cup {new[j + 1]}
    <3>1. 1..(j + 1) = (1..j) \cup {j + 1}
      OBVIOUS
    <3> QED
      BY <3>1
  <2>3. Wished(g[K + j].work, Said(j), i, f, target)
    BY <1>17, <2>1
  <2> HIDE DEF Said
  <2> DEFINE n == K + j
             c == new[j + 1]
  <2>4. PICK place : ops[n + 1] = Add(Allocated(c, t, place, 0))
    <3>1. \E q : a[j + 1] = Add(Allocated(new[j + 1], t, q, 0))
      BY <1>4, <2>1
    <3>2. a[j + 1] = ops[n + 1]
      BY <1>12, <2>1
    <3> QED
      BY <3>1, <3>2
  <2>5. c = LogicalKey(c) /\ c.facet = SemanticOnly
    BY <1>6, <2>1 DEF RangeOf
  <2>6. Kempt(g[n], i, t) /\ Moves(g[n], i, ops[n + 1], t, n, g[n + 1])
    BY <1>13, <1>14, <2>1
  <2>7. Wished(g[n].work, Said(j), i, f, target)
    BY <2>3
  <2> DEFINE p == Allocated(c, t, place, 0)
             said == Said(j)
  <2>8. /\ K + (j + 1) = n + 1 /\ Said(j + 1) = said \cup {c}
        /\ Wished(g[n].work, said, i, f, target)
    BY <2>1, <2>2, <2>7
  <2> HIDE DEF n, c
  <2>9. p.facet = SemanticOnly /\ c = LogicalKey(p)
    BY <2>5, AllocatedKey
  <2>10. Moves(g[n], i, Add(p), t, n, g[n + 1])
    BY <2>4, <2>6
  <2> HIDE DEF p, said
  <2>11. Wished(g[n + 1].work, said \cup {c}, i, f, target)
    BY <2>6, <2>8, <2>9, <2>10, WishReached
  <2> QED
    BY <2>8, <2>11
<1>18. N \in Good
  <2> HIDE DEF Good
  <2> QED
    BY <1>6, <1>16, <1>17, SetInduction
<1>19. Said(N) = RangeOf(new)
  BY <1>6 DEF RangeOf
<1> HIDE DEF Said
<1> QED
  BY <1>6, <1>11, <1>18, <1>19

\* What a working intent is when it is all the target says.
Attained(w, i, f, target) ==
    /\ w.goal = NewGoal(i, f)
    /\ AimedAt(w.prefs, target.old, RangeOf(target.new))
    /\ w.dontCare = DesiredDontCare(f, target)

\* When facets and wishes are at the target, the intent is.
LEMMA WishedAttains ==
    ASSUME NEW i, Proper(i), NEW f, Worded(f), NEW target, Targeted(i, f, target),
           NEW w, w.dontCare \subseteq Facets,
           Wished(w, On(RangeOf(target.new), SemanticOnly), i, f, target)
    PROVE  Attained(w, i, f, target)
<1> DEFINE O == target.old
           C == RangeOf(target.new)
           P == w.prefs
<1>1. \A h \in AnyFacet : AimedAt(On(P, h), On(O, h), On(C, h))
  BY DEF Wished, AimedOn, AnyFacet
<1>2. \A h : h \notin AnyFacet => On(P, h) = {}
  BY DEF Wished
<1>3. \A p \in O : p.facet \in AnyFacet
  BY DEF Targeted, Proper
<1>4. \A c \in C : c.facet \in AnyFacet
  BY DEF Targeted
<1>5. w.goal = NewGoal(i, f)
  BY DEF Wished
<1>6. w.dontCare = DesiredDontCare(f, target)
  <2>1. DesiredDontCare(f, target) \subseteq Facets
    BY DEF DesiredDontCare, Worded
  <2>2. \A h \in Facets : h \in w.dontCare <=> h \in DesiredDontCare(f, target)
    BY DEF Wished, AimedOn
  <2> QED
    BY <2>1, <2>2
<1> HIDE DEF O, C, P
<1>7. O \subseteq P
  BY <1>1, <1>3 DEF AimedAt, On
<1>8. \A c \in C : \E p \in P : LogicalKey(p) = c
  BY <1>1, <1>4 DEF AimedAt, On
<1>9. \A p \in P : p \in O \/ LogicalKey(p) \in C
  BY <1>1, <1>2 DEF AimedAt, On
<1>10. AimedAt(P, O, C)
  BY <1>7, <1>8, <1>9 DEF AimedAt
<1> QED
  BY <1>5, <1>6, <1>10 DEF Attained, O, C, P

\* The result of a plan that the reducer accepts.
LEMMA PlanAttains ==
    ASSUME NEW i, Proper(i), NEW f, Worded(f), NEW t \in Nat,
           NEW target, Targeted(i, f, target),
           NEW ops, ops = PlannedOperations(i, f, t, target),
           Listed(ops), \A n \in DOMAIN ops : OperationValid(ops[n]),
           NEW s, s = Reduction(i, ops, t), s.ok
    PROVE  Attained(s.work, i, f, target) /\ Kempt(s, i, t)
<1> DEFINE baseline == BaselinePrefs(i, f, target.old)
           upto == CHOOSE u : Rounds(u, i, f, t, target, baseline)
           structured == upto[Len(FacetOrder)]
           S == On(RangeOf(target.new), SemanticOnly)
           new == Only(target.new, S)
           removed == On(baseline \ target.old, SemanticOnly)
<1>1. /\ ValidIntent(i.prefs, i.dontCare) /\ IsFiniteSet(i.prefs)
      /\ \A p \in i.prefs : p.id \in IdTuples
  BY DEF Proper, IntentAllowed
<1>2. PICK g : Run(g, i, ops, t) /\ s = g[Len(ops)]
  BY <1>1, RunExists
<1>3. Listed(target.new)
  BY DEF Targeted
<1>4. Listed(new) /\ RangeOf(new) = S
  <2>1. Listed(new) /\ RangeOf(new) = RangeOf(target.new) \cap S
    BY <1>3, OnlyPicks DEF Listed
  <2> QED
    BY <2>1 DEF On
<1>5. \A c \in RangeOf(new) : c = LogicalKey(c) /\ c.facet = SemanticOnly
  BY <1>4 DEF On, Targeted
<1>6. /\ Rounds(upto, i, f, t, target, baseline)
      /\ \A n \in 0..Len(FacetOrder) : Listed(upto[n])
  BY RoundsSteered
<1>7. Len(FacetOrder) \in 0..Len(FacetOrder)
  BY FacetOrderLength
<1>8. ops = structured \o SemanticOperations(Len(structured), t, removed, new)
  BY Zenon DEF PlannedOperations, OperationsTo, Rounds
<1>9. Listed(structured)
  BY <1>6, <1>7
<1> HIDE DEF upto
<1>10. Prefix(structured, ops) => Reached(g[Len(structured)].work, Len(FacetOrder), i, f, target)
  <2> SUFFICES ASSUME Prefix(upto[Len(FacetOrder)], ops)
               PROVE  Reached(g[Len(upto[Len(FacetOrder)])].work, Len(FacetOrder), i, f, target)
    OBVIOUS
  <2>1. Run(g, i, ops, t)
    BY <1>2
  <2>2. Rounds(upto, i, f, t, target, BaselinePrefs(i, f, target.old))
    BY <1>6
  <2> HIDE DEF baseline, structured, S, new, removed
  <2> QED
    BY <1>6, <1>7, <2>1, <2>2, RoundsReached
<1>11. removed = On(BaselinePrefs(i, f, target.old) \ target.old, SemanticOnly)
  OBVIOUS
<1> HIDE DEF structured, new, removed
<1>12. Wished(g[Len(ops)].work, RangeOf(new), i, f, target)
  BY <1>2, <1>4, <1>5, <1>8, <1>9, <1>10, <1>11, WishesReached
<1>13. Kempt(s, i, t)
  <2>1. Len(ops) \in 0..Len(ops)
    BY Sequences
  <2> QED
    BY <1>2, <2>1 DEF Run
<1>14. s.work.dontCare \subseteq Facets
  BY <1>13 DEF Kempt, Reduced, ValidIntent
<1>15. Wished(s.work, On(RangeOf(target.new), SemanticOnly), i, f, target)
  BY <1>2, <1>4, <1>12
<1> QED
  BY <1>13, <1>14, <1>15, WishedAttains

\* A target that is the intent needs no operation.
LEMMA NothingToDo ==
    ASSUME NEW i, Proper(i), NEW f, NEW t, NEW target, Targeted(i, f, target),
           target.old = i.prefs, RangeOf(target.new) = {},
           DesiredDontCare(f, target) = i.dontCare, NewGoal(i, f) = i.goal
    PROVE  PlannedOperations(i, f, t, target) = <<>>
<1> DEFINE baseline == BaselinePrefs(i, f, target.old)
           upto == CHOOSE u : Rounds(u, i, f, t, target, baseline)
           new == Only(target.new, On(RangeOf(target.new), SemanticOnly))
           removed == On(baseline \ target.old, SemanticOnly)
           N == Len(FacetOrder)
           Good == {n \in Nat : n <= N => upto[n] = <<>>}
<1>1. N \in Nat /\ DOMAIN FacetOrder = 1..N
  BY FacetOrderLength, PlannerAssumption
<1>2. ~GoalChanged(i, f) /\ baseline = i.prefs /\ BaselineDontCare(i, f) = i.dontCare
  BY DEF GoalChanged, BaselinePrefs, BaselineDontCare
<1>3. Listed(target.new)
  BY DEF Targeted
<1>4. \A g : Only(target.new, On(RangeOf(target.new), g)) = <<>>
  <2> SUFFICES ASSUME NEW g PROVE Only(target.new, On(RangeOf(target.new), g)) = <<>>
    OBVIOUS
  <2> DEFINE S == On(RangeOf(target.new), g)
             q == Only(target.new, S)
  <2>1. Listed(q) /\ RangeOf(q) = RangeOf(target.new) \cap S
    BY <1>3, OnlyPicks DEF Listed
  <2>2. RangeOf(q) = {}
    BY <2>1
  <2> HIDE DEF q
  <2>3. q = <<>>
    BY <2>1, <2>2, Elements
  <2> QED
    BY <2>3 DEF q
<1>5. \A h \in Facets : \A k : RoundOf(i, f, target, t, h, k) = <<>>
  <2> SUFFICES ASSUME NEW h \in Facets, NEW k PROVE RoundOf(i, f, target, t, h, k) = <<>>
    OBVIOUS
  <2> DEFINE old == On(target.old, h)
             list == Only(target.new, On(RangeOf(target.new), h))
             is == h \in DesiredDontCare(f, target)
  <2>1. is => old = {}
    BY RoundParts
  <2>2. list = <<>> /\ On(baseline, h) = old
    BY <1>2, <1>4
  <2>3. ~SaysOtherwise(old, list, old)
    BY <2>2 DEF SaysOtherwise
  <2>4. RoundOf(i, f, target, t, h, k) = FacetOperation(h, k, t, old, old, list, is, is)
    BY <1>2, <2>2 DEF RoundOf
  <2> HIDE DEF old, list, is
  <2> QED
    BY <2>1, <2>2, <2>3, <2>4, Zenon DEF FacetOperation
<1>6. Rounds(upto, i, f, t, target, baseline)
  BY RoundsSteered
<1>7. PlannedOperations(i, f, t, target)
         = upto[N] \o SemanticOperations(Len(upto[N]), t, removed, new)
  BY Zenon DEF PlannedOperations, OperationsTo, Rounds
<1>8. removed = {} /\ new = <<>>
  BY <1>2, <1>4 DEF On
<1> HIDE DEF upto, N
<1>9. /\ upto[0] = <<>>
      /\ \A n \in 1..N : upto[n] = upto[n - 1] \o <<>>
  <2>1. upto = [n \in 0..N |->
                   IF n = 0 THEN SwitchOperation(i, f, target.old)
                   ELSE upto[n - 1] \o RoundOf(i, f, target, t, FacetOrder[n], Len(upto[n - 1]))]
    BY <1>6, Zenon DEF Rounds, RoundOf, N
  <2>2. 0 \in 0..N /\ \A n \in 1..N : n \in 0..N /\ n # 0
    BY <1>1
  <2>3. SwitchOperation(i, f, target.old) = <<>>
    BY <1>2 DEF SwitchOperation
  <2>4. \A n \in 1..N : \A k : RoundOf(i, f, target, t, FacetOrder[n], k) = <<>>
    BY <1>1, <1>5, PlannerAssumption DEF RangeOf
  <2> QED
    BY <2>1, <2>2, <2>3, <2>4
<1>10. <<>> \o <<>> = <<>>
  <2>1. Listed(<<>> \o <<>>) /\ RangeOf(<<>> \o <<>>) = {}
    BY Sequences, Elements
  <2> QED
    BY <2>1, Elements
<1>11. 0 \in Good
  BY <1>9
<1>12. ASSUME NEW n \in Nat, n \in Good PROVE n + 1 \in Good
  <2> SUFFICES ASSUME n + 1 <= N PROVE upto[n + 1] = <<>>
    OBVIOUS
  <2>1. n + 1 \in 1..N /\ (n + 1) - 1 = n /\ upto[n] = <<>>
    BY <1>1, <1>12
  <2>2. upto[n + 1] = upto[n] \o <<>>
    BY <1>9, <2>1
  <2> QED
    BY <1>10, <2>1, <2>2
<1>13. N \in Good
  <2> HIDE DEF Good
  <2> QED
    BY <1>1, <1>11, <1>12, SetInduction
<1>14. upto[N] = <<>>
  BY <1>1, <1>13
<1>15. \A k : SemanticOperations(k, t, {}, <<>>) = <<>>
  <2> SUFFICES ASSUME NEW k PROVE SemanticOperations(k, t, {}, <<>>) = <<>>
    OBVIOUS
  <2>1. Listed(<<>>)
    BY Sequences
  <2> DEFINE r == SemanticOperations(k, t, {}, <<>>)
  <2>2. PICK a : WishParts(r, a, Removal({}), t, {}, <<>>)
    BY <2>1, WishesAre
  <2> HIDE DEF r
  <2>3. Listed(a) /\ Len(a) = 0 /\ Removal({}) = <<>> /\ r = Removal({}) \o a
    BY <2>2 DEF WishParts, Removal
  <2>4. a = <<>>
    <3>1. DOMAIN a = 1..0
      BY <2>3, Sequences
    <3>2. RangeOf(a) = {}
      BY <3>1 DEF RangeOf
    <3> QED
      BY <2>3, <3>2, Elements
  <2>5. r = <<>>
    BY <1>10, <2>3, <2>4
  <2> QED
    BY <2>5 DEF r
<1> QED
  BY <1>7, <1>8, <1>10, <1>14, <1>15

----------------------------------------------------------------------------
(* What an accepted plan leads to *)

\* The intent z is what frame f says of intent i.
Says(z, i, f) ==
    /\ Kept(i, f) \subseteq z.prefs
    /\ \A item \in Items(f) : \E p \in z.prefs : LogicalKey(p) \in Readings(item)
    /\ \A p \in z.prefs :
          \/ p \in Kept(i, f)
          \/ \E item \in Items(f) : LogicalKey(p) \in Readings(item)
          \/ /\ p.facet = Category /\ CategoryDropped(i, f)
             /\ LogicalKey(p) = RootCategory \/ p.value = {RootScope}
    /\ z.dontCare = (f.dontCare \ {Category}) \ ActiveFacets(z.prefs)
    /\ z.goal = NewGoal(i, f)

\* An intent at the target says what the frame says.
LEMMA AttainedSays ==
    ASSUME NEW i, NEW f, NEW target, Targeted(i, f, target),
           NEW z, Attained(z, i, f, target)
    PROVE  Says(z, i, f)
<1> DEFINE O == target.old
           C == RangeOf(target.new)
           P == z.prefs
<1>1. /\ O \subseteq P
      /\ \A c \in C : \E p \in P : LogicalKey(p) = c
      /\ \A p \in P : p \in O \/ LogicalKey(p) \in C
  BY DEF Attained, AimedAt
<1>2. /\ Kept(i, f) \subseteq O
      /\ \A item \in Items(f) : \E c \in C \cup Keys(O) : c \in Readings(item)
      /\ \A p \in O :
          \/ p \in Kept(i, f)
          \/ \E item \in Items(f) : LogicalKey(p) \in Readings(item)
          \/ p.facet = Category /\ p.value = {RootScope} /\ CategoryDropped(i, f)
      /\ \A c \in C :
          \/ \E item \in Items(f) : c \in Readings(item)
          \/ c = RootCategory /\ CategoryDropped(i, f)
  BY DEF Targeted
<1>3. z.dontCare = (f.dontCare \ {Category}) \ ActiveFacets(O \cup C)
  BY DEF Attained, DesiredDontCare
<1>4. z.goal = NewGoal(i, f)
  BY DEF Attained
<1> HIDE DEF O, C, P
<1>5. ASSUME NEW item \in Items(f) PROVE \E p \in P : LogicalKey(p) \in Readings(item)
  <2>1. PICK c \in C \cup Keys(O) : c \in Readings(item)
    BY <1>2
  <2>2. \E p \in P : LogicalKey(p) = c
    BY <1>1, <2>1 DEF Keys
  <2> QED
    BY <2>1, <2>2
<1>6. ASSUME NEW p \in P
      PROVE  \/ p \in Kept(i, f)
             \/ \E item \in Items(f) : LogicalKey(p) \in Readings(item)
             \/ /\ p.facet = Category /\ CategoryDropped(i, f)
                /\ LogicalKey(p) = RootCategory \/ p.value = {RootScope}
  <2>1. CASE p \in O
    BY <1>2, <2>1
  <2>2. CASE LogicalKey(p) \in C
    <3>1. LogicalKey(p) = RootCategory => p.facet = Category
      BY KeyFacet, RootIsKey
    <3> QED
      BY <1>2, <2>2, <3>1
  <2> QED
    BY <1>1, <2>1, <2>2
<1>7. ActiveFacets(P) = ActiveFacets(O \cup C)
  <2>1. \A p \in P : \E q \in O \cup C : q.facet = p.facet
    BY <1>1, KeyFacet
  <2>2. \A q \in O \cup C : \E p \in P : q.facet = p.facet
    BY <1>1, KeyFacet
  <2> QED
    BY <2>1, <2>2 DEF ActiveFacets
<1>8. Kept(i, f) \subseteq P
  BY <1>1, <1>2
<1> QED
  BY <1>3, <1>4, <1>5, <1>6, <1>7, <1>8 DEF Says, P

\* An accepted plan leads to what the frame says, and has operations
\* exactly if that is not the intent itself.
LEMMA PlanLeads ==
    ASSUME NEW i, Proper(i), NEW f, Formed(f), Worded(f), NEW t \in Nat,
           NEW m, m = Materialized(i, f, t), m.error = "none"
    PROVE  /\ Proper(m.final)
           /\ \E target : Targeted(i, f, target) /\ Attained(m.final, i, f, target)
           /\ m.final = i <=> m.ops = <<>>
<1> DEFINE target == TargetOf(i, f, Candidates(i, f))
           ops == PlannedOperations(i, f, t, target)
           batch == [turn |-> t, base |-> i.version, ops |-> ops]
           preview == Preview(i, batch)
           s == Reduction(i, ops, t)
<1>1. \/ ops = <<>> /\ m.final = i /\ m.ops = <<>>
      \/ ops # <<>> /\ preview.ok /\ m.final = preview.intent /\ m.ops = ops
  <2>1. FrameError(i, f, Candidates(i, f)) = "none"
    BY DEF Materialized, Considered, Refused
  <2>2. m = Carried(i, f, t, ops)
    BY <2>1 DEF Materialized, Considered
  <2>3. m = Previewed(i, f, ops, preview)
    BY <2>2 DEF Carried
  <2> HIDE DEF ops, preview
  <2> QED
    BY <2>3 DEF Previewed, Refused
<1>2. CompleteIntent(i.prefs, i.dontCare)
  BY DEF Proper, IntentAllowed
<1>3. Targeted(i, f, target)
  BY <1>2, TargetTold
<1>4. ops = PlannedOperations(i, f, t, target) /\ s = Reduction(i, ops, t)
  OBVIOUS
<1>5. batch.ops = ops /\ batch.turn = t
  OBVIOUS
<1>6. preview.ok => /\ ReduceIntent(i, batch).ok
                    /\ preview.intent = ReduceIntent(i, batch).intent
                    /\ CompleteIntent(preview.intent.prefs, preview.intent.dontCare)
  BY DEF Preview
<1> HIDE DEF target, ops, batch, preview, s
<1>7. CASE ops = <<>>
  <2>1. Listed(ops) /\ DOMAIN ops = {} /\ Len(ops) = 0
    BY <1>7, Sequences
  <2>2. s = Start(i)
    <3> DEFINE h == CHOOSE g : Reduces(g, i, ops, t, 0)
    <3>1. Reduces(h, i, ops, t, 0) /\ Reduction(i, ops, t) = h[0]
      BY <2>1, ReductionUnfolds
    <3> HIDE DEF h
    <3> QED
      BY <1>4, <3>1 DEF Reduces
  <2>3. s.ok /\ s.work = Content(i)
    BY <2>2 DEF Start
  <2>4. Attained(s.work, i, f, target)
    BY <1>3, <1>4, <2>1, <2>3, PlanAttains
  <2>5. Attained(i, i, f, target)
    BY <2>3, <2>4 DEF Attained, Content
  <2> QED
    BY <1>1, <1>3, <1>7, <2>5
<1>8. CASE ops # <<>>
  <2>1. /\ BatchValid(ops) /\ s.ok /\ m.final = Snapshot(i, s.work) /\ m.ops = ops
        /\ CompleteIntent(m.final.prefs, m.final.dontCare)
    BY <1>1, <1>4, <1>5, <1>6, <1>8 DEF ReduceIntent
  <2>2. Listed(ops) /\ \A n \in DOMAIN ops : OperationValid(ops[n])
    BY <2>1 DEF BatchValid, IsTuple, Listed
  <2>3. Attained(s.work, i, f, target) /\ Kempt(s, i, t)
    BY <1>3, <1>4, <2>1, <2>2, PlanAttains
  <2>4. /\ m.final.goal = s.work.goal /\ m.final.prefs = s.work.prefs
        /\ m.final.dontCare = s.work.dontCare
    BY <2>1 DEF Snapshot
  <2>5. Attained(m.final, i, f, target)
    BY <2>3, <2>4 DEF Attained
  <2>7. \A p \in m.final.prefs : p.facet \in AnyFacet
    <3> SUFFICES ASSUME NEW p \in m.final.prefs PROVE p.facet \in AnyFacet
      OBVIOUS
    <3>1. CASE p \in target.old
      BY <1>3, <3>1 DEF Targeted, Proper
    <3>2. CASE LogicalKey(p) \in RangeOf(target.new)
      BY <1>3, <3>2, KeyFacet DEF Targeted
    <3> QED
      BY <2>5, <3>1, <3>2 DEF Attained, AimedAt
  <2>8. Proper(m.final)
    BY <2>1, <2>3, <2>4, <2>7 DEF Proper, IntentAllowed, Kempt, Reduced
  <2>9. m.final # i
    <3> SUFFICES ASSUME m.final = i PROVE FALSE
      OBVIOUS
    <3>1. Attained(i, i, f, target)
      BY <2>5
    <3>2. RangeOf(target.new) = {}
      BY <1>3, <3>1 DEF Attained, AimedAt, Targeted, Keys
    <3>3. target.old = i.prefs
      BY <1>3, <3>1, <3>2 DEF Attained, AimedAt, Targeted
    <3>4. DesiredDontCare(f, target) = i.dontCare /\ NewGoal(i, f) = i.goal
      BY <3>1 DEF Attained
    <3>5. ops = <<>>
      BY <1>3, <1>4, <3>2, <3>3, <3>4, NothingToDo
    <3> QED
      BY <1>8, <3>5
  <2> QED
    BY <1>3, <1>8, <2>1, <2>5, <2>8, <2>9
<1> QED
  BY <1>7, <1>8

\* The planner's answer to a frame it accepts.
LEMMA PlanSays ==
    ASSUME NEW i, Proper(i), NEW f, Formed(f), Worded(f), NEW t \in Nat,
           NEW m, m = Materialized(i, f, t), m.error = "none"
    PROVE  /\ Proper(m.final) /\ Says(m.final, i, f)
           /\ m.final = i <=> m.ops = <<>>
  BY PlanLeads, AttainedSays

----------------------------------------------------------------------------
(* The frames of a session *)

\* A commitment is hard or soft, and numbers are numbers.
Spoken(prefs) ==
    \A p \in prefs : /\ p.commitment \in {"hard", "soft"}
                     /\ p.facet \in NumericFacets => p.value \subseteq Int

\* What the odd frames hold.
LEMMA OddFrameParts ==
    ASSUME NEW f \in OddFrames(intent.prefs, intent.version, intent.dontCare)
    PROVE  /\ f.structured = <<>> /\ f.price = <<>>
           /\ \/ f.semantic = <<>>
              \/ \E t \in SemanticItems :
                    f.semantic = <<[t EXCEPT !.source = "inferred", !.commitment = "hard"]>>
           /\ f.dontCare \in {{}, intent.dontCare}
<1> DEFINE all == [base |-> intent.version, noChange |-> TRUE,
                   goal |-> [action |-> "keep", value |-> NoGoal],
                   keep |-> Ids(intent.prefs), structured |-> <<>>, price |-> <<>>,
                   semantic |-> <<>>, dontCare |-> intent.dontCare]
           odd(t) == [t EXCEPT !.source = "inferred", !.commitment = "hard"]
<1>1. \/ f \in {all, [all EXCEPT !.base = @ + 1], [all EXCEPT !.dontCare = {}],
                [all EXCEPT !.keep = @ \cup {<<turn, 0, 0>>}]}
      \/ \E t \in SemanticItems : f = [all EXCEPT !.semantic = <<odd(t)>>]
  BY Zenon DEF OddFrames
<1> HIDE DEF odd
<1>2. /\ f.structured = <<>> /\ f.price = <<>>
      /\ f.semantic = <<>> \/ \E t \in SemanticItems : f.semantic = <<odd(t)>>
      /\ f.dontCare \in {{}, intent.dontCare}
  BY <1>1
<1> QED
  BY <1>2 DEF odd

\* Every frame that is answered is one of lists of records.
LEMMA ProvidedForm ==
    ASSUME Provide
    PROVE  \E f : /\ Formed(f) /\ Answer(f) /\ Spoken(Items(f))
                  /\ intent.dontCare \subseteq Facets => Worded(f)
<1>1. PICK f : /\ f \in FramesOf(intent.prefs, intent.version)
                          \cup OddFrames(intent.prefs, intent.version, intent.dontCare)
               /\ Answer(f)
  BY DEF Provide
<1>2. \A item \in StructuredItems \cup PriceItems \cup SemanticItems :
         /\ item = LogicalKey(item) /\ item.facet \in AnyFacet
         /\ item.commitment \in {"hard", "soft"}
         /\ item.facet \in NumericFacets => item.value \subseteq Int
  BY ItemsAssumption DEF AnyFacet
<1>3. CASE f \in FramesOf(intent.prefs, intent.version)
  <2>1. \E n \in FewNewItems : /\ f.structured = n.structured /\ f.price = n.price
                               /\ f.semantic = n.semantic
    BY <1>3 DEF FramesOf
  <2>2. ASSUME NEW S, NEW s \in SeqsUpTo(S, MaxNew) PROVE Listed(s) /\ RangeOf(s) \subseteq S
    <3>1. PICK k \in 0..MaxNew : s \in [1..k -> S]
      BY <2>2 DEF SeqsUpTo
    <3>2. k \in Nat
      BY <3>1
    <3>3. s \in Seq(S)
      BY <3>1, <3>2
    <3> QED
      BY <3>1, <3>3 DEF Listed, RangeOf
  <2>3. PICK n \in NewItems : /\ f.structured = n.structured /\ f.price = n.price
                              /\ f.semantic = n.semantic
    BY <2>1 DEF FewNewItems
  <2>4. /\ n.structured \in SeqsUpTo(StructuredItems, MaxNew)
        /\ n.price \in SeqsUpTo(PriceItems, MaxNew)
        /\ n.semantic \in SeqsUpTo(SemanticItems, MaxNew)
    BY DEF NewItems
  <2>5. f.dontCare \subseteq Facets
    <3>1. f.dontCare \in IrrelevantSets
      BY <1>3 DEF FramesOf
    <3> QED
      BY <3>1, ItemsAssumption
  <2>6. Items(f) \subseteq StructuredItems \cup PriceItems \cup SemanticItems
    BY <2>2, <2>3, <2>4 DEF Items
  <2>7. Formed(f)
    BY <2>2, <2>3, <2>4 DEF Formed
  <2> QED
    BY <1>1, <1>2, <2>5, <2>6, <2>7 DEF Worded, Spoken
<1>4. CASE f \in OddFrames(intent.prefs, intent.version, intent.dontCare)
  <2>1. /\ f.structured = <<>> /\ f.price = <<>>
        /\ \/ f.semantic = <<>>
           \/ \E t \in SemanticItems :
                 f.semantic = <<[t EXCEPT !.source = "inferred", !.commitment = "hard"]>>
        /\ f.dontCare \in {{}, intent.dontCare}
    BY <1>4, OddFrameParts
  <2>2. Formed(f)
    BY <2>1, Sequences DEF Formed
  <2>3. intent.dontCare \subseteq Facets => f.dontCare \subseteq Facets
    BY <2>1
  <2>4. ASSUME NEW item \in Items(f)
        PROVE  /\ item = LogicalKey(item) /\ item.facet \in AnyFacet
               /\ item.commitment \in {"hard", "soft"}
               /\ item.facet \in NumericFacets => item.value \subseteq Int
    <3>1. item \in RangeOf(f.semantic) /\ f.semantic # <<>>
      BY <2>1, <2>4, Elements DEF Items
    <3>2. PICK t \in SemanticItems :
             f.semantic = <<[t EXCEPT !.source = "inferred", !.commitment = "hard"]>>
      BY <2>1, <3>1
    <3>3. item = [t EXCEPT !.source = "inferred", !.commitment = "hard"]
      BY <3>1, <3>2, Elements
    <3>4. /\ t = LogicalKey(t) /\ t.facet \in AnyFacet
          /\ t.facet \in NumericFacets => t.value \subseteq Int
      BY <1>2
    <3>5. t = [field \in LogicalFields |-> t[field]]
      BY <3>4 DEF LogicalKey
    <3>6. DOMAIN item = LogicalFields /\ item = [field \in DOMAIN item |-> item[field]]
          /\ item.facet = t.facet /\ item.value = t.value /\ item.commitment = "hard"
      BY <3>3, <3>5 DEF LogicalFields
    <3> QED
      BY <3>4, <3>6 DEF LogicalKey
  <2> QED
    BY <1>1, <2>2, <2>3, <2>4 DEF Worded, Spoken
<1> QED
  BY <1>1, <1>3, <1>4

----------------------------------------------------------------------------
(* The turns *)

\* The intent is within the rules and older than the turn, and so will be
\* the one an accepted plan leads to.
Understood ==
    /\ turn \in Nat
    /\ ValidIntent(intent.prefs, intent.dontCare)
    /\ \A p \in intent.prefs : p.id \in IdTuples /\ p.id[1] < turn
    /\ Judged /\ plan.error = "none" =>
          /\ ValidIntent(plan.final.prefs, plan.final.dontCare)
          /\ Grown(plan.final.prefs, intent.prefs, turn)

\* What was found and what is shown is eligible, and as much as there is.
Searched ==
    LET left == Cardinality(Mask.eligible)
    IN  /\ stage = "ranking" => /\ found \subseteq Mask.eligible
                                /\ Cardinality(found) >= Fewer(PoolK, left)
        /\ stage = "answered" => /\ shown \subseteq Mask.eligible
                                 /\ Cardinality(shown) = Fewer(TopK, left)

LEMMA UnderstoodInit == TurnInit => Understood
<1> SUFFICES ASSUME TurnInit PROVE Understood
  OBVIOUS
<1>1. intent.prefs = {} /\ intent.dontCare = {} /\ turn = FirstTurn /\ ~Judged
  BY DEF TurnInit, Init, Judged
<1>2. turn \in Nat
  BY <1>1, BoundsAssumption
<1>3. ValidIntent({}, {})
  BY DEF ValidIntent, UniqueIds, UniqueSemantics, CategoricalStateValid,
         OneSelectorEach, CategoricalOn, NumericStateValid, BoundsOn, ActiveFacets
<1> QED
  BY <1>1, <1>2, <1>3 DEF Understood

\* The step that changes the intent: the accepted plan is committed, and
\* what it adds has ids of the turn.
LEMMA UnderstoodCommit ==
    ASSUME Understood, Commit
    PROVE  /\ Understood'
           /\ \A p \in intent'.prefs : p.id \in Ids(intent.prefs) \/ p.id[1] = turn
<1>1. /\ Judged /\ plan.error = "none" /\ intent' = plan.final
      /\ turn' = turn + 1 /\ frame' = NoFrame
  BY DEF Commit, Forget
<1>2. turn \in Nat /\ turn + 1 \in Nat
  BY DEF Understood
<1>3. ASSUME NEW p \in intent'.prefs
      PROVE  /\ p.id \in IdTuples /\ p.id[1] < turn + 1
             /\ p.id \in Ids(intent.prefs) \/ p.id[1] = turn
  <2>1. p.id \in Ids(intent.prefs) \/ (p.id \in IdTuples /\ p.id[1] = turn)
    BY <1>1 DEF Understood, Grown
  <2>2. CASE p.id \in Ids(intent.prefs)
    <3>1. PICK q \in intent.prefs : q.id = p.id
      BY <2>2 DEF Ids
    <3>2. p.id \in IdTuples /\ p.id[1] < turn
      BY <3>1 DEF Understood
    <3>3. p.id[1] \in Int
      BY <3>2 DEF IdTuples
    <3> QED
      BY <1>2, <2>2, <3>2, <3>3
  <2>3. CASE p.id \in IdTuples /\ p.id[1] = turn
    BY <1>2, <2>3
  <2> QED
    BY <2>1, <2>2, <2>3
<1>4. ValidIntent(intent'.prefs, intent'.dontCare)
  BY <1>1 DEF Understood
<1>5. ~Judged'
  BY <1>1 DEF Judged
<1> QED
  BY <1>1, <1>2, <1>3, <1>4, <1>5 DEF Understood

LEMMA UnderstoodNext ==
    ASSUME Understood, [TurnNext]_turnVars
    PROVE  Understood'
<1>1. CASE UNCHANGED vars
  BY <1>1 DEF Understood, vars, Judged
<1>2. CASE Provide
  <2>1. PICK f : Answer(f)
    BY <1>2 DEF Provide
  <2>2. /\ plan' = Materialized(intent, f, turn) /\ intent' = intent /\ turn' = turn
    BY <2>1 DEF Answer
  <2>3. turn \in Nat /\ ValidIntent(intent.prefs, intent.dontCare)
    BY DEF Understood
  <2>4. plan'.error = "none" =>
           /\ ValidIntent(plan'.final.prefs, plan'.final.dontCare)
           /\ Grown(plan'.final.prefs, intent.prefs, turn)
    BY <2>2, <2>3, PlanGrows
  <2> QED
    BY <2>2, <2>4 DEF Understood
<1>3. CASE Malformed
  <2>1. plan'.error = "invalid_frame" /\ intent' = intent /\ turn' = turn
    BY <1>3 DEF Malformed, NoPlan
  <2> QED
    BY <2>1 DEF Understood
<1>4. CASE ProviderFails \/ Repair \/ GiveUp
  <2>1. /\ intent' = intent /\ frame' = NoFrame
        /\ turn' \in {turn, turn + 1}
    BY <1>4 DEF ProviderFails, Asking, Repair, GiveUp, Forget
  <2>2. ~Judged' /\ turn' \in Nat /\ turn' >= turn
    BY <2>1 DEF Judged, Understood
  <2>3. \A p \in intent.prefs : p.id \in IdTuples /\ p.id[1] < turn'
    BY <2>2 DEF Understood, IdTuples
  <2> QED
    BY <2>1, <2>2, <2>3 DEF Understood
<1>5. CASE Commit
  BY <1>5, UnderstoodCommit
<1>6. \/ UNCHANGED vars
      \/ Provide \/ Malformed \/ ProviderFails \/ Repair \/ GiveUp \/ Commit
  BY DEF TurnNext, turnVars, Understand, Resolve, Search, SearchFails, Rank, NextMessage
<1> QED
  BY <1>1, <1>2, <1>3, <1>4, <1>5, <1>6

\* The mask of an understood intent.
LEMMA MaskOfIntent ==
    ASSUME Understood
    PROVE  /\ Masking(OpenTo(intent.prefs), Inclusions(intent.prefs), Mask)
           /\ IsFiniteSet(Mask.eligible) /\ Mask.eligible \subseteq Product
<1>1. Ordered(Inclusions(intent.prefs))
  BY OrderedRequirements DEF Understood
<1>2. Masking(OpenTo(intent.prefs), Inclusions(intent.prefs), Mask)
  BY <1>1, MaskIs DEF Mask
<1>3. Mask.eligible \in SUBSET Product
  BY <1>2 DEF Masking, OpenTo
<1> QED
  BY <1>2, <1>3, CatalogAssumption, FS_Subset

LEMMA SearchedNext ==
    ASSUME Understood, Searched, [TurnNext]_turnVars
    PROVE  Searched'
<1>1. CASE UNCHANGED turnVars
  BY <1>1 DEF Searched, Mask, turnVars, vars
<1>2. CASE Understand \/ Resolve \/ SearchFails \/ NextMessage
  <2>1. stage' \in {"understanding", "searching", "failed"}
    BY <1>2 DEF Understand, Resolve, SearchFails, NextMessage, search
  <2> QED
    BY <2>1 DEF Searched
<1>3. CASE Search
  <2>1. stage' = "ranking" /\ Mask' = Mask
    BY <1>3 DEF Search, Mask, vars
  <2>2. PICK t : found' \in Recalled(intent.prefs, Mask, t)
    BY <1>3 DEF Search
  <2>3. IsFiniteSet(Mask.eligible)
    BY MaskOfIntent
  <2>4. /\ found' \subseteq Mask.eligible
        /\ Cardinality(found') >= Fewer(PoolK, Cardinality(Mask.eligible))
    BY <2>2, <2>3, RecalledIs
  <2> QED
    BY <2>1, <2>4 DEF Searched
<1>4. CASE Rank
  <2>1. stage = "ranking" /\ stage' = "answered" /\ Mask' = Mask
    BY <1>4 DEF Rank, Mask, vars
  <2>2. shown' \in QualitySlates(found) \cup FallbackSlates(found) \cup FormalSlates(found)
    BY <1>4 DEF Rank
  <2>3. /\ IsFiniteSet(Mask.eligible) /\ found \subseteq Mask.eligible
        /\ Cardinality(found) >= Fewer(PoolK, Cardinality(Mask.eligible))
    BY <2>1, MaskOfIntent DEF Searched
  <2>4. /\ shown' \subseteq Mask.eligible
        /\ Cardinality(shown') = Fewer(TopK, Cardinality(Mask.eligible))
    BY <2>2, <2>3, SlateIs
  <2> QED
    BY <2>1, <2>4 DEF Searched
<1> QED
  BY <1>1, <1>2, <1>3, <1>4 DEF TurnNext

\* The accepted plan of a turn that keeps the goal keeps a category.
Planned ==
    /\ Judged /\ plan.error = "none"
    /\ plan.final.goal = intent.goal
    /\ ReservedPreferences(intent.prefs) # {}
    => ReservedPreferences(plan.final.prefs) # {}

LEMMA PlannedInit == TurnInit => Planned
  BY DEF TurnInit, Init, Planned, Judged

LEMMA PlannedNext ==
    ASSUME Planned, [TurnNext]_turnVars PROVE Planned'
<1>1. CASE UNCHANGED vars
  BY <1>1 DEF Planned, vars, Judged
<1>2. CASE Provide
  <2>1. PICK f : Formed(f) /\ Answer(f)
    BY <1>2, ProvidedForm
  <2>2. plan' = Materialized(intent, f, turn) /\ intent' = intent
    BY <2>1 DEF Answer
  <2> QED
    BY <2>1, <2>2, PlanKeeps DEF Planned
<1>3. CASE Malformed
  <2>1. plan'.error = "invalid_frame"
    BY <1>3 DEF Malformed, NoPlan
  <2> QED
    BY <2>1 DEF Planned
<1>4. CASE ProviderFails \/ Repair \/ GiveUp \/ Commit
  <2>1. frame' = NoFrame
    BY <1>4 DEF ProviderFails, Asking, Repair, GiveUp, Commit, Forget
  <2> QED
    BY <2>1 DEF Planned, Judged
<1> QED
  BY <1>1, <1>2, <1>3, <1>4
  DEF TurnNext, turnVars, Understand, Resolve, Search, SearchFails, Rank, NextMessage

LEMMA CategoryStep ==
    ASSUME Planned, [TurnNext]_turnVars
    PROVE  [/\ intent'.goal = intent.goal
            /\ ReservedPreferences(intent.prefs) # {}
            => ReservedPreferences(intent'.prefs) # {}]_vars
<1>1. CASE Commit
  BY <1>1 DEF Commit, Planned
<1>2. CASE intent' = intent
  BY <1>2
<1> QED
  BY <1>1, <1>2
  DEF TurnNext, turnVars, vars, Understand, Resolve, Search, SearchFails, Rank,
      NextMessage, Provide, Answer, Malformed, ProviderFails, Repair, GiveUp

\* The intent is one a session keeps, and the plan of an accepted frame
\* leads to what the frame says.
Framed ==
    /\ turn \in Nat
    /\ Proper(intent)
    /\ Judged /\ plan.error = "none" =>
          /\ Proper(plan.final) /\ Says(plan.final, intent, frame)
          /\ plan.final = intent <=> plan.ops = <<>>

\* No plan is accepted at first.
LEMMA FramedInit == TurnInit => Framed
<1> SUFFICES ASSUME TurnInit PROVE Framed
  OBVIOUS
<1>1. intent.prefs = {} /\ intent.dontCare = {} /\ turn = FirstTurn /\ ~Judged
  BY DEF TurnInit, Init, Judged
<1>2. turn \in Nat
  BY <1>1, BoundsAssumption
<1>3. ValidIntent({}, {})
  BY DEF ValidIntent, UniqueIds, UniqueSemantics, CategoricalStateValid,
         OneSelectorEach, CategoricalOn, NumericStateValid, BoundsOn, ActiveFacets
<1>4. CompleteIntent({}, {})
  BY DEF CompleteIntent, ReservedPreferences, ActiveFacets
<1>5. Proper(intent)
  BY <1>1, <1>3, <1>4, FS_EmptySet DEF Proper, IntentAllowed
<1> QED
  BY <1>1, <1>2, <1>5 DEF Framed

\* Whatever step is taken, the accepted plan is that of its frame.
LEMMA FramedNext ==
    ASSUME Framed, [TurnNext]_turnVars PROVE Framed'
<1>1. CASE UNCHANGED vars
  BY <1>1 DEF Framed, vars, Judged, Says, Proper, IntentAllowed,
              CategoryDropped, Kept, NewGoal
<1>2. CASE Provide
  <2>1. intent.dontCare \subseteq Facets
    BY DEF Framed, Proper, IntentAllowed, ValidIntent
  <2>2. PICK f : Formed(f) /\ Worded(f) /\ Answer(f)
    BY <1>2, <2>1, ProvidedForm
  <2>3. /\ plan' = Materialized(intent, f, turn) /\ intent' = intent /\ frame' = f
        /\ turn' = turn
    BY <2>2 DEF Answer
  <2>4. turn \in Nat /\ Proper(intent)
    BY DEF Framed
  <2>5. plan'.error = "none" =>
           /\ Proper(plan'.final) /\ Says(plan'.final, intent, f)
           /\ plan'.final = intent <=> plan'.ops = <<>>
    BY <2>2, <2>3, <2>4, PlanSays
  <2> QED
    BY <2>3, <2>4, <2>5 DEF Framed, Judged
<1>3. CASE Malformed
  <2>1. plan'.error = "invalid_frame" /\ intent' = intent /\ turn' = turn
    BY <1>3 DEF Malformed, NoPlan
  <2> QED
    BY <2>1 DEF Framed
<1>4. CASE ProviderFails \/ Repair \/ GiveUp
  <2>1. /\ intent' = intent /\ frame' = NoFrame
        /\ turn' \in {turn, turn + 1}
    BY <1>4 DEF ProviderFails, Asking, Repair, GiveUp, Forget
  <2>2. ~Judged' /\ turn' \in Nat
    BY <2>1 DEF Judged, Framed
  <2> QED
    BY <2>1, <2>2 DEF Framed
<1>5. CASE Commit
  <2>1. /\ Judged /\ plan.error = "none" /\ intent' = plan.final
        /\ turn' = turn + 1 /\ frame' = NoFrame
    BY <1>5 DEF Commit, Forget
  <2> QED
    BY <2>1 DEF Framed, Judged
<1>6. \/ UNCHANGED vars
      \/ Provide \/ Malformed \/ ProviderFails \/ Repair \/ GiveUp \/ Commit
  <2>1. UNCHANGED turnVars => UNCHANGED vars
    BY DEF turnVars
  <2>2. TurnNext => \/ UNCHANGED vars
                    \/ Provide \/ Malformed \/ ProviderFails \/ Repair \/ GiveUp \/ Commit
    BY DEF TurnNext, Understand, Resolve, Search, SearchFails, Rank, NextMessage
  <2> QED
    BY <2>1, <2>2
<1> QED
  BY <1>1, <1>2, <1>3, <1>4, <1>5, <1>6

\* The invariant says what the property says.
LEMMA FramedFinal == Framed => FinalIsWhatTheFrameSays
<1> SUFFICES ASSUME Framed, Accepted PROVE FinalIsWhatTheFrameSays
  BY DEF FinalIsWhatTheFrameSays
<1>1. Says(plan.final, intent, frame) /\ (plan.final = intent <=> plan.ops = <<>>)
  BY DEF Framed, Accepted, Judging
<1>2. \A p, item : Expresses(p, item) <=> LogicalKey(p) \in Readings(item)
  BY DEF Expresses, Readings
<1>3. \A p : CategoryBroadened(p) <=>
         /\ LogicalKey(p) = RootCategory \/ p.value = {RootScope}
         /\ CategoryDropped(intent, frame)
  BY DEF CategoryBroadened, CategoryDropped
<1> QED
  BY <1>1, <1>2, <1>3 DEF FinalIsWhatTheFrameSays, Says

----------------------------------------------------------------------------
(* Validity depends on meanings, facet by facet *)

\* Ids and meanings tell the preferences apart.
Distinct(prefs) ==
    \A p, q \in prefs : p.id = q.id \/ LogicalKey(p) = LogicalKey(q) => p = q

\* Two preferences of one facet that say the same kind of thing: there is at
\* most one of a kind.
SameKind(p, q) ==
    /\ p.commitment = q.commitment
    /\ IF p.facet \in NumericFacets THEN Direction(p) = Direction(q)
       ELSE p.facet \in Facets /\ p.op = q.op

\* What the preferences say of facet h can be met.
SoundOn(prefs, h) ==
    /\ \A p \in prefs : p.facet = h => ValidPreference(p)
    /\ \A p, q \in prefs : p.facet = h /\ q.facet = h /\ SameKind(p, q) => p = q
    /\ h \in Facets \ NumericFacets /\ CategoricalOn(prefs, h, PositiveOps) # {}
          => RemainingValues(prefs, h) # {}
    /\ h \in NumericFacets =>
          \A l \in BoundsOn(prefs, h, LowerOps), u \in BoundsOn(prefs, h, UpperOps) :
             ~IntervalEmpty(l, u)

\* Preferences of one meaning agree on everything but the id.
LEMMA KeyFields ==
    ASSUME NEW p, NEW q, LogicalKey(p) = LogicalKey(q)
    PROVE  /\ p.facet = q.facet /\ p.op = q.op /\ p.value = q.value /\ p.text = q.text
           /\ p.commitment = q.commitment /\ p.source = q.source
           /\ p.confidence = q.confidence
<1>1. \A x : /\ LogicalKey(x).facet = x.facet /\ LogicalKey(x).op = x.op
             /\ LogicalKey(x).value = x.value /\ LogicalKey(x).text = x.text
             /\ LogicalKey(x).commitment = x.commitment
             /\ LogicalKey(x).source = x.source
             /\ LogicalKey(x).confidence = x.confidence
  BY DEF LogicalKey, LogicalFields
<1> QED
  BY <1>1, Zenon

\* Preferences of one meaning are valid alike and give the same bound.
LEMMA KeySense ==
    ASSUME NEW p, NEW q, LogicalKey(p) = LogicalKey(q)
    PROVE  /\ ValidPreference(p) <=> ValidPreference(q)
           /\ NumericValue(p) = NumericValue(q) /\ Direction(p) = Direction(q)
<1>1. /\ p.facet = q.facet /\ p.op = q.op /\ p.value = q.value /\ p.text = q.text
      /\ p.commitment = q.commitment /\ p.source = q.source
      /\ p.confidence = q.confidence
  BY KeyFields
<1> QED
  BY <1>1, Zenon DEF ValidPreference, NumericValue, Direction

\* The bounds of valid preferences are numbers.
LEMMA SpokenNumber ==
    ASSUME NEW P, Spoken(P), NEW p \in P, ValidPreference(p), p.facet \in NumericFacets
    PROVE  NumericValue(p) \in Int /\ p.op \in LowerOps \cup UpperOps
<1>1. p.op \in LowerOps \cup UpperOps
  <2>1. p.facet # SemanticOnly
    BY FacetsAssumption
  <2> QED
    BY <2>1 DEF ValidPreference, OperatorsOf
<1>2. p.value \subseteq Int /\ p.value # {}
  <2>1. p.facet # SemanticOnly
    BY FacetsAssumption
  <2> QED
    BY <2>1 DEF Spoken, ValidPreference
<1> QED
  BY <1>1, <1>2 DEF NumericValue

\* Of the bounds of a direction, one for each commitment, none is stronger
\* than the strongest.
LEMMA StrongestOf ==
    ASSUME NEW bounds, bounds # {},
           \A p \in bounds : /\ p.commitment \in {"hard", "soft"}
                             /\ NumericValue(p) \in Int
                             /\ p.op \in LowerOps \cup UpperOps,
           \A p, q \in bounds : Direction(p) = Direction(q),
           \A p, q \in bounds : p.commitment = q.commitment => p = q
    PROVE  /\ Strongest(bounds) \in bounds
           /\ \A q \in bounds : ~StrongerBound(q, Strongest(bounds))
<1>1. ASSUME NEW p \in bounds, NEW q \in bounds, StrongerBound(p, q)
      PROVE  ~StrongerBound(q, p)
  <2>1. NumericValue(p) \in Int /\ NumericValue(q) \in Int
    OBVIOUS
  <2>2. (p.op \in LowerOps) = (q.op \in LowerOps)
    BY DEF Direction, LowerOps, UpperOps
  <2> QED
    BY <1>1, <2>1, <2>2 DEF StrongerBound
<1>2. \E p \in bounds : \A q \in bounds : ~StrongerBound(q, p)
  <2>1. PICK a \in bounds : TRUE
    OBVIOUS
  <2>2. CASE \E q \in bounds : StrongerBound(q, a)
    <3>1. PICK q \in bounds : StrongerBound(q, a)
      BY <2>2
    <3>2. q # a
      BY <1>1, <3>1
    <3>3. \A r \in bounds : r = a \/ r = q
      BY <3>2
    <3>4. ~StrongerBound(a, q) /\ ~StrongerBound(q, q)
      BY <1>1, <3>1
    <3> QED
      BY <3>3, <3>4
  <2> QED
    BY <2>1, <2>2
<1> QED
  BY <1>2, Zenon DEF Strongest

\* Bounds that admit a value with the strongest admit one with all.
LEMMA WeakerMeets ==
    ASSUME NEW l, NEW m, NEW u, NEW v,
           l.op \in LowerOps, m.op \in LowerOps, u.op \in UpperOps, v.op \in UpperOps,
           NumericValue(l) \in Int, NumericValue(m) \in Int,
           NumericValue(u) \in Int, NumericValue(v) \in Int,
           ~StrongerBound(l, m), ~StrongerBound(u, v), ~IntervalEmpty(m, v)
    PROVE  ~IntervalEmpty(l, u)
<1> DEFINE a == NumericValue(l)
           b == NumericValue(m)
           c == NumericValue(u)
           d == NumericValue(v)
<1>1. a < b \/ (a = b /\ (l.op = "ge" \/ m.op = "gt"))
  BY DEF StrongerBound, LowerOps
<1>2. d < c \/ (c = d /\ (u.op = "le" \/ v.op = "lt"))
  BY DEF StrongerBound, LowerOps, UpperOps
<1>3. b <= d /\ (b = d => m.op # "gt" /\ v.op # "lt")
  BY DEF IntervalEmpty
<1>4. a \in Int /\ b \in Int /\ c \in Int /\ d \in Int
  OBVIOUS
<1>5. IntervalEmpty(l, u) <=> a > c \/ (a = c /\ (l.op = "gt" \/ u.op = "lt"))
  BY DEF IntervalEmpty
<1>6. l.op = "ge" => l.op # "gt"
  OBVIOUS
<1>7. u.op = "le" => u.op # "lt"
  OBVIOUS
<1> HIDE DEF a, b, c, d
<1> QED
  BY <1>1, <1>2, <1>3, <1>4, <1>5, <1>6, <1>7

\* The bounds of an intent are some of each direction.
LEMMA BoundsApart ==
    ASSUME NEW P, Spoken(P), \A p \in P : ValidPreference(p), NEW h \in NumericFacets,
           \A p, q \in P : (/\ p.facet = h /\ q.facet = h
                            /\ p.commitment = q.commitment
                            /\ Direction(p) = Direction(q)) => p = q,
           NEW B, B \in {BoundsOn(P, h, LowerOps), BoundsOn(P, h, UpperOps)}, B # {}
    PROVE  /\ Strongest(B) \in B
           /\ \A q \in B : ~StrongerBound(q, Strongest(B))
<1>1. \A p \in B : p \in P /\ p.facet = h
  BY DEF BoundsOn
<1>2. \A p \in B : /\ p.commitment \in {"hard", "soft"}
                   /\ NumericValue(p) \in Int
                   /\ p.op \in LowerOps \cup UpperOps
  BY <1>1, SpokenNumber DEF Spoken
<1>3. \A p, q \in B : Direction(p) = Direction(q)
  BY DEF BoundsOn, Direction, LowerOps, UpperOps
<1>4. \A p, q \in B : p.commitment = q.commitment => p = q
  BY <1>1, <1>3
<1> QED
  BY <1>2, <1>3, <1>4, StrongestOf

\* An intent is valid exactly if each facet is sound.
LEMMA ValidIsSound ==
    ASSUME NEW P, NEW D, Spoken(P), ValidIntent(P, D), NEW h
    PROVE  SoundOn(P, h)
<1>1. \A p \in P : ValidPreference(p)
  BY DEF ValidIntent
<1>2. ASSUME NEW p \in P, NEW q \in P, p.facet = h, q.facet = h, SameKind(p, q)
      PROVE  p = q
  <2>1. CASE h \in NumericFacets
    BY <1>2, <2>1 DEF SameKind, ValidIntent, NumericStateValid
  <2>2. CASE h \notin NumericFacets
    BY <1>2, <2>2 DEF SameKind, ValidIntent, CategoricalStateValid, OneSelectorEach
  <2> QED
    BY <2>1, <2>2
<1>3. h \in Facets \ NumericFacets /\ CategoricalOn(P, h, PositiveOps) # {}
         => RemainingValues(P, h) # {}
  BY DEF ValidIntent, CategoricalStateValid
<1>4. ASSUME h \in NumericFacets, NEW l \in BoundsOn(P, h, LowerOps),
             NEW u \in BoundsOn(P, h, UpperOps)
      PROVE  ~IntervalEmpty(l, u)
  <2> DEFINE L == BoundsOn(P, h, LowerOps)
             U == BoundsOn(P, h, UpperOps)
  <2>1. ~IntervalEmpty(Strongest(L), Strongest(U))
    BY <1>4 DEF ValidIntent, NumericStateValid
  <2>2. \A p, q \in P : (/\ p.facet = h /\ q.facet = h
                         /\ p.commitment = q.commitment
                         /\ Direction(p) = Direction(q)) => p = q
    BY <1>4 DEF ValidIntent, NumericStateValid
  <2>3. Strongest(L) \in L /\ ~StrongerBound(l, Strongest(L))
    BY <1>1, <1>4, <2>2, BoundsApart
  <2>4. Strongest(U) \in U /\ ~StrongerBound(u, Strongest(U))
    BY <1>1, <1>4, <2>2, BoundsApart
  <2>5. \A x \in L : x.op \in LowerOps /\ NumericValue(x) \in Int
    BY <1>1, <1>4, SpokenNumber DEF BoundsOn
  <2>6. \A x \in U : x.op \in UpperOps /\ NumericValue(x) \in Int
    BY <1>1, <1>4, SpokenNumber DEF BoundsOn
  <2>7. l \in L /\ u \in U
    BY <1>4
  <2> HIDE DEF L, U
  <2> QED
    BY <2>1, <2>3, <2>4, <2>5, <2>6, <2>7, WeakerMeets
<1> QED
  BY <1>1, <1>2, <1>3, <1>4 DEF SoundOn

\* What can be met on every facet is valid.
LEMMA SoundIsValid ==
    ASSUME NEW P, NEW D, Spoken(P), Distinct(P), \A h : SoundOn(P, h),
           D \subseteq Facets, \A p \in P : p.facet \notin D
    PROVE  ValidIntent(P, D)
<1>1. \A p \in P : ValidPreference(p)
  BY DEF SoundOn
<1>2. UniqueIds(P) /\ UniqueSemantics(P)
  BY DEF Distinct, UniqueIds, UniqueSemantics
<1>3. \A p, q \in P : p.facet = q.facet /\ SameKind(p, q) => p = q
  BY DEF SoundOn
<1>4. CategoricalStateValid(P)
  <2>1. OneSelectorEach(P)
    BY <1>3 DEF OneSelectorEach, SameKind
  <2> QED
    BY <2>1 DEF CategoricalStateValid, SoundOn
<1>5. NumericStateValid(P)
  <2>1. \A p, q \in P : (/\ p.facet = q.facet /\ p.facet \in NumericFacets
                         /\ p.commitment = q.commitment
                         /\ Direction(p) = Direction(q)) => p = q
    BY <1>3 DEF SameKind
  <2>2. ASSUME NEW h \in NumericFacets, BoundsOn(P, h, LowerOps) # {},
               BoundsOn(P, h, UpperOps) # {}
        PROVE  ~IntervalEmpty(Strongest(BoundsOn(P, h, LowerOps)),
                              Strongest(BoundsOn(P, h, UpperOps)))
    <3>1. \A p, q \in P : (/\ p.facet = h /\ q.facet = h
                           /\ p.commitment = q.commitment
                           /\ Direction(p) = Direction(q)) => p = q
      BY <2>1
    <3>2. Strongest(BoundsOn(P, h, LowerOps)) \in BoundsOn(P, h, LowerOps)
      BY <1>1, <2>2, <3>1, BoundsApart
    <3>3. Strongest(BoundsOn(P, h, UpperOps)) \in BoundsOn(P, h, UpperOps)
      BY <1>1, <2>2, <3>1, BoundsApart
    <3> QED
      BY <3>2, <3>3 DEF SoundOn
  <2> QED
    BY <2>1, <2>2 DEF NumericStateValid
<1>6. ActiveFacets(P) \cap D = {}
  BY DEF ActiveFacets
<1> QED
  BY <1>1, <1>2, <1>4, <1>5, <1>6 DEF ValidIntent

\* What is sound stays sound for some of the same meanings.
LEMMA SoundMoves ==
    ASSUME NEW P, NEW h, SoundOn(P, h), NEW Q, Distinct(Q),
           \A q \in Q : q.facet = h => \E p \in P : LogicalKey(p) = LogicalKey(q)
    PROVE  SoundOn(Q, h)
<1> DEFINE For(q) == CHOOSE p \in P : LogicalKey(p) = LogicalKey(q)
<1>1. \A q \in Q : q.facet = h => For(q) \in P /\ LogicalKey(For(q)) = LogicalKey(q)
  OBVIOUS
<1> HIDE DEF For
<1>2. \A q \in Q : q.facet = h =>
         LET p == For(q)
         IN  /\ p \in P /\ p.facet = h /\ p.op = q.op /\ p.value = q.value
             /\ p.commitment = q.commitment
             /\ ValidPreference(p) <=> ValidPreference(q)
             /\ NumericValue(p) = NumericValue(q) /\ Direction(p) = Direction(q)
  BY <1>1, KeyFields, KeySense
<1>3. \A q \in Q : q.facet = h => ValidPreference(q)
  BY <1>2 DEF SoundOn
<1>4. ASSUME NEW p \in Q, NEW q \in Q, p.facet = h, q.facet = h, SameKind(p, q)
      PROVE  p = q
  <2>1. SameKind(For(p), For(q))
    BY <1>2, <1>4 DEF SameKind
  <2>2. For(p) = For(q)
    BY <1>2, <1>4, <2>1 DEF SoundOn
  <2>3. LogicalKey(p) = LogicalKey(q)
    BY <1>1, <1>4, <2>2
  <2> QED
    BY <2>3 DEF Distinct
<1>5. ASSUME h \in Facets \ NumericFacets, CategoricalOn(Q, h, PositiveOps) # {}
      PROVE  RemainingValues(Q, h) # {}
  <2>1. PICK q \in Q : q.facet = h /\ q.op \in PositiveOps
    BY <1>5 DEF CategoricalOn
  <2>2. For(q) \in CategoricalOn(P, h, PositiveOps)
    BY <1>2, <2>1 DEF CategoricalOn
  <2>3. PICK v : v \in RemainingValues(P, h)
    BY <1>5, <2>2 DEF SoundOn
  <2>4. /\ \A p \in CategoricalOn(P, h, PositiveOps) : v \in p.value
        /\ \A p \in CategoricalOn(P, h, NegativeOps) : v \notin p.value
    BY <2>3 DEF RemainingValues
  <2>5. /\ \A p \in CategoricalOn(Q, h, PositiveOps) : v \in p.value
        /\ \A p \in CategoricalOn(Q, h, NegativeOps) : v \notin p.value
    BY <1>2, <2>4 DEF CategoricalOn
  <2>6. q \in CategoricalOn(Q, h, PositiveOps)
    BY <2>1 DEF CategoricalOn
  <2> QED
    BY <2>5, <2>6 DEF RemainingValues
<1>6. ASSUME h \in NumericFacets, NEW l \in BoundsOn(Q, h, LowerOps),
             NEW u \in BoundsOn(Q, h, UpperOps)
      PROVE  ~IntervalEmpty(l, u)
  <2>1. /\ For(l) \in BoundsOn(P, h, LowerOps) /\ For(u) \in BoundsOn(P, h, UpperOps)
        /\ NumericValue(For(l)) = NumericValue(l) /\ For(l).op = l.op
        /\ NumericValue(For(u)) = NumericValue(u) /\ For(u).op = u.op
    BY <1>2, <1>6 DEF BoundsOn
  <2>2. ~IntervalEmpty(For(l), For(u))
    BY <1>6, <2>1 DEF SoundOn
  <2> QED
    BY <2>1, <2>2, Zenon DEF IntervalEmpty
<1> QED
  BY <1>3, <1>4, <1>5, <1>6 DEF SoundOn

----------------------------------------------------------------------------
(* The target as an intent *)

\* The complete target, its new preferences under some ids of turn t.
Whole(target, t) ==
    target.old \cup {Allocated(target.new[j], t, j, 0) : j \in DOMAIN target.new}

\* An allocated id is the turn, the place and the number.
LEMMA AllocatedId ==
    ASSUME NEW c, NEW t, NEW k, NEW j
    PROVE  Allocated(c, t, k, j).id = <<t, k, j>>
  BY DEF Allocated

\* The whole target says what is kept and what is new.
LEMMA WholeSays ==
    ASSUME NEW i, NEW f, NEW target, Targeted(i, f, target), NEW t
    PROVE  /\ \A p \in Whole(target, t) :
                 p \in target.old \/ LogicalKey(p) \in RangeOf(target.new)
           /\ \A c \in RangeOf(target.new) :
                 \E p \in Whole(target, t) : LogicalKey(p) = c
           /\ target.old \subseteq Whole(target, t)
<1> DEFINE A(j) == Allocated(target.new[j], t, j, 0)
<1>1. \A j \in DOMAIN target.new : LogicalKey(A(j)) = target.new[j]
  <2> SUFFICES ASSUME NEW j \in DOMAIN target.new
               PROVE  LogicalKey(A(j)) = target.new[j]
    OBVIOUS
  <2>1. target.new[j] = LogicalKey(target.new[j])
    BY DEF Targeted, RangeOf
  <2> QED
    BY <2>1, AllocatedKey
<1>2. Whole(target, t) = target.old \cup {A(j) : j \in DOMAIN target.new}
  BY DEF Whole
<1> HIDE DEF A
<1> QED
  BY <1>1, <1>2 DEF RangeOf

\* The preferences of a valid intent are told apart.
LEMMA ValidDistinct ==
    ASSUME NEW P, NEW D, ValidIntent(P, D)
    PROVE  Distinct(P)
  BY DEF Distinct, ValidIntent, UniqueIds, UniqueSemantics

\* A valid target says each new thing once, and nothing it keeps.
LEMMA NewsOnce ==
    ASSUME NEW i, NEW f, NEW target, Targeted(i, f, target), NEW t,
           NEW D, ValidIntent(Whole(target, t), D),
           NEW a \in DOMAIN target.new, NEW b \in DOMAIN target.new,
           target.new[a] = target.new[b]
    PROVE  a = b
<1> DEFINE A(j) == Allocated(target.new[j], t, j, 0)
<1>1. \A j \in DOMAIN target.new : LogicalKey(A(j)) = target.new[j] /\ A(j).id = <<t, j, 0>>
  <2> SUFFICES ASSUME NEW j \in DOMAIN target.new
               PROVE  LogicalKey(A(j)) = target.new[j] /\ A(j).id = <<t, j, 0>>
    OBVIOUS
  <2>1. target.new[j] = LogicalKey(target.new[j])
    BY DEF Targeted, RangeOf
  <2> QED
    BY <2>1, AllocatedKey, AllocatedId
<1>2. \A j \in DOMAIN target.new : A(j) \in Whole(target, t)
  BY DEF Whole
<1> HIDE DEF A
<1>3. A(a).id = A(b).id
  BY <1>1, <1>2, ValidDistinct DEF Distinct
<1>4. <<t, a, 0>> = <<t, b, 0>>
  BY <1>1, <1>3
<1> QED
  BY <1>4

\* Meanings in common keep numbers numbers.
LEMMA SpokenMoves ==
    ASSUME NEW P, Spoken(P), NEW q, LogicalKey(q) \in Keys(P)
    PROVE  Spoken({q})
<1>1. PICK p \in P : LogicalKey(p) = LogicalKey(q)
  BY DEF Keys
<1>2. p.facet = q.facet /\ p.value = q.value /\ p.commitment = q.commitment
  BY <1>1, KeyFields
<1> QED
  BY <1>2 DEF Spoken

\* What is, facet by facet, in one of two valid intents is valid.
LEMMA MixedValid ==
    ASSUME NEW A, Spoken(A), NEW a, ValidIntent(A, a),
           NEW B, Spoken(B), NEW b, ValidIntent(B, b),
           NEW Q, Distinct(Q),
           \A h : \/ \A q \in Q : q.facet = h => LogicalKey(q) \in Keys(A)
                  \/ \A q \in Q : q.facet = h => LogicalKey(q) \in Keys(B),
           NEW D, D \subseteq Facets, \A q \in Q : q.facet \notin D
    PROVE  ValidIntent(Q, D) /\ Spoken(Q)
<1>1. \A q \in Q : LogicalKey(q) \in Keys(A) \/ LogicalKey(q) \in Keys(B)
  OBVIOUS
<1>2. \A q \in Q : Spoken({q})
  BY <1>1, SpokenMoves
<1>3. Spoken(Q)
  BY <1>2 DEF Spoken
<1>4. ASSUME NEW h PROVE SoundOn(Q, h)
  <2>1. SoundOn(A, h) /\ SoundOn(B, h)
    BY ValidIsSound
  <2>2. CASE \A q \in Q : q.facet = h => LogicalKey(q) \in Keys(A)
    BY <2>1, <2>2, SoundMoves DEF Keys
  <2>3. CASE \A q \in Q : q.facet = h => LogicalKey(q) \in Keys(B)
    BY <2>1, <2>3, SoundMoves DEF Keys
  <2> QED
    BY <2>2, <2>3
<1> QED
  BY <1>3, <1>4, SoundIsValid

\* The new things a frame says are spoken as its items are.
LEMMA ReadingSpoken ==
    ASSUME NEW item, item = LogicalKey(item), Spoken({item}), NEW c \in Readings(item)
    PROVE  Spoken({c})
<1>1. item = [field \in LogicalFields |-> item[field]]
  BY DEF LogicalKey
<1>2. /\ "facet" \in LogicalFields /\ "text" \in LogicalFields
      /\ "value" \in LogicalFields /\ "op" \in LogicalFields
      /\ "commitment" \in LogicalFields
  BY DEF LogicalFields
<1>3. CASE c = StructuredOf(item)
  <2> DEFINE text == IF item.facet \in RetrievalDerived THEN item.text ELSE NoText
  <2>1. c = [item EXCEPT !.text = text]
    BY <1>3 DEF StructuredOf
  <2> HIDE DEF text
  <2>2. c.facet = item.facet /\ c.commitment = item.commitment /\ c.value = item.value
    BY <1>1, <1>2, <2>1
  <2> QED
    BY <2>2 DEF Spoken
<1>4. CASE c = SemanticOf(item)
  <2> DEFINE op == IF item.op \in Polarities THEN item.op ELSE PolarityOf(item.op)
  <2>1. c = [item EXCEPT !.facet = SemanticOnly, !.value = {}, !.op = op]
    BY <1>4 DEF SemanticOf
  <2> HIDE DEF op
  <2>2. c.facet = SemanticOnly /\ c.commitment = item.commitment /\ c.value = {}
    BY <1>1, <1>2, <2>1
  <2> QED
    BY <2>2 DEF Spoken
<1> QED
  BY <1>3, <1>4 DEF Readings

\* What says only what a target says is spoken as the intent and the frame.
LEMMA TargetSpoken ==
    ASSUME NEW i, Spoken(i.prefs), NEW f, Worded(f), Spoken(Items(f)),
           NEW target, Targeted(i, f, target), NEW P,
           \A p \in P : p \in target.old \/ LogicalKey(p) \in RangeOf(target.new)
    PROVE  Spoken(P)
<1>1. ASSUME NEW c \in RangeOf(target.new) PROVE Spoken({c}) /\ c = LogicalKey(c)
  <2>1. c = LogicalKey(c)
    BY DEF Targeted
  <2>2. CASE c = RootCategory
    <3>1. c.facet \notin NumericFacets /\ c.commitment \in {"hard", "soft"}
      BY <2>2, FacetsAssumption DEF RootCategory
    <3> QED
      BY <2>1, <3>1 DEF Spoken
  <2>3. CASE \E item \in Items(f) : c \in Readings(item)
    <3>1. PICK item \in Items(f) : c \in Readings(item)
      BY <2>3
    <3>2. item = LogicalKey(item) /\ Spoken({item})
      BY DEF Worded, Spoken
    <3> QED
      BY <2>1, <3>1, <3>2, ReadingSpoken
  <2> QED
    BY <2>2, <2>3 DEF Targeted
<1>2. ASSUME NEW p \in P PROVE Spoken({p})
  <2>1. CASE p \in target.old
    BY <2>1 DEF Targeted, Spoken
  <2>2. CASE LogicalKey(p) \in RangeOf(target.new)
    <3>1. Spoken({LogicalKey(p)}) /\ LogicalKey(p) = LogicalKey(LogicalKey(p))
      BY <1>1, <2>2
    <3>2. LogicalKey(p) \in Keys({LogicalKey(p)})
      BY <3>1 DEF Keys
    <3> QED
      BY <3>1, <3>2, SpokenMoves
  <2> QED
    BY <2>1, <2>2
<1> QED
  BY <1>2 DEF Spoken

----------------------------------------------------------------------------
(* Ids in textual order are sorted into a canonical list *)

\* Sorting the ids as texts puts them in order.
Textual(ids) == \A a, b \in ids : IdLess(a, b) => TextLess(a, b)

\* Sorting ids that sort as texts gives a canonical list of them.
LEMMA SortedIdsOrder ==
    ASSUME NEW S, IsFiniteSet(S), S \subseteq IdTuples, Textual(S)
    PROVE  /\ Cardinality(S) \in Nat /\ DOMAIN SortedIds(S) = 1..Cardinality(S)
           /\ \A i \in DOMAIN SortedIds(S) : SortedIds(S)[i] \in S
           /\ CanonicalIds(SortedIds(S))
<1> DEFINE N == Cardinality(S)
           At(i) == CHOOSE a \in S : Cardinality({b \in S : TextLess(b, a)}) = i - 1
           s == SortedIds(S)
<1>1. N \in Nat
  BY FS_CardinalityType
<1>2. s = [i \in 1..N |-> At(i)]
  BY DEF SortedIds
<1>3. ASSUME NEW i \in 1..N PROVE At(i) \in S /\ TextPlace(S, At(i)) = i - 1
  <2>1. i - 1 \in 0..(N - 1)
    BY <1>1
  <2>2. \E a \in S : Cardinality({b \in S : TextLess(b, a)}) = i - 1
    BY <2>1, EveryTextPlace DEF TextPlace, TextBefore
  <2> QED
    BY <2>2 DEF TextPlace, TextBefore
<1> HIDE DEF At
<1>4. DOMAIN s = 1..N /\ \A i \in 1..N : s[i] \in S /\ TextPlace(S, s[i]) = i - 1
  BY <1>2, <1>3
<1> HIDE DEF s, N
<1>5. ASSUME NEW i \in 1..N, NEW j \in 1..N, i < j PROVE IdLess(s[i], s[j])
  <2>1. s[i] \in S /\ s[j] \in S /\ TextPlace(S, s[i]) < TextPlace(S, s[j])
    BY <1>1, <1>4, <1>5
  <2>2. s[i] # s[j] /\ TextPlace(S, s[i]) \in Int /\ TextPlace(S, s[j]) \in Int
    BY <1>1, <1>4, <2>1
  <2>3. ~TextLess(s[j], s[i])
    <3> SUFFICES ASSUME TextLess(s[j], s[i]) PROVE FALSE
      OBVIOUS
    <3>1. TextPlace(S, s[j]) < TextPlace(S, s[i])
      BY <2>1, TextPlacesGrow
    <3> QED
      BY <2>1, <2>2, <3>1
  <2>4. ~IdLess(s[j], s[i])
    BY <2>1, <2>3 DEF Textual
  <2> QED
    BY <2>1, <2>2, <2>4, IdsInOrder
<1> QED
  BY <1>1, <1>4, <1>5 DEF CanonicalIds, s, N

\* So are the preferences of these ids.
LEMMA SortedPrefsOrder ==
    ASSUME NEW S, Ordered(S), Textual(Ids(S))
    PROVE  /\ Cardinality(S) \in Nat /\ DOMAIN SortedPrefs(S) = 1..Cardinality(S)
           /\ \A i \in DOMAIN SortedPrefs(S) : SortedPrefs(S)[i] \in S
           /\ \A i, j \in DOMAIN SortedPrefs(S) :
                 i < j => IdLess(SortedPrefs(S)[i].id, SortedPrefs(S)[j].id)
<1> DEFINE ids == SortedIds(Ids(S))
           Of(a) == CHOOSE p \in S : p.id = a
           f == [p \in S |-> p.id]
<1>1. IsFiniteSet(S) /\ Ids(S) \subseteq IdTuples
  BY DEF Ids, Ordered
<1>2. f \in Bijection(S, Ids(S))
  <2>1. f \in Surjection(S, Ids(S))
    BY DEF Surjection, Ids
  <2>2. \A p, q \in S : f[p] = f[q] => p = q
    BY DEF Ordered
  <2> HIDE DEF f
  <2> QED
    BY <2>1, <2>2 DEF Bijection, Injection, Surjection, IsInjective
<1> HIDE DEF f
<1>3. IsFiniteSet(Ids(S)) /\ Cardinality(Ids(S)) = Cardinality(S)
  <2>1. ExistsBijection(S, Ids(S))
    BY <1>2 DEF ExistsBijection
  <2> QED
    BY <1>1, <2>1, FS_Bijection
<1>4. /\ Cardinality(S) \in Nat /\ DOMAIN ids = 1..Cardinality(S)
      /\ \A i \in DOMAIN ids : ids[i] \in Ids(S)
      /\ CanonicalIds(ids)
  BY <1>1, <1>3, SortedIdsOrder
<1>5. SortedPrefs(S) = [i \in DOMAIN ids |-> Of(ids[i])]
  BY DEF SortedPrefs
<1>6. \A a \in Ids(S) : Of(a) \in S /\ Of(a).id = a
  BY DEF Ids
<1> HIDE DEF ids, Of
<1> QED
  BY <1>4, <1>5, <1>6 DEF CanonicalIds

\* What is at which place of a replacement.
LEMMA ReplacementPlaces ==
    ASSUME NEW old, Ordered(old), Textual(Ids(old)), NEW new, Listed(new),
           NEW t, NEW k, NEW r, r = Replacement(old, new, t, k)
    PROVE  /\ Cardinality(old) \in Nat /\ Len(new) \in Nat /\ Listed(r)
           /\ DOMAIN r = 1..(Cardinality(old) + Len(new))
           /\ \A n \in 1..Cardinality(old) : r[n] \in old
           /\ \A m, n \in 1..Cardinality(old) : m < n => IdLess(r[m].id, r[n].id)
           /\ \A n \in DOMAIN r : n \notin 1..Cardinality(old) =>
                 /\ n - Cardinality(old) \in DOMAIN new
                 /\ r[n] = Allocated(new[n - Cardinality(old)], t, k, n - 1)
<1> DEFINE C == Cardinality(old)
           made == [j \in DOMAIN new |-> Allocated(new[j], t, k, C + j - 1)]
           sorted == SortedPrefs(old)
<1>1. Listed(sorted)
  BY SortedPrefsList
<1>2. /\ C \in Nat /\ DOMAIN sorted = 1..C
      /\ \A i \in 1..C : sorted[i] \in old
      /\ \A i, j \in 1..C : i < j => IdLess(sorted[i].id, sorted[j].id)
  BY SortedPrefsOrder
<1>3. DOMAIN made = DOMAIN new /\ made = [j \in DOMAIN made |-> made[j]]
  OBVIOUS
<1>4. \A j \in DOMAIN new : made[j] = Allocated(new[j], t, k, C + j - 1)
  OBVIOUS
<1>5. r = sorted \o made
  BY DEF Replacement
<1> HIDE DEF made, sorted, C
<1>6. Listed(made) /\ Len(new) \in Nat /\ DOMAIN new = 1..Len(new)
  BY <1>3, Mapped, Sequences
<1>7. Len(made) = Len(new)
  <2>1. DOMAIN made = 1..Len(made) /\ Len(made) \in Nat
    BY <1>6, Sequences
  <2> QED
    BY <1>3, <1>6, <2>1
<1>8. Len(sorted) = C
  <2>1. DOMAIN sorted = 1..Len(sorted) /\ Len(sorted) \in Nat
    BY <1>1, Sequences
  <2> QED
    BY <1>2, <2>1
<1>9. Listed(r)
  BY <1>1, <1>5, <1>6, Sequences
<1>10. /\ Len(r) = C + Len(new)
       /\ \A n \in 1..(C + Len(new)) : r[n] = IF n <= C THEN sorted[n] ELSE made[n - C]
  <2>1. PICK S : sorted \in Seq(S)
    BY <1>1 DEF Listed
  <2>2. PICK T : made \in Seq(T)
    BY <1>6 DEF Listed
  <2>3. sorted \in Seq(S \cup T) /\ made \in Seq(S \cup T)
    BY <2>1, <2>2
  <2>4. /\ Len(sorted \o made) = Len(sorted) + Len(made)
        /\ \A n \in 1..(Len(sorted) + Len(made)) :
              (sorted \o made)[n] = IF n <= Len(sorted) THEN sorted[n]
                                   ELSE made[n - Len(sorted)]
    BY <2>3, ConcatProperties
  <2> QED
    BY <1>5, <1>7, <1>8, <2>4, Zenon
<1>11. DOMAIN r = 1..(C + Len(new))
  BY <1>9, <1>10, Sequences
<1>12. \A n \in 1..C : r[n] = sorted[n]
  BY <1>2, <1>6, <1>10
<1>13. ASSUME NEW n \in DOMAIN r, n \notin 1..C
       PROVE  n - C \in DOMAIN new /\ r[n] = Allocated(new[n - C], t, k, n - 1)
  <2>1. n - C \in 1..Len(new) /\ ~(n <= C) /\ C + (n - C) - 1 = n - 1
    BY <1>2, <1>6, <1>11, <1>13
  <2>2. r[n] = made[n - C]
    BY <1>10, <1>11, <2>1
  <2>3. made[n - C] = Allocated(new[n - C], t, k, C + (n - C) - 1)
    BY <1>4, <1>6, <2>1
  <2>4. made[n - C] = Allocated(new[n - C], t, k, n - 1)
    BY <2>1, <2>3, Zenon
  <2> QED
    BY <1>6, <2>1, <2>2, <2>4
<1> QED
  BY <1>2, <1>6, <1>9, <1>11, <1>12, <1>13 DEF C

\* The ids of a replacement are in order when the old ones are older.
LEMMA ReplacementOrder ==
    ASSUME NEW old, Ordered(old), Textual(Ids(old)), NEW new, Listed(new),
           NEW t \in Nat, NEW k \in Nat, \A p \in old : p.id[1] < t,
           NEW r, r = Replacement(old, new, t, k)
    PROVE  /\ \A n \in DOMAIN r : r[n].id \in IdTuples
           /\ \A m, n \in DOMAIN r : m < n => IdLess(r[m].id, r[n].id)
<1> DEFINE C == Cardinality(old)
<1>1. /\ C \in Nat /\ Len(new) \in Nat
      /\ DOMAIN r = 1..(C + Len(new))
      /\ \A n \in 1..C : r[n] \in old
      /\ \A m, n \in 1..C : m < n => IdLess(r[m].id, r[n].id)
      /\ \A n \in DOMAIN r : n \notin 1..C =>
            r[n] = Allocated(new[n - C], t, k, n - 1)
  BY ReplacementPlaces
<1> HIDE DEF C
<1>2. \A n \in DOMAIN r : n \in Nat /\ n - 1 \in Nat
  BY <1>1
<1>3. \A n \in DOMAIN r : n \notin 1..C => r[n].id = <<t, k, n - 1>>
  BY <1>1, AllocatedId
<1>4. \A p \in old : p.id \in IdTuples /\ p.id[1] \in Nat
  BY DEF Ordered, IdTuples
<1>5. \A n \in DOMAIN r : r[n].id \in IdTuples
  <2> SUFFICES ASSUME NEW n \in DOMAIN r PROVE r[n].id \in IdTuples
    OBVIOUS
  <2>1. CASE n \in 1..C
    BY <1>1, <1>4, <2>1
  <2>2. CASE n \notin 1..C
    <3>1. r[n].id = <<t, k, n - 1>> /\ n - 1 \in Nat
      BY <1>2, <1>3, <2>2
    <3>2. <<t, k, n - 1>> \in IdTuples
      BY <3>1 DEF IdTuples
    <3> QED
      BY <3>1, <3>2, Zenon
  <2> QED
    BY <2>1, <2>2
<1>6. ASSUME NEW m \in DOMAIN r, NEW n \in DOMAIN r, m < n
      PROVE  IdLess(r[m].id, r[n].id)
  <2>1. CASE n \in 1..C
    BY <1>1, <1>2, <1>6, <2>1
  <2>2. CASE n \notin 1..C /\ m \in 1..C
    <3>1. r[n].id[1] = t /\ r[m].id[1] < t
      BY <1>1, <1>3, <2>2
    <3> QED
      BY <3>1 DEF IdLess
  <2>3. CASE n \notin 1..C /\ m \notin 1..C
    <3>1. r[n].id = <<t, k, n - 1>> /\ r[m].id = <<t, k, m - 1>> /\ m - 1 < n - 1
      BY <1>2, <1>3, <1>6, <2>3
    <3> QED
      BY <3>1 DEF IdLess
  <2> QED
    BY <2>1, <2>2, <2>3
<1> QED
  BY <1>5, <1>6

\* Ids whose three numbers have one digit sort as texts as they do as numbers.
LEMMA OneDigitTextual ==
    ASSUME NEW S, \A a \in S : a[1] \in 0..9 /\ a[2] \in 0..9 /\ a[3] \in 0..9
    PROVE  Textual(S)
<1>1. ASSUME NEW n \in 0..9
      PROVE  /\ Len(Digits[n]) = 1 /\ Digits[n][1] = n
             /\ Len(Word(n)) = 2 /\ Word(n)[1] = n
  <2>1. n \in Nat /\ n < 10
    OBVIOUS
  <2>2. Digits[n] = <<n>>
    BY <2>1, DigitsAre
  <2>3. /\ <<n>> \in Seq(Nat) /\ Len(<<n>>) = 1 /\ <<n>>[1] = n
        /\ Underscore \in Nat
    BY <2>1 DEF Underscore
  <2>4. OneMore(Append(<<n>>, Underscore), <<n>>, Underscore)
    BY <2>3, AppendGrows, Zenon
  <2>5. Word(n) = Append(<<n>>, Underscore)
    BY <2>2, Zenon DEF Word
  <2>6. OneMore(Word(n), <<n>>, Underscore)
    BY <2>4, <2>5, Zenon
  <2> QED
    BY <2>2, <2>3, <2>6 DEF OneMore
<1>2. ASSUME NEW n \in 0..9, NEW m \in 0..9, n < m
      PROVE  StringLess(Word(n), Word(m)) /\ StringLess(Digits[n], Digits[m])
  <2>1. ASSUME NEW s, NEW u, Len(u) \in {1, 2}, s[1] = n, u[1] = m
        PROVE  StringLess(s, u)
    <3>1. 1 \in 1..Len(u) /\ \A j \in 1..(1 - 1) : FALSE
      BY <2>1
    <3>2. s[1] < u[1]
      BY <1>2, <2>1
    <3> QED
      BY <3>1, <3>2 DEF StringLess
  <2>2. /\ Len(Digits[m]) = 1 /\ Digits[m][1] = m /\ Digits[n][1] = n
        /\ Len(Word(m)) = 2 /\ Word(m)[1] = m /\ Word(n)[1] = n
    BY <1>1
  <2>3. Len(Digits[m]) \in {1, 2} /\ Len(Word(m)) \in {1, 2}
    BY <2>2
  <2>4. StringLess(Word(n), Word(m))
    BY <2>1, <2>2, <2>3
  <2>5. StringLess(Digits[n], Digits[m])
    BY <2>1, <2>2, <2>3
  <2> QED
    BY <2>4, <2>5
<1>3. ASSUME NEW a \in S, NEW b \in S, IdLess(a, b) PROVE TextLess(a, b)
  BY <1>2, <1>3 DEF IdLess, TextLess
<1> QED
  BY <1>3 DEF Textual

----------------------------------------------------------------------------
(* A reduction goes on operation by operation *)

\* A list and one more element.
OneLonger(u, list, o) ==
    /\ Listed(u) /\ Len(list) \in Nat /\ Len(u) = Len(list) + 1
    /\ DOMAIN list = 1..Len(list) /\ DOMAIN u = 1..(Len(list) + 1)
    /\ \A n \in 1..Len(list) : u[n] = list[n]
    /\ u[Len(list) + 1] = o

\* Concatenation adds one element at the end.
LEMMA ListGrows ==
    ASSUME NEW list, Listed(list), NEW o, NEW u, u = list \o <<o>>
    PROVE  OneLonger(u, list, o)
<1>1. PICK S : list \in Seq(S)
  BY DEF Listed
<1>2. list \in Seq(S \cup {o}) /\ <<o>> \in Seq(S \cup {o}) /\ Len(<<o>>) = 1 /\ <<o>>[1] = o
  BY <1>1
<1>3. /\ u \in Seq(S \cup {o}) /\ Len(u) = Len(list) + 1
      /\ \A n \in 1..(Len(list) + 1) :
            u[n] = IF n <= Len(list) THEN list[n] ELSE <<o>>[n - Len(list)]
  <2>1. /\ list \o <<o>> \in Seq(S \cup {o})
        /\ Len(list \o <<o>>) = Len(list) + Len(<<o>>)
        /\ \A n \in 1..(Len(list) + Len(<<o>>)) :
              (list \o <<o>>)[n] = IF n <= Len(list) THEN list[n] ELSE <<o>>[n - Len(list)]
    BY <1>2, ConcatProperties
  <2> QED
    BY <1>2, <2>1, Zenon
<1>4. Len(list) \in Nat /\ DOMAIN list = 1..Len(list)
  BY Sequences
<1>5. Listed(u)
  BY <1>3 DEF Listed
<1>6. DOMAIN u = 1..(Len(list) + 1)
  BY <1>3, <1>5, Sequences
<1>7. \A n \in 1..Len(list) : u[n] = list[n]
  BY <1>3, <1>4
<1>8. u[Len(list) + 1] = o
  <2>1. /\ Len(list) + 1 \in 1..(Len(list) + 1) /\ ~(Len(list) + 1 <= Len(list))
        /\ (Len(list) + 1) - Len(list) = 1
    BY <1>4
  <2> QED
    BY <1>2, <1>3, <2>1
<1> QED
  BY <1>3, <1>4, <1>5, <1>6, <1>7, <1>8 DEF OneLonger

\* Without operations nothing changes.
LEMMA ReductionNone ==
    ASSUME NEW base, NEW t
    PROVE  Reduction(base, <<>>, t) = Start(base)
<1> DEFINE f == CHOOSE g : Reduces(g, base, <<>>, t, Len(<<>>))
<1>1. Len(<<>>) = 0
  OBVIOUS
<1>2. Reduces(f, base, <<>>, t, Len(<<>>)) /\ Reduction(base, <<>>, t) = f[Len(<<>>)]
  BY <1>1, ReductionUnfolds
<1> HIDE DEF f
<1>3. f[0] = Start(base)
  BY <1>1, <1>2 DEF Reduces
<1> QED
  BY <1>1, <1>2, <1>3

\* One more operation continues the reduction.
LEMMA ReductionOne ==
    ASSUME NEW base, NEW list, Listed(list), NEW o, NEW u, u = list \o <<o>>, NEW t
    PROVE  Reduction(base, u, t)
              = Continued(Reduction(base, list, t), base.prefs, o, t, Len(list))
<1> DEFINE N == Len(list)
           f == CHOOSE h : Reduces(h, base, list, t, Len(list))
           g == CHOOSE h : Reduces(h, base, u, t, Len(u))
<1>1. /\ N \in Nat /\ Len(u) = N + 1 /\ \A n \in 1..N : u[n] = list[n]
      /\ u[N + 1] = o
  <2>1. OneLonger(u, list, o)
    BY ListGrows
  <2> QED
    BY <2>1 DEF OneLonger
<1>2. Reduces(f, base, list, t, N) /\ Reduction(base, list, t) = f[N]
  BY <1>1, ReductionUnfolds
<1>3. Reduces(g, base, u, t, N + 1) /\ Reduction(base, u, t) = g[N + 1]
  <2>1. Len(u) \in Nat
    BY <1>1
  <2>2. Reduces(g, base, u, t, Len(u)) /\ Reduction(base, u, t) = g[Len(u)]
    BY <2>1, ReductionUnfolds
  <2> QED
    BY <1>1, <2>2, Zenon
<1> HIDE DEF f, g, N
<1> DEFINE Same == {n \in Nat : n <= N => f[n] = g[n]}
<1>4. 0 \in Same
  BY <1>1, <1>2, <1>3 DEF Reduces
<1>5. ASSUME NEW n \in Nat, n \in Same PROVE n + 1 \in Same
  <2> SUFFICES ASSUME n + 1 <= N PROVE f[n + 1] = g[n + 1]
    OBVIOUS
  <2>1. /\ n + 1 \in 0..N /\ n + 1 \in 0..(N + 1) /\ n + 1 \in 1..N
        /\ n + 1 # 0 /\ (n + 1) - 1 = n /\ n <= N
    BY <1>1
  <2>2. f[n] = g[n] /\ u[n + 1] = list[n + 1]
    BY <1>1, <1>5, <2>1
  <2>3. f[n + 1] = Continued(f[n], base.prefs, list[n + 1], t, n)
    BY <1>2, <2>1 DEF Reduces
  <2>4. g[n + 1] = Continued(g[n], base.prefs, u[n + 1], t, n)
    BY <1>3, <2>1 DEF Reduces
  <2> QED
    BY <2>2, <2>3, <2>4
<1>6. f[N] = g[N]
  <2>1. N \in Same
    <3> HIDE DEF Same
    <3> QED
      BY <1>1, <1>4, <1>5, SetInduction
  <2> QED
    BY <1>1, <2>1
<1>7. g[N + 1] = Continued(g[N], base.prefs, u[N + 1], t, N)
  <2>1. N + 1 \in 0..(N + 1) /\ N + 1 # 0 /\ (N + 1) - 1 = N
    BY <1>1
  <2> QED
    BY <1>3, <2>1 DEF Reduces
<1>8. Reduction(base, u, t) = Continued(Reduction(base, list, t), base.prefs, o, t, N)
  BY <1>1, <1>2, <1>3, <1>6, <1>7
<1> QED
  BY <1>8 DEF N

\* The identity table holds what the intent started with, and new
\* preferences with the ids of the first k operations and these meanings.
Dated(s, i, t, k, meanings) ==
    \A e \in s.known :
        \/ e \in i.prefs
        \/ /\ e.id \in IdTuples /\ e.id[1] = t /\ e.id[2] < k
           /\ LogicalKey(e) \in meanings

\* The n-th operation respects the category of intent i; z operations switch
\* the goal.
Lawful(o, n, z, i, t) ==
    /\ (o.op = "switch") = (n <= z)
    /\ o.op = "switch" => RangeOf(o.carry) \subseteq Ids(i.prefs)
    /\ o.op = "add" => o.pref.facet # Category
    /\ o.op = "remove" => RangeOf(o.ids) \subseteq Ids(On(i.prefs, SemanticOnly))
    /\ o.op = "dont_care" => o.facet # Category
    /\ o.op = "clear" /\ o.facet = Category => o = Clear(Category)
    /\ o.op = "replace" /\ o.facet = Category =>
          /\ n = z + 1 /\ Len(o.prefs) = 1 /\ ReservedValid(o.prefs[1])
          /\ o.prefs[1] \in i.prefs \/ o.prefs[1].id[1] = t

\* A list of lawful operations that reduces without error.
Carries(list, meanings, z, i, t) ==
    /\ Listed(list)
    /\ \A n \in DOMAIN list : OperationValid(list[n]) /\ Lawful(list[n], n, z, i, t)
    /\ Reduction(i, list, t).ok
    /\ Dated(Reduction(i, list, t), i, t, Len(list), meanings)

\* An empty list is carried out.
LEMMA CarriesNone ==
    ASSUME NEW meanings, NEW z, NEW i, NEW t
    PROVE  Carries(<<>>, meanings, z, i, t)
<1>1. Listed(<<>>) /\ DOMAIN <<>> = {}
  BY Sequences
<1>2. Reduction(i, <<>>, t).ok /\ Reduction(i, <<>>, t).known = i.prefs
  BY ReductionNone DEF Start
<1> QED
  BY <1>1, <1>2 DEF Carries, Dated

\* What an operation may introduce at place k.
Introduces(o, i, t, k, meanings) ==
    \A p \in Introduced(o) :
        \/ p \in i.prefs
        \/ p.id \in IdTuples /\ p.id[1] = t /\ p.id[2] = k /\ LogicalKey(p) \in meanings

\* A list is carried out with one more operation that is permitted.
LEMMA CarriesOne ==
    ASSUME NEW list, NEW meanings, NEW z, NEW i, NEW t, Carries(list, meanings, z, i, t),
           NEW o, OperationValid(o), Lawful(o, Len(list) + 1, z, i, t),
           NEW s, s = Reduction(i, list, t),
           Permitted(s.work, s.known, i.prefs, o, t, Len(list)),
           NEW w, w = Applied(s.work, i.prefs, o), ValidIntent(w.prefs, w.dontCare),
           NEW more, meanings \subseteq more, Introduces(o, i, t, Len(list), more)
    PROVE  Carries(list \o <<o>>, more, z, i, t)
<1> DEFINE u == list \o <<o>>
           N == Len(list)
           r == Reduction(i, u, t)
<1>1. /\ Listed(u) /\ N \in Nat /\ Len(u) = N + 1
      /\ DOMAIN list = 1..N /\ DOMAIN u = 1..(N + 1)
      /\ \A n \in 1..N : u[n] = list[n]
      /\ u[N + 1] = o
  <2>1. Listed(list) /\ u = list \o <<o>>
    BY DEF Carries
  <2> HIDE DEF u
  <2>2. OneLonger(u, list, o)
    BY <2>1, ListGrows
  <2> QED
    BY <2>1, <2>2 DEF OneLonger
<1>2. r = Continued(s, i.prefs, o, t, N)
  <2>1. Listed(list)
    BY DEF Carries
  <2>2. Reduction(i, u, t) = Continued(Reduction(i, list, t), i.prefs, o, t, Len(list))
    BY <2>1, ReductionOne
  <2> QED
    BY <2>2, Zenon
<1>3. s.ok /\ Dated(s, i, t, N, meanings)
  BY DEF Carries
<1> HIDE DEF u, N, r
<1>4. r.ok /\ r.known = s.known \cup Introduced(o)
  BY <1>2, <1>3 DEF Continued, Step, N
<1>5. \A n \in DOMAIN u : OperationValid(u[n]) /\ Lawful(u[n], n, z, i, t)
  <2> SUFFICES ASSUME NEW n \in 1..(N + 1)
               PROVE  OperationValid(u[n]) /\ Lawful(u[n], n, z, i, t)
    BY <1>1
  <2>1. CASE n \in 1..N
    BY <1>1, <2>1 DEF Carries
  <2>2. CASE n \notin 1..N
    <3>1. n = N + 1
      BY <1>1, <2>2
    <3> QED
      BY <1>1, <3>1 DEF N
  <2> QED
    BY <2>1, <2>2
<1>6. Dated(r, i, t, N + 1, more)
  <2> SUFFICES ASSUME NEW e \in r.known, e \notin i.prefs
               PROVE  /\ e.id \in IdTuples /\ e.id[1] = t /\ e.id[2] < N + 1
                      /\ LogicalKey(e) \in more
    BY DEF Dated
  <2>1. CASE e \in s.known
    <3>1. /\ e.id \in IdTuples /\ e.id[1] = t /\ e.id[2] < N
          /\ LogicalKey(e) \in meanings
      BY <1>3, <2>1 DEF Dated
    <3>2. e.id[2] \in Nat
      BY <3>1 DEF IdTuples
    <3> QED
      BY <1>1, <3>1, <3>2
  <2>2. CASE e \in Introduced(o)
    <3>1. e.id \in IdTuples /\ e.id[1] = t /\ e.id[2] = N /\ LogicalKey(e) \in more
      BY <2>2 DEF Introduces, N
    <3> QED
      BY <1>1, <3>1
  <2> QED
    BY <1>4, <2>1, <2>2
<1> QED
  BY <1>1, <1>4, <1>5, <1>6 DEF Carries, u, r

----------------------------------------------------------------------------
(* The replacements of a plan *)

\* A list without duplicates.
Once(s) == \A a, b \in DOMAIN s : s[a] = s[b] => a = b

\* Picking from a list without duplicates makes none.
LEMMA OnlyOnce ==
    ASSUME NEW s, NEW S, Listed(s), Once(s)
    PROVE  Once(Only(s, S))
<1> DEFINE N == Len(s)
           c == CHOOSE chosen : Picks(chosen, s, S)
           First(k) == {s[j] : j \in 1..k}
           Good == {k \in Nat : k <= N => /\ Listed(c[k]) /\ Once(c[k])
                                          /\ RangeOf(c[k]) \subseteq First(k)}
<1>1. N \in Nat /\ DOMAIN s = 1..N
  BY Sequences
<1>2. Only(s, S) = c[N]
  BY Zenon DEF Only, Picks
<1>3. Picks(c, s, S)
  <2>1. \E f : Picks(f, s, S)
    BY PicksExist
  <2> QED
    BY <2>1, Zenon
<1> HIDE DEF c
<1>4. 0 \in Good
  <2>1. c[0] = <<>>
    BY <1>1, <1>3 DEF Picks
  <2>2. Listed(c[0]) /\ RangeOf(c[0]) = {}
    BY <2>1, Elements, Sequences, Zenon
  <2>3. Once(<<>>)
    BY DEF Once
  <2>4. Once(c[0])
    BY <2>1, <2>3, Zenon
  <2> QED
    BY <2>2, <2>4
<1>5. ASSUME NEW k \in Nat, k \in Good PROVE k + 1 \in Good
  <2> SUFFICES ASSUME k + 1 <= N
               PROVE  /\ Listed(c[k + 1]) /\ Once(c[k + 1])
                      /\ RangeOf(c[k + 1]) \subseteq First(k + 1)
    OBVIOUS
  <2> DEFINE x == s[k + 1]
             d == c[k]
  <2>1. /\ k + 1 \in 0..N /\ k + 1 # 0 /\ (k + 1) - 1 = k /\ k + 1 \in DOMAIN s
        /\ Listed(d) /\ Once(d) /\ RangeOf(d) \subseteq First(k)
    BY <1>1, <1>5
  <2>2. c[k + 1] = IF x \in S THEN Append(d, x) ELSE d
    BY <1>3, <2>1 DEF Picks
  <2>3. First(k) \subseteq First(k + 1) /\ x \in First(k + 1)
    BY <1>1
  <2>4. x \notin First(k)
    <3> SUFFICES ASSUME NEW j \in 1..k, s[j] = x PROVE FALSE
      OBVIOUS
    <3>1. j \in DOMAIN s /\ j # k + 1
      BY <1>1, <2>1
    <3> QED
      BY <2>1, <3>1 DEF Once
  <2> HIDE DEF First, x, d
  <2>5. CASE x \in S
    <3> DEFINE e == Append(d, x)
    <3>1. Listed(e) /\ RangeOf(e) = RangeOf(d) \cup {x}
      BY <2>1, Elements, Sequences
    <3>2. Len(d) \in Nat /\ DOMAIN d = 1..Len(d)
      BY <2>1, Sequences
    <3>3. PICK T : d \in Seq(T)
      BY <2>1 DEF Listed
    <3>4. d \in Seq(T \cup {x}) /\ x \in T \cup {x}
      BY <3>3
    <3>5. /\ DOMAIN e = 1..(Len(d) + 1)
          /\ \A n \in 1..Len(d) : e[n] = d[n]
          /\ e[Len(d) + 1] = x
      BY <3>2, <3>4, AppendProperties
    <3> HIDE DEF e
    <3>6. \A n \in 1..Len(d) : e[n] \in RangeOf(d)
      BY <3>2, <3>5 DEF RangeOf
    <3>7. x \notin RangeOf(d)
      BY <2>1, <2>4
    <3>8. Once(e)
      <4> SUFFICES ASSUME NEW a \in DOMAIN e, NEW b \in DOMAIN e, e[a] = e[b]
                   PROVE  a = b
        BY DEF Once
      <4>1. CASE a \in 1..Len(d) /\ b \in 1..Len(d)
        BY <2>1, <3>2, <3>5, <4>1 DEF Once
      <4>2. CASE ~(a \in 1..Len(d) /\ b \in 1..Len(d))
        <5>1. a = Len(d) + 1 \/ a \in 1..Len(d)
          BY <3>2, <3>5
        <5>2. b = Len(d) + 1 \/ b \in 1..Len(d)
          BY <3>2, <3>5
        <5> QED
          BY <3>5, <3>6, <3>7, <4>2, <5>1, <5>2
      <4> QED
        BY <4>1, <4>2
    <3>9. c[k + 1] = e
      BY <2>2, <2>5 DEF e
    <3> QED
      BY <2>1, <2>3, <3>1, <3>8, <3>9
  <2>6. CASE x \notin S
    BY <2>1, <2>2, <2>3, <2>6
  <2> QED
    BY <2>5, <2>6
<1>6. N \in Good
  <2> HIDE DEF Good
  <2> QED
    BY <1>1, <1>4, <1>5, SetInduction
<1> QED
  BY <1>1, <1>2, <1>6

\* No facet comes twice in the order.
LEMMA FacetsOnce == Once(FacetOrder)
<1> DEFINE N == Len(FacetOrder)
<1>1. /\ N \in Nat /\ DOMAIN FacetOrder = 1..N /\ FacetOrder \in [1..N -> Facets]
      /\ N = Cardinality(Facets)
  BY FacetOrderLength, PlannerAssumption
<1>2. \A h \in Facets : \E j \in 1..N : FacetOrder[j] = h
  BY <1>1, PlannerAssumption DEF RangeOf
<1> HIDE DEF N
<1>3. FacetOrder \in Surjection(1..N, Facets)
  BY <1>1, <1>2 DEF Surjection
<1>4. IsFiniteSet(1..N) /\ Cardinality(1..N) = N
  BY <1>1, FS_Interval
<1>5. FacetOrder \in Injection(1..N, Facets)
  BY <1>1, <1>3, <1>4, FS_SurjSameCardinalityImpliesInj
<1> QED
  BY <1>1, <1>5 DEF Injection, IsInjective, Once

\* A frame whose target is an intent of the release, for an intent whose ids
\* are older than the turn and sorted as texts as well.
Setting(i, f, target, t) ==
    /\ Proper(i) /\ Targeted(i, f, target)
    /\ t \in Nat
    /\ Textual(Ids(i.prefs)) /\ \A p \in i.prefs : p.id[1] < t
    /\ Spoken(i.prefs) /\ Spoken(Whole(target, t))
    /\ ValidIntent(Whole(target, t), DesiredDontCare(f, target))
    /\ CompleteIntent(Whole(target, t), DesiredDontCare(f, target))

\* What is, facet by facet, what the intent or the target says is valid.
LEMMA SettingValid ==
    ASSUME NEW i, NEW f, NEW target, NEW t, Setting(i, f, target, t),
           NEW Q, Distinct(Q),
           \A h : \/ \A q \in Q : q.facet = h =>
                        LogicalKey(q) \in Keys(target.old) \cup RangeOf(target.new)
                  \/ \A q \in Q : q.facet = h => LogicalKey(q) \in Keys(i.prefs),
           NEW D, D \subseteq Facets, \A q \in Q : q.facet \notin D
    PROVE  ValidIntent(Q, D)
<1> DEFINE T == Whole(target, t)
<1>1. Keys(target.old) \cup RangeOf(target.new) \subseteq Keys(T)
  <2>1. /\ \A c \in RangeOf(target.new) : \E p \in T : LogicalKey(p) = c
        /\ target.old \subseteq T
    BY WholeSays DEF Setting
  <2> QED
    BY <2>1 DEF Keys
<1>2. /\ Spoken(T) /\ Spoken(i.prefs)
      /\ ValidIntent(T, DesiredDontCare(f, target))
      /\ ValidIntent(i.prefs, i.dontCare)
  BY DEF Setting, Proper, IntentAllowed
<1> HIDE DEF T
<1>3. \A h : \/ \A q \in Q : q.facet = h => LogicalKey(q) \in Keys(T)
             \/ \A q \in Q : q.facet = h => LogicalKey(q) \in Keys(i.prefs)
  BY <1>1
<1> QED
  BY <1>2, <1>3, MixedValid

\* r lists, in order of their ids, old preferences of facet h and new ones.
Fitted(r, old, new, h, t, k) ==
    /\ Listed(r) /\ DOMAIN r = 1..Len(r) /\ Distinct(RangeOf(r))
    /\ \A p \in RangeOf(r) : p.facet = h /\ p.id \in IdTuples
    /\ \A a, b \in DOMAIN r : a < b => IdLess(r[a].id, r[b].id)
    /\ \A n \in DOMAIN r :
          \/ r[n] \in old
          \/ r[n].id = <<t, k, n - 1>> /\ LogicalKey(r[n]) \in RangeOf(new)
    /\ \A n \in DOMAIN r : \A a \in DOMAIN r :
          LogicalKey(r[n]) = LogicalKey(r[a]) => n = a

\* A facet's replacement is a valid one, of old preferences and of new ones
\* with ids of its place.
LEMMA ReplacementFits ==
    ASSUME NEW i, NEW f, NEW target, NEW t, Setting(i, f, target, t),
           NEW h \in Facets, NEW old, old = On(target.old, h),
           NEW new, new = Only(target.new, On(RangeOf(target.new), h)),
           NEW k \in Nat, NEW r, r = Replacement(old, new, t, k)
    PROVE  Fitted(r, old, new, h, t, k)
<1> DEFINE C == Cardinality(old)
<1>1. /\ Ordered(old) /\ \A p \in old : p.facet = h
      /\ Listed(new) /\ RangeOf(new) = On(RangeOf(target.new), h)
      /\ \A c \in RangeOf(new) : c = LogicalKey(c) /\ c.facet = h
  BY RoundParts DEF Setting
<1>2. old \subseteq i.prefs
  BY DEF On, Setting, Targeted
<1>3. Textual(Ids(old)) /\ \A p \in old : p.id[1] < t
  BY <1>2 DEF Setting, Textual, Ids
<1>4. t \in Nat /\ Proper(i) /\ Targeted(i, f, target)
  BY DEF Setting
<1>5. Distinct(i.prefs) /\ Distinct(old)
  <2>1. Distinct(i.prefs)
    BY <1>4, ValidDistinct DEF Proper, IntentAllowed
  <2> QED
    BY <1>2, <2>1 DEF Distinct
<1>6. Once(new)
  <2>1. Once(target.new)
    BY <1>4, NewsOnce DEF Setting, Once
  <2> QED
    BY <1>4, <2>1, OnlyOnce DEF Targeted
<1>7. \A c \in RangeOf(new) : c \notin Keys(old)
  BY <1>1, <1>2, <1>4 DEF Targeted, Keys, On
<1>8. /\ C \in Nat /\ Len(new) \in Nat /\ Listed(r)
      /\ DOMAIN r = 1..(C + Len(new))
      /\ \A n \in 1..C : r[n] \in old
      /\ \A n \in DOMAIN r : n \notin 1..C =>
            /\ n - C \in DOMAIN new
            /\ r[n] = Allocated(new[n - C], t, k, n - 1)
  BY <1>1, <1>3, ReplacementPlaces
<1>9. /\ \A n \in DOMAIN r : r[n].id \in IdTuples
      /\ \A a, b \in DOMAIN r : a < b => IdLess(r[a].id, r[b].id)
  BY <1>1, <1>3, <1>4, ReplacementOrder
<1> HIDE DEF C
<1>10. \A n \in DOMAIN r : n \notin 1..C =>
          /\ n - C \in DOMAIN new /\ r[n].id = <<t, k, n - 1>>
          /\ LogicalKey(r[n]) = new[n - C] /\ LogicalKey(r[n]) \in RangeOf(new)
          /\ r[n].facet = h
  <2> SUFFICES ASSUME NEW n \in DOMAIN r, n \notin 1..C
               PROVE  /\ n - C \in DOMAIN new /\ r[n].id = <<t, k, n - 1>>
                      /\ LogicalKey(r[n]) = new[n - C] /\ LogicalKey(r[n]) \in RangeOf(new)
                      /\ r[n].facet = h
    OBVIOUS
  <2> DEFINE c == new[n - C]
  <2>1. n - C \in DOMAIN new /\ r[n] = Allocated(c, t, k, n - 1)
    BY <1>8
  <2>2. c \in RangeOf(new)
    BY <2>1 DEF RangeOf
  <2> HIDE DEF c
  <2>3. c = LogicalKey(c) /\ c.facet = h
    BY <1>1, <2>2
  <2>4. LogicalKey(r[n]) = c /\ r[n].facet = c.facet
    BY <2>1, <2>3, AllocatedKey
  <2>5. r[n].id = <<t, k, n - 1>>
    BY <2>1, AllocatedId
  <2> QED
    BY <2>1, <2>2, <2>3, <2>4, <2>5 DEF c
<1>11. \A n \in DOMAIN r : n \in Nat
  BY <1>8
<1>12. ASSUME NEW n \in DOMAIN r, NEW a \in DOMAIN r, r[n].id = r[a].id
       PROVE  n = a
  <2>1. ~(n < a) /\ ~(a < n)
    <3>1. ~IdLess(r[n].id, r[n].id)
      BY <1>9, IdsInOrder
    <3> QED
      BY <1>9, <1>12, <3>1
  <2> QED
    BY <1>11, <2>1
<1>13. ASSUME NEW n \in DOMAIN r, NEW a \in DOMAIN r, LogicalKey(r[n]) = LogicalKey(r[a])
       PROVE  n = a
  <2>1. CASE n \in 1..C /\ a \in 1..C
    <3>1. r[n] = r[a]
      BY <1>5, <1>8, <1>13, <2>1 DEF Distinct
    <3> QED
      BY <1>12, <3>1
  <2>2. CASE n \in 1..C /\ a \notin 1..C
    <3>1. LogicalKey(r[n]) \in Keys(old) /\ LogicalKey(r[a]) \in RangeOf(new)
      BY <1>8, <1>10, <2>2 DEF Keys
    <3> QED
      BY <1>7, <1>13, <3>1
  <2>3. CASE n \notin 1..C /\ a \in 1..C
    <3>1. LogicalKey(r[a]) \in Keys(old) /\ LogicalKey(r[n]) \in RangeOf(new)
      BY <1>8, <1>10, <2>3 DEF Keys
    <3> QED
      BY <1>7, <1>13, <3>1
  <2>4. CASE n \notin 1..C /\ a \notin 1..C
    <3>1. n - C = a - C
      BY <1>6, <1>10, <1>13, <2>4 DEF Once
    <3> QED
      BY <1>8, <1>11, <3>1
  <2> QED
    BY <2>1, <2>2, <2>3, <2>4
<1>14. Distinct(RangeOf(r))
  BY <1>12, <1>13 DEF Distinct, RangeOf
<1>15. \A p \in RangeOf(r) : p.facet = h /\ p.id \in IdTuples
  BY <1>1, <1>8, <1>9, <1>10 DEF RangeOf
<1>16. \A n \in DOMAIN r :
          \/ r[n] \in old
          \/ r[n].id = <<t, k, n - 1>> /\ LogicalKey(r[n]) \in RangeOf(new)
  BY <1>8, <1>10
<1>17. DOMAIN r = 1..Len(r)
  BY <1>8, Sequences
<1> QED
  BY <1>8, <1>9, <1>13, <1>14, <1>15, <1>16, <1>17 DEF Fitted

----------------------------------------------------------------------------
(* Every round of such a frame is carried out *)

\* The new things the first m facets say.
News(target, m) ==
    {c \in RangeOf(target.new) : \E j \in 1..m : c.facet = FacetOrder[j]}

\* The baseline lies between what is kept and what there was.
LEMMA BaselineWithin ==
    ASSUME NEW i, NEW f, NEW target, Targeted(i, f, target)
    PROVE  /\ target.old \subseteq BaselinePrefs(i, f, target.old)
           /\ BaselinePrefs(i, f, target.old) \subseteq i.prefs
  BY DEF BaselinePrefs, Targeted

\* On the way from the intent to the target every state is valid.
LEMMA ReachedValid ==
    ASSUME NEW i, NEW f, NEW target, NEW t, Setting(i, f, target, t),
           NEW m, NEW w, Reached(w, m, i, f, target),
           Distinct(w.prefs), w.dontCare \subseteq Facets
    PROVE  ValidIntent(w.prefs, w.dontCare)
<1> DEFINE O == target.old
           B == BaselinePrefs(i, f, target.old)
           news == RangeOf(target.new)
<1>1. O \subseteq B /\ B \subseteq i.prefs
  BY BaselineWithin DEF Setting
<1>2. ValidIntent(i.prefs, i.dontCare)
  BY DEF Setting, Proper, IntentAllowed
<1>3. ASSUME NEW h
      PROVE  \/ \A q \in w.prefs : q.facet = h => LogicalKey(q) \in Keys(O) \cup news
             \/ \A q \in w.prefs : q.facet = h => LogicalKey(q) \in Keys(i.prefs)
  <2>1. CASE h \in Facets /\ AimedOn(w, f, target, h)
    <3>1. \A q \in On(w.prefs, h) : q \in On(O, h) \/ LogicalKey(q) \in On(news, h)
      BY <2>1 DEF AimedOn, AimedAt
    <3> QED
      BY <3>1 DEF On, Keys
  <2>2. CASE On(w.prefs, h) = On(B, h)
    BY <1>1, <2>2 DEF On, Keys
  <2> QED
    BY <2>1, <2>2 DEF Reached, UntouchedOn
<1>4. ASSUME NEW q \in w.prefs, q.facet \in w.dontCare PROVE FALSE
  <2> DEFINE h == q.facet
  <2>1. h \in Facets /\ q \in On(w.prefs, h)
    BY <1>4 DEF On
  <2> HIDE DEF h
  <2>2. h # SemanticOnly
    BY <2>1, FacetsAssumption
  <2>3. CASE AimedOn(w, f, target, h)
    <3>1. h \in DesiredDontCare(f, target)
      BY <1>4, <2>3 DEF AimedOn, h
    <3>2. On(O, h) = {} /\ On(news, h) = {}
      <4>1. \A p \in O \cup news : p.facet # h
        BY <2>2, <3>1 DEF DesiredDontCare, ActiveFacets
      <4> QED
        BY <4>1 DEF On
    <3>3. q \in On(O, h) \/ LogicalKey(q) \in On(news, h)
      BY <2>1, <2>3 DEF AimedOn, AimedAt
    <3> QED
      BY <3>2, <3>3
  <2>4. CASE UntouchedOn(w, i, f, target, h)
    <3>1. h \in BaselineDontCare(i, f) /\ q \in On(B, h)
      BY <1>4, <2>1, <2>4 DEF UntouchedOn, h
    <3>2. h \in i.dontCare /\ q \in i.prefs /\ q.facet = h
      BY <1>1, <3>1 DEF BaselineDontCare, On
    <3> QED
      BY <1>2, <2>2, <3>2 DEF ValidIntent, ActiveFacets
  <2> QED
    BY <2>1, <2>3, <2>4 DEF Reached
<1> HIDE DEF O, B, news
<1>5. \A h : \/ \A q \in w.prefs : q.facet = h =>
                    LogicalKey(q) \in Keys(target.old) \cup RangeOf(target.new)
             \/ \A q \in w.prefs : q.facet = h => LogicalKey(q) \in Keys(i.prefs)
  BY <1>3 DEF O, news
<1> QED
  BY <1>4, <1>5, SettingValid

\* The category of the target is one scope of the release.
LEMMA CategoryReplacement ==
    ASSUME NEW i, NEW f, NEW target, NEW t, Setting(i, f, target, t),
           NEW r, Listed(r), r # <<>>,
           \A p \in RangeOf(r) :
              /\ p.facet = Category
              /\ LogicalKey(p) \in Keys(target.old) \cup RangeOf(target.new),
           \A n \in DOMAIN r : \A a \in DOMAIN r :
              LogicalKey(r[n]) = LogicalKey(r[a]) => n = a
    PROVE  Len(r) = 1 /\ ReservedValid(r[1])
<1> DEFINE T == Whole(target, t)
<1>1. \A p \in RangeOf(r) : \E q \in T : LogicalKey(q) = LogicalKey(p)
  <2>1. /\ \A c \in RangeOf(target.new) : \E p \in T : LogicalKey(p) = c
        /\ target.old \subseteq T
    BY WholeSays DEF Setting
  <2> QED
    BY <2>1 DEF Keys
<1>2. /\ \A p, q \in ReservedPreferences(T) : p = q
      /\ \A p \in ReservedPreferences(T) : ReservedValid(p)
  BY DEF Setting, CompleteIntent
<1> HIDE DEF T
<1>3. \A p \in RangeOf(r) :
         \E q \in ReservedPreferences(T) : LogicalKey(q) = LogicalKey(p)
  BY <1>1, KeyFields DEF ReservedPreferences
<1>4. \A p, q \in RangeOf(r) : LogicalKey(p) = LogicalKey(q)
  BY <1>2, <1>3
<1>5. Len(r) \in Nat /\ DOMAIN r = 1..Len(r)
  BY Sequences
<1>6. \A n, a \in DOMAIN r : n = a
  BY <1>4 DEF RangeOf
<1>7. Len(r) # 0
  BY <1>5, Elements DEF RangeOf
<1>8. Len(r) = 1
  <2>1. 1 \in DOMAIN r /\ Len(r) \in DOMAIN r
    BY <1>5, <1>7
  <2> QED
    BY <1>6, <2>1
<1>9. r[1] \in RangeOf(r)
  BY <1>5, <1>8 DEF RangeOf
<1>10. PICK q \in ReservedPreferences(T) : LogicalKey(q) = LogicalKey(r[1])
  BY <1>3, <1>9
<1>11. ReservedValid(q)
  BY <1>2
<1>12. q.facet = r[1].facet /\ q.op = r[1].op /\ q.value = r[1].value
  BY <1>10, KeyFields
<1> QED
  BY <1>8, <1>11, <1>12 DEF ReservedValid

\* A list is a tuple of its elements.
LEMMA TupleOf ==
    ASSUME NEW r, Listed(r)
    PROVE  IsTuple(r)
<1>1. PICK S : r \in Seq(S)
  BY DEF Listed
<1>2. Len(r) \in Nat /\ r \in [1..Len(r) -> S] /\ DOMAIN r = 1..Len(r)
  BY <1>1
<1>3. r \in [1..Len(r) -> RangeOf(r)]
  BY <1>2 DEF RangeOf
<1>4. r \in Seq(RangeOf(r))
  BY <1>2, <1>3
<1> QED
  BY <1>4 DEF IsTuple

\* The list r may replace facet h at place k of a reduction in state s.
Replacing(h, r, i, s, t, k, meanings) ==
    /\ OperationValid(Replace(h, r))
    /\ Permitted(s.work, s.known, i.prefs, Replace(h, r), t, k)
    /\ Introduces(Replace(h, r), i, t, k, meanings)
    /\ Distinct(OffFacet(s.work.prefs, h) \cup RangeOf(r))
    /\ h = Category =>
          /\ Len(r) = 1 /\ ReservedValid(r[1])
          /\ r[1] \in i.prefs \/ r[1].id[1] = t

\* The replacement of a facet is valid and may be made.
LEMMA ReplaceFits ==
    ASSUME NEW i, NEW f, NEW target, NEW t, Setting(i, f, target, t),
           NEW m \in Nat, m + 1 \in DOMAIN FacetOrder,
           NEW h \in Facets, h = FacetOrder[m + 1],
           NEW old, old = On(target.old, h),
           NEW new, new = Only(target.new, On(RangeOf(target.new), h)),
           NEW k \in Nat, NEW r, r = Replacement(old, new, t, k), r # <<>>,
           NEW s, Kempt(s, i, t), Dated(s, i, t, k, News(target, m)),
           \A p \in old : p \in s.work.prefs
    PROVE  Replacing(h, r, i, s, t, k, News(target, m + 1))
<1> DEFINE o == Replace(h, r)
           w == s.work
<1>1. o.op = "replace" /\ o.facet = h /\ o.prefs = r
  BY DEF Replace
<1>2. /\ Listed(r) /\ DOMAIN r = 1..Len(r) /\ Distinct(RangeOf(r))
      /\ \A p \in RangeOf(r) : p.facet = h /\ p.id \in IdTuples
      /\ \A a, b \in DOMAIN r : a < b => IdLess(r[a].id, r[b].id)
      /\ \A n \in DOMAIN r :
            \/ r[n] \in old
            \/ r[n].id = <<t, k, n - 1>> /\ LogicalKey(r[n]) \in RangeOf(new)
      /\ \A n \in DOMAIN r : \A a \in DOMAIN r :
            LogicalKey(r[n]) = LogicalKey(r[a]) => n = a
  <2>1. Fitted(r, old, new, h, t, k)
    BY ReplacementFits
  <2> QED
    BY <2>1 DEF Fitted
<1>18. \A n \in DOMAIN r : r[n] \in RangeOf(r)
  BY DEF RangeOf
<1>3. /\ t \in Nat /\ Proper(i) /\ Targeted(i, f, target)
      /\ \A p \in i.prefs : p.id \in IdTuples /\ p.id[1] < t
  BY DEF Setting, Proper
<1>4. /\ RangeOf(new) = On(RangeOf(target.new), h)
      /\ \A c \in RangeOf(new) : c.facet = h
  BY <1>3, RoundParts
<1>5. old \subseteq i.prefs /\ old \subseteq target.old
  BY <1>3 DEF On, Targeted
<1>6. \A c \in RangeOf(new) : /\ c \in RangeOf(target.new) /\ c \notin Keys(i.prefs)
                              /\ c \in News(target, m + 1) /\ c \notin News(target, m)
  <2> SUFFICES ASSUME NEW c \in RangeOf(new)
               PROVE  /\ c \in RangeOf(target.new) /\ c \notin Keys(i.prefs)
                      /\ c \in News(target, m + 1) /\ c \notin News(target, m)
    OBVIOUS
  <2>1. c \in RangeOf(target.new) /\ c.facet = h
    BY <1>4 DEF On
  <2>2. c \notin Keys(i.prefs)
    BY <1>3, <2>1 DEF Targeted
  <2>3. c \in News(target, m + 1)
    BY <2>1 DEF News
  <2>4. \A j \in 1..m : FacetOrder[j] # h
    <3> SUFFICES ASSUME NEW j \in 1..m, FacetOrder[j] = h PROVE FALSE
      OBVIOUS
    <3>1. DOMAIN FacetOrder = 1..Len(FacetOrder) /\ Len(FacetOrder) \in Nat
      BY FacetOrderLength, PlannerAssumption
    <3>2. j \in DOMAIN FacetOrder /\ j # m + 1
      BY <3>1
    <3> QED
      BY <3>2, FacetsOnce DEF Once
  <2>5. c \notin News(target, m)
    BY <2>1, <2>4 DEF News
  <2> QED
    BY <2>1, <2>2, <2>3, <2>5
<1>7. \A e \in s.known : e \in i.prefs \/ (e.id[2] < k /\ LogicalKey(e) \in News(target, m))
  BY DEF Dated
<1>8. /\ i.prefs \subseteq s.known /\ w.prefs \subseteq s.known /\ OneMeaning(s.known)
      /\ ValidIntent(w.prefs, w.dontCare)
  BY DEF Kempt, Reduced
<1> HIDE DEF o, w
<1>9. \A c \in RangeOf(new), e \in s.known : LogicalKey(e) # c
  <2> SUFFICES ASSUME NEW c \in RangeOf(new), NEW e \in s.known PROVE LogicalKey(e) # c
    OBVIOUS
  <2>1. CASE e \in i.prefs
    BY <1>6, <2>1 DEF Keys
  <2>2. CASE LogicalKey(e) \in News(target, m)
    BY <1>6, <2>2
  <2> QED
    BY <1>7, <2>1, <2>2
<1>10. \A e \in s.known : \A x : e.id # <<t, k, x>>
  <2> SUFFICES ASSUME NEW e \in s.known, NEW x, e.id = <<t, k, x>> PROVE FALSE
    OBVIOUS
  <2>1. e.id[1] = t /\ e.id[2] = k
    OBVIOUS
  <2> QED
    BY <1>3, <1>7, <2>1
<1>11. r \in Seq(RangeOf(r))
  BY <1>2, TupleOf DEF IsTuple
<1>19. ASSUME NEW n \in DOMAIN r
       PROVE  r[n] \in target.old \/ LogicalKey(r[n]) \in RangeOf(target.new)
  <2>1. r[n] \in old \/ LogicalKey(r[n]) \in RangeOf(new)
    BY <1>2
  <2> QED
    BY <1>5, <1>6, <2>1
<1>12. ReplacementValid(o)
  <2>1. CanonicalIds([n \in DOMAIN r |-> r[n].id])
    BY <1>2 DEF CanonicalIds
  <2>2. \A p \in RangeOf(r) : LogicalKey(p) \in Keys(target.old) \cup RangeOf(target.new)
    <3> SUFFICES ASSUME NEW n \in DOMAIN r
                 PROVE  LogicalKey(r[n]) \in Keys(target.old) \cup RangeOf(target.new)
      BY DEF RangeOf
    <3>1. r[n] \in target.old \/ LogicalKey(r[n]) \in RangeOf(target.new)
      BY <1>19
    <3> QED
      BY <3>1 DEF Keys
  <2>3. ValidIntent(RangeOf(r), {})
    BY <1>2, <2>2, SettingValid
  <2>4. IsTuple(r)
    BY <1>11 DEF IsTuple
  <2> QED
    BY <1>1, <1>2, <2>1, <2>3, <2>4 DEF ReplacementValid
<1>13. OperationValid(o)
  BY <1>1, <1>12 DEF OperationValid
<1>14. Permitted(w, s.known, i.prefs, o, t, k)
  <2> SUFFICES ASSUME NEW n \in DOMAIN r
               PROVE  Resolvable(r[n], w.prefs, s.known \cup {r[j] : j \in 1..(n - 1)},
                                 t, k, n - 1)
    BY <1>1 DEF Permitted
  <2>1. CASE r[n] \in old
    <3>1. r[n] \in s.known /\ r[n] \in w.prefs
      BY <1>5, <1>8, <2>1 DEF w
    <3> QED
      BY <3>1 DEF Resolvable
  <2>2. CASE r[n].id = <<t, k, n - 1>> /\ LogicalKey(r[n]) \in RangeOf(new)
    <3>1. \A e \in s.known : e.id # r[n].id /\ LogicalKey(e) # LogicalKey(r[n])
      BY <1>9, <1>10, <2>2
    <3>2. ASSUME NEW j \in 1..(n - 1)
          PROVE  r[j].id # r[n].id /\ LogicalKey(r[j]) # LogicalKey(r[n])
      <4>1. j \in DOMAIN r /\ j < n /\ j # n
        BY <1>2
      <4>2. IdLess(r[j].id, r[n].id) /\ r[n].id \in IdTuples
        BY <1>2, <1>18, <4>1
      <4>3. r[j].id # r[n].id
        BY <4>2, IdsInOrder
      <4> QED
        BY <1>2, <4>1, <4>3
    <3> QED
      BY <2>2, <3>1, <3>2 DEF Resolvable
  <2> QED
    BY <1>2, <2>1, <2>2
<1>15. Introduces(o, i, t, k, News(target, m + 1))
  <2> SUFFICES ASSUME NEW n \in DOMAIN r, r[n] \notin i.prefs
               PROVE  /\ r[n].id \in IdTuples /\ r[n].id[1] = t /\ r[n].id[2] = k
                      /\ LogicalKey(r[n]) \in News(target, m + 1)
    BY <1>1 DEF Introduces, Introduced, RangeOf
  <2>1. r[n].id = <<t, k, n - 1>> /\ LogicalKey(r[n]) \in RangeOf(new)
    BY <1>2, <1>5
  <2>2. r[n].id \in IdTuples
    BY <1>2, <1>18
  <2> QED
    BY <1>6, <2>1, <2>2
<1>16. Distinct(OffFacet(w.prefs, h) \cup RangeOf(r))
  <2>1. Distinct(w.prefs)
    BY <1>8, ValidDistinct
  <2>2. ASSUME NEW p \in OffFacet(w.prefs, h), NEW q \in RangeOf(r)
        PROVE  p.id # q.id /\ LogicalKey(p) # LogicalKey(q)
    <3>1. p \in w.prefs /\ p.facet # h /\ q.facet = h
      BY <1>2 DEF OffFacet
    <3>2. LogicalKey(p) # LogicalKey(q)
      BY <3>1, KeyFields
    <3>3. PICK n \in DOMAIN r : q = r[n]
      BY DEF RangeOf
    <3>4. CASE q \in old
      <4>1. p \in s.known /\ q \in s.known
        BY <1>5, <1>8, <3>1, <3>4
      <4> QED
        BY <1>8, <3>2, <4>1 DEF OneMeaning
    <3>5. CASE q.id = <<t, k, n - 1>>
      BY <1>8, <1>10, <3>1, <3>2, <3>5
    <3> QED
      BY <1>2, <3>3, <3>4, <3>5
  <2>3. OffFacet(w.prefs, h) \subseteq w.prefs
    BY DEF OffFacet
  <2>4. Distinct(OffFacet(w.prefs, h))
    BY <2>1, <2>3 DEF Distinct
  <2> QED
    BY <1>2, <2>2, <2>4 DEF Distinct
<1>17. ASSUME h = Category
       PROVE  /\ Len(r) = 1 /\ ReservedValid(r[1])
              /\ r[1] \in i.prefs \/ r[1].id[1] = t
  <2>1. \A p \in RangeOf(r) :
           /\ p.facet = Category
           /\ LogicalKey(p) \in Keys(target.old) \cup RangeOf(target.new)
    <3> SUFFICES ASSUME NEW n \in DOMAIN r
                 PROVE  /\ r[n].facet = Category
                        /\ LogicalKey(r[n]) \in Keys(target.old) \cup RangeOf(target.new)
      BY DEF RangeOf
    <3>1. r[n] \in target.old \/ LogicalKey(r[n]) \in RangeOf(target.new)
      BY <1>19
    <3>2. r[n].facet = Category
      <4>1. \A p \in RangeOf(r) : p.facet = h
        BY <1>2, Zenon
      <4>2. r[n] \in RangeOf(r)
        BY DEF RangeOf
      <4> QED
        BY <1>17, <4>1, <4>2
    <3> QED
      BY <3>1, <3>2 DEF Keys
  <2>2. Len(r) = 1 /\ ReservedValid(r[1])
    BY <1>2, <2>1, CategoryReplacement
  <2>3. 1 \in DOMAIN r
    BY <1>2, <2>2
  <2>4. r[1] \in old \/ r[1].id = <<t, k, 1 - 1>>
    BY <1>2, <2>3
  <2>5. r[1].id = <<t, k, 1 - 1>> => r[1].id[1] = t
    OBVIOUS
  <2> QED
    BY <1>5, <2>2, <2>4, <2>5
<1> QED
  BY <1>13, <1>14, <1>15, <1>16, <1>17 DEF o, w, Replacing

\* A lawful list has its states, which are within the rules.
LEMMA CarriesRun ==
    ASSUME NEW i, Proper(i), NEW t \in Nat, NEW list, NEW meanings, NEW z,
           Carries(list, meanings, z, i, t)
    PROVE  /\ \E g : Run(g, i, list, t) /\ Reduction(i, list, t) = g[Len(list)]
           /\ Kempt(Reduction(i, list, t), i, t)
<1>1. /\ Listed(list) /\ \A n \in DOMAIN list : OperationValid(list[n])
      /\ Reduction(i, list, t).ok
  BY DEF Carries
<1>2. /\ ValidIntent(i.prefs, i.dontCare) /\ IsFiniteSet(i.prefs)
      /\ \A p \in i.prefs : p.id \in IdTuples
  BY DEF Proper, IntentAllowed
<1>3. PICK g : Run(g, i, list, t) /\ Reduction(i, list, t) = g[Len(list)]
  BY <1>1, <1>2, RunExists
<1>4. Len(list) \in 0..Len(list)
  BY <1>1, Sequences
<1>5. Kempt(g[Len(list)], i, t)
  BY <1>3, <1>4 DEF Run
<1> QED
  BY <1>3, <1>5

\* What operations on facet h make of an intent.
OneFacetApplied(w, pre, h, r) ==
    /\ Applied(w, pre, Replace(h, r)).prefs = OffFacet(w.prefs, h) \cup RangeOf(r)
    /\ Applied(w, pre, Replace(h, r)).dontCare = w.dontCare \ {h}
    /\ Applied(w, pre, Clear(h)).prefs = OffFacet(w.prefs, h)
    /\ Applied(w, pre, Clear(h)).dontCare = w.dontCare \ {h}
    /\ Applied(w, pre, DontCare(h)).prefs = OffFacet(w.prefs, h)
    /\ Applied(w, pre, DontCare(h)).dontCare = (w.dontCare \ {h}) \cup {h}

\* The operations on one facet leave the others alone.
LEMMA FacetParts ==
    ASSUME NEW w, Shaped(w), NEW pre, NEW h, NEW r
    PROVE  OneFacetApplied(w, pre, h, r)
<1>1. ClearFacet(w, h) = [goal |-> w.goal, prefs |-> OffFacet(w.prefs, h),
                          dontCare |-> w.dontCare \ {h}]
  BY PartsReplaced DEF ClearFacet
<1>2. Applied(w, pre, Clear(h)) = ClearFacet(w, h)
  BY DEF Clear, Applied
<1>3. Applied(w, pre, DontCare(h)) = SetDontCare(w, h)
  BY DEF DontCare, Applied
<1>4. SetDontCare(w, h) = [goal |-> w.goal, prefs |-> OffFacet(w.prefs, h),
                           dontCare |-> (w.dontCare \ {h}) \cup {h}]
  <2>1. \A G, P, D, v : v = [goal |-> G, prefs |-> P, dontCare |-> D]
            => [v EXCEPT !.dontCare = @ \cup {h}]
               = [goal |-> G, prefs |-> P, dontCare |-> D \cup {h}]
    OBVIOUS
  <2> QED
    BY <1>1, <2>1 DEF SetDontCare
<1>5. Applied(w, pre, Replace(h, r)) = ReplaceFacet(w, h, r)
  BY DEF Replace, Applied
<1>6. ReplaceFacet(w, h, r) = [goal |-> w.goal, prefs |-> OffFacet(w.prefs, h) \cup RangeOf(r),
                               dontCare |-> w.dontCare \ {h}]
  BY PartsReplaced DEF ReplaceFacet
<1>7. /\ ClearFacet(w, h).prefs = OffFacet(w.prefs, h)
      /\ ClearFacet(w, h).dontCare = w.dontCare \ {h}
  BY <1>1
<1>8. /\ SetDontCare(w, h).prefs = OffFacet(w.prefs, h)
      /\ SetDontCare(w, h).dontCare = (w.dontCare \ {h}) \cup {h}
  BY <1>4
<1>9. /\ ReplaceFacet(w, h, r).prefs = OffFacet(w.prefs, h) \cup RangeOf(r)
      /\ ReplaceFacet(w, h, r).dontCare = w.dontCare \ {h}
  BY <1>6
<1> QED
  BY <1>2, <1>3, <1>5, <1>7, <1>8, <1>9 DEF OneFacetApplied

\* The goal switch carries what stays.
LEMMA SwitchCarried ==
    ASSUME NEW i, NEW f, NEW target, NEW t, Setting(i, f, target, t),
           NEW s, s = SwitchOperation(i, f, target.old)
    PROVE  Carries(s, News(target, 0), Len(s), i, t)
<1> DEFINE O == target.old
           carry == SortedIds(Ids(O))
           op == Switch(NewGoal(i, f), carry)
<1>1. O \subseteq i.prefs /\ Proper(i)
  BY DEF Setting, Targeted
<1>2. CASE ~GoalChanged(i, f)
  <2>1. s = <<>>
    BY <1>2 DEF SwitchOperation
  <2> QED
    BY <2>1, CarriesNone
<1>3. CASE GoalChanged(i, f)
  <2>1. s = <<op>> /\ Len(s) = 1 /\ s = <<>> \o <<op>> /\ Len(<<>>) = 0
    BY <1>3 DEF SwitchOperation
  <2>2. IsFiniteSet(Ids(O)) /\ Ids(O) \subseteq IdTuples /\ Textual(Ids(O))
    <3> HIDE DEF O
    <3>1. IsFiniteSet(Ids(O)) /\ Ids(O) \subseteq IdTuples
      BY <1>1, ProperParts
    <3>2. Textual(Ids(O))
      BY <1>1 DEF Setting, Textual, Ids
    <3> QED
      BY <3>1, <3>2
  <2>3. RangeOf(carry) = Ids(O) /\ CanonicalIds(carry)
    <3> HIDE DEF O
    <3> QED
      BY <2>2, SortedIdsList, SortedIdsOrder
  <2>4. op.op = "switch" /\ op.goal = NewGoal(i, f) /\ op.carry = carry
    BY DEF Switch
  <2> HIDE DEF op, carry
  <2>5. Ids(O) \subseteq Ids(i.prefs)
    BY <1>1 DEF Ids
  <2> HIDE DEF O
  <2>6. OperationValid(op)
    BY <2>3, <2>4 DEF OperationValid
  <2>7. Lawful(op, 1, 1, i, t)
    BY <2>3, <2>4, <2>5 DEF Lawful
  <2> DEFINE b == Reduction(i, <<>>, t)
             w == Applied(b.work, i.prefs, op)
  <2>8. Permitted(b.work, b.known, i.prefs, op, t, 0)
    BY <2>3, <2>4, <2>5 DEF Permitted
  <2>9. w = SwitchGoal(i.prefs, op.goal, op.carry)
    BY <2>4 DEF Applied
  <2>10. w.prefs \subseteq i.prefs /\ w.dontCare = {}
    BY <2>9 DEF SwitchGoal
  <2> HIDE DEF b, w
  <2>11. ValidIntent(w.prefs, w.dontCare)
    <3>1. Distinct(w.prefs)
      <4>1. Distinct(i.prefs)
        BY <1>1, ValidDistinct DEF Proper, IntentAllowed
      <4> QED
        BY <2>10, <4>1 DEF Distinct
    <3>2. \A q \in w.prefs : LogicalKey(q) \in Keys(i.prefs) /\ q.facet \notin w.dontCare
      BY <2>10 DEF Keys
    <3>3. w.dontCare \subseteq Facets
      BY <2>10
    <3> QED
      BY <3>1, <3>2, <3>3, SettingValid
  <2>12. Introduces(op, i, t, 0, News(target, 0))
    BY <2>4 DEF Introduces, Introduced
  <2>13. Carries(<<>>, News(target, 0), 1, i, t)
    BY CarriesNone
  <2>14. Carries(<<>> \o <<op>>, News(target, 0), 1, i, t)
    <3>1. Len(<<>>) = 0 /\ Len(<<>>) + 1 = 1
      OBVIOUS
    <3>2. Lawful(op, Len(<<>>) + 1, 1, i, t)
      BY <2>7, <3>1, Zenon
    <3>3. Permitted(b.work, b.known, i.prefs, op, t, Len(<<>>))
      BY <2>8, <3>1, Zenon
    <3>4. Introduces(op, i, t, Len(<<>>), News(target, 0))
      BY <2>12, <3>1, Zenon
    <3>5. b = Reduction(i, <<>>, t) /\ w = Applied(b.work, i.prefs, op)
      BY DEF b, w
    <3> QED
      BY <2>6, <2>11, <2>13, <3>2, <3>3, <3>4, <3>5, CarriesOne
  <2> QED
    BY <2>1, <2>14, Zenon
<1> QED
  BY <1>2, <1>3

\* An operation on facet h is lawful after the goal switch.
LEMMA RoundLawful ==
    ASSUME NEW h, NEW k \in Nat, NEW z \in Nat, z <= k, NEW i, NEW t
    PROVE  /\ Lawful(Clear(h), k + 1, z, i, t)
           /\ h # Category => Lawful(DontCare(h), k + 1, z, i, t)
           /\ \A r : (h = Category => /\ k = z /\ Len(r) = 1 /\ ReservedValid(r[1])
                                      /\ r[1] \in i.prefs \/ r[1].id[1] = t)
                  => Lawful(Replace(h, r), k + 1, z, i, t)
<1>1. ~(k + 1 <= z) /\ (k = z => k + 1 = z + 1)
  OBVIOUS
<1>2. Lawful(Clear(h), k + 1, z, i, t)
  <2>1. Clear(h).op = "clear" /\ Clear(h).facet = h
    BY DEF Clear
  <2> QED
    BY <1>1, <2>1 DEF Lawful
<1>3. h # Category => Lawful(DontCare(h), k + 1, z, i, t)
  <2>1. DontCare(h).op = "dont_care" /\ DontCare(h).facet = h
    BY DEF DontCare
  <2> QED
    BY <1>1, <2>1 DEF Lawful
<1>4. ASSUME NEW r, h = Category => /\ k = z /\ Len(r) = 1 /\ ReservedValid(r[1])
                                    /\ r[1] \in i.prefs \/ r[1].id[1] = t
      PROVE  Lawful(Replace(h, r), k + 1, z, i, t)
  <2>1. Replace(h, r).op = "replace" /\ Replace(h, r).facet = h /\ Replace(h, r).prefs = r
    BY DEF Replace
  <2> QED
    BY <1>1, <1>4, <2>1 DEF Lawful
<1> QED
  BY <1>2, <1>3, <1>4

\* The meanings of a list may be taken to be more.
LEMMA CarriesMore ==
    ASSUME NEW list, NEW meanings, NEW more, meanings \subseteq more, NEW z, NEW i, NEW t,
           Carries(list, meanings, z, i, t)
    PROVE  Carries(list, more, z, i, t) /\ list \o <<>> = list
<1>1. Carries(list, more, z, i, t)
  BY DEF Carries, Dated
<1>2. PICK S : list \in Seq(S)
  BY DEF Carries, Listed
<1>3. list \o <<>> = list
  BY <1>2, ConcatEmptySeq
<1> QED
  BY <1>1, <1>3

\* Operation op may follow the k operations that led to state s.
Follows(op, i, s, t, k, z, meanings) ==
    /\ OperationValid(op)
    /\ Lawful(op, k + 1, z, i, t)
    /\ Permitted(s.work, s.known, i.prefs, op, t, k)
    /\ Introduces(op, i, t, k, meanings)
    /\ Distinct(Applied(s.work, i.prefs, op).prefs)
    /\ Applied(s.work, i.prefs, op).dontCare \subseteq Facets

\* The round of a facet is carried out.
LEMMA RoundCarried ==
    ASSUME NEW i, NEW f, NEW target, NEW t, Setting(i, f, target, t),
           NEW m \in Nat, m + 1 \in DOMAIN FacetOrder, NEW h, h = FacetOrder[m + 1],
           NEW list, NEW z \in Nat, z <= Len(list), m = 0 => Len(list) = z,
           Carries(list, News(target, m), z, i, t),
           NEW s, s = Reduction(i, list, t), Reached(s.work, m, i, f, target),
           NEW r, r = RoundOf(i, f, target, t, h, Len(list))
    PROVE  Carries(list \o r, News(target, m + 1), z, i, t)
<1> DEFINE k == Len(list)
           w == s.work
           old == On(target.old, h)
           new == Only(target.new, On(RangeOf(target.new), h))
           R == Replacement(old, new, t, k)
           more == News(target, m + 1)
<1>1. /\ Proper(i) /\ Targeted(i, f, target) /\ t \in Nat
  BY DEF Setting
<1>2. Listed(list) /\ k \in Nat
  BY Sequences DEF Carries
<1>3. h \in Facets
  BY PlannerAssumption DEF RangeOf
<1>4. News(target, m) \subseteq more
  BY DEF News
<1>5. Kempt(s, i, t) /\ Dated(s, i, t, k, News(target, m))
  BY <1>1, CarriesRun DEF Carries
<1>6. Shaped(w) /\ ValidIntent(w.prefs, w.dontCare) /\ w.dontCare \subseteq Facets
  BY <1>5 DEF Kempt, Reduced, ValidIntent
<1>7. /\ r = <<>> => Reached(w, m + 1, i, f, target)
      /\ \A op : r = <<op>> => Reached(Applied(w, i.prefs, op), m + 1, i, f, target)
  BY <1>1, <1>3, <1>6, RoundReached
<1>8. \/ r = <<>>
      \/ r = <<DontCare(h)>> /\ h \in DesiredDontCare(f, target)
      \/ r = <<Clear(h)>>
      \/ r = <<Replace(h, R)>> /\ (old # {} \/ new # <<>>)
  BY DEF RoundOf, FacetOperation, Replacement
<1>9. h = Category => k = z
  <2> SUFFICES ASSUME h = Category PROVE m = 0
    OBVIOUS
  <2>1. FacetOrder[1] = Category /\ 1 \in DOMAIN FacetOrder
    <3>1. DOMAIN FacetOrder = 1..Len(FacetOrder) /\ Len(FacetOrder) \in Nat
      BY FacetOrderLength, PlannerAssumption
    <3>2. 1 \in DOMAIN FacetOrder
      BY <3>1
    <3> QED
      BY <3>2, PlannerAssumption
  <2>2. m + 1 = 1
    BY <2>1, FacetsOnce DEF Once
  <2> QED
    BY <2>2
<1>10. Distinct(OffFacet(w.prefs, h))
  <2>1. Distinct(w.prefs)
    BY <1>6, ValidDistinct
  <2> QED
    BY <2>1 DEF Distinct, OffFacet
<1>11. /\ Lawful(Clear(h), k + 1, z, i, t)
       /\ h # Category => Lawful(DontCare(h), k + 1, z, i, t)
       /\ \A x : (h = Category => /\ k = z /\ Len(x) = 1 /\ ReservedValid(x[1])
                                  /\ x[1] \in i.prefs \/ x[1].id[1] = t)
                   => Lawful(Replace(h, x), k + 1, z, i, t)
  BY <1>2, RoundLawful
<1>12. /\ Applied(w, i.prefs, Replace(h, R)).prefs = OffFacet(w.prefs, h) \cup RangeOf(R)
       /\ Applied(w, i.prefs, Replace(h, R)).dontCare = w.dontCare \ {h}
       /\ Applied(w, i.prefs, Clear(h)).prefs = OffFacet(w.prefs, h)
       /\ Applied(w, i.prefs, Clear(h)).dontCare = w.dontCare \ {h}
       /\ Applied(w, i.prefs, DontCare(h)).prefs = OffFacet(w.prefs, h)
       /\ Applied(w, i.prefs, DontCare(h)).dontCare = (w.dontCare \ {h}) \cup {h}
  <2>1. Shaped(w)
    BY <1>6
  <2>2. OneFacetApplied(w, i.prefs, h, R)
    BY <2>1, FacetParts
  <2> QED
    BY <2>2 DEF OneFacetApplied
<1>13. old \subseteq w.prefs
  <2>1. CASE AimedOn(w, f, target, h)
    BY <2>1 DEF AimedOn, AimedAt, On
  <2>2. CASE UntouchedOn(w, i, f, target, h)
    <3>1. target.old \subseteq BaselinePrefs(i, f, target.old)
      BY <1>1, BaselineWithin
    <3> QED
      BY <2>2, <3>1 DEF UntouchedOn, On
  <2> QED
    BY <1>3, <2>1, <2>2 DEF Reached
<1>14. ASSUME NEW op, r = <<op>>, Follows(op, i, s, t, k, z, more)
       PROVE  Carries(list \o r, more, z, i, t)
  <2> DEFINE y == Applied(w, i.prefs, op)
  <2>1. Reached(y, m + 1, i, f, target)
    BY <1>7, <1>14
  <2> HIDE DEF y
  <2>2. ValidIntent(y.prefs, y.dontCare)
    BY <1>14, <2>1, ReachedValid DEF y, Follows
  <2>3. y = Applied(s.work, i.prefs, op)
    BY DEF y
  <2>4. /\ Lawful(op, Len(list) + 1, z, i, t)
        /\ Permitted(s.work, s.known, i.prefs, op, t, Len(list))
        /\ Introduces(op, i, t, Len(list), more)
        /\ OperationValid(op)
    BY <1>14 DEF Follows
  <2> HIDE DEF k, w, more
  <2>5. Carries(list \o <<op>>, more, z, i, t)
    BY <1>4, <1>14, <2>2, <2>3, <2>4, CarriesOne
  <2> QED
    BY <1>14, <2>5
<1>15. CASE r = <<>>
  BY <1>4, <1>15, CarriesMore
<1>16. ASSUME NEW op, \/ op.op = "dont_care" /\ op.facet = h
                      \/ op.op = "clear" /\ op.facet = h
       PROVE  /\ OperationValid(op) /\ Permitted(w, s.known, i.prefs, op, t, k)
              /\ Introduces(op, i, t, k, more)
  BY <1>3, <1>16 DEF OperationValid, Permitted, Introduces, Introduced
<1>17. CASE r = <<DontCare(h)>> /\ h \in DesiredDontCare(f, target)
  <2>1. h # Category
    BY <1>17 DEF DesiredDontCare
  <2>2. DontCare(h).op = "dont_care" /\ DontCare(h).facet = h
    BY DEF DontCare
  <2>3. /\ Distinct(Applied(w, i.prefs, DontCare(h)).prefs)
        /\ Applied(w, i.prefs, DontCare(h)).dontCare \subseteq Facets
    BY <1>3, <1>6, <1>10, <1>12
  <2>4. /\ OperationValid(DontCare(h)) /\ Permitted(w, s.known, i.prefs, DontCare(h), t, k)
        /\ Introduces(DontCare(h), i, t, k, more)
    BY <1>16, <2>2
  <2>5. Follows(DontCare(h), i, s, t, k, z, more)
    <3> HIDE DEF k, more
    <3> QED
      BY <1>11, <2>1, <2>3, <2>4 DEF Follows
  <2> QED
    BY <1>14, <1>17, <2>5
<1>18. CASE r = <<Clear(h)>>
  <2>1. Clear(h).op = "clear" /\ Clear(h).facet = h
    BY DEF Clear
  <2>2. /\ Distinct(Applied(w, i.prefs, Clear(h)).prefs)
        /\ Applied(w, i.prefs, Clear(h)).dontCare \subseteq Facets
    BY <1>3, <1>6, <1>10, <1>12
  <2>3. /\ OperationValid(Clear(h)) /\ Permitted(w, s.known, i.prefs, Clear(h), t, k)
        /\ Introduces(Clear(h), i, t, k, more)
    BY <1>16, <2>1
  <2>4. Follows(Clear(h), i, s, t, k, z, more)
    <3> HIDE DEF k, more
    <3> QED
      BY <1>11, <2>2, <2>3 DEF Follows
  <2> QED
    BY <1>14, <1>18, <2>4
<1>19. CASE r = <<Replace(h, R)>> /\ (old # {} \/ new # <<>>)
  <2>1. R # <<>>
    <3>1. /\ Ordered(old) /\ Listed(new)
          /\ \A c \in RangeOf(new) : c = LogicalKey(c)
      BY <1>1, <1>3, RoundParts
    <3>2. /\ old \subseteq RangeOf(R)
          /\ \A c \in RangeOf(new) : \E p \in RangeOf(R) : LogicalKey(p) = c
      <4>1. R = Replacement(old, new, t, k)
        OBVIOUS
      <4> HIDE DEF old, new, R
      <4> QED
        BY <3>1, <4>1, ReplacementIs
    <3>3. new # <<>> => RangeOf(new) # {}
      BY <3>1, Elements
    <3>4. RangeOf(R) # {}
      BY <1>19, <3>2, <3>3
    <3> HIDE DEF R
    <3> QED
      BY <3>4, Elements
  <2>2. \A p \in old : p \in s.work.prefs
    BY <1>13
  <2>3. Replacing(h, R, i, s, t, k, more)
    <3>1. /\ old = On(target.old, h)
          /\ new = Only(target.new, On(RangeOf(target.new), h))
          /\ R = Replacement(old, new, t, k)
          /\ more = News(target, m + 1)
      OBVIOUS
    <3> HIDE DEF R, old, new, k, w, more
    <3> QED
      BY <1>2, <1>3, <1>5, <2>1, <2>2, <3>1, ReplaceFits
  <2> HIDE DEF R, old, new, more
  <2>4. Lawful(Replace(h, R), k + 1, z, i, t)
    <3> HIDE DEF k
    <3> QED
      BY <1>9, <1>11, <2>3 DEF Replacing
  <2>5. /\ Distinct(Applied(w, i.prefs, Replace(h, R)).prefs)
        /\ Applied(w, i.prefs, Replace(h, R)).dontCare \subseteq Facets
    BY <1>6, <1>12, <2>3 DEF Replacing
  <2>6. Follows(Replace(h, R), i, s, t, k, z, more)
    BY <2>3, <2>4, <2>5 DEF Follows, Replacing
  <2> DEFINE o == Replace(h, R)
  <2>7. r = <<o>> /\ Follows(o, i, s, t, k, z, more)
    BY <1>19, <2>6
  <2> HIDE DEF o
  <2> QED
    BY <1>14, <2>7 DEF more
<1> QED
  BY <1>8, <1>15, <1>17, <1>18, <1>19

\* All rounds are carried out.
LEMMA RoundsCarried ==
    ASSUME NEW i, NEW f, NEW target, NEW t, Setting(i, f, target, t),
           NEW upto, Rounds(upto, i, f, t, target, BaselinePrefs(i, f, target.old)),
           \A n \in 0..Len(FacetOrder) : Listed(upto[n]),
           NEW m \in 0..Len(FacetOrder)
    PROVE  /\ Carries(upto[m], News(target, m), Len(upto[0]), i, t)
           /\ Reached(Reduction(i, upto[m], t).work, m, i, f, target)
           /\ Len(upto[0]) \in Nat /\ Len(upto[0]) <= Len(upto[m])
<1> DEFINE N == Len(FacetOrder)
           z == Len(upto[0])
           Good == {n \in Nat : n <= N => /\ Carries(upto[n], News(target, n), z, i, t)
                                          /\ z <= Len(upto[n])}
<1>1. N \in Nat /\ DOMAIN FacetOrder = 1..N
  BY FacetOrderLength, PlannerAssumption
<1>2. /\ upto[0] = SwitchOperation(i, f, target.old)
      /\ \A n \in 1..N :
            upto[n] = upto[n - 1] \o RoundOf(i, f, target, t, FacetOrder[n], Len(upto[n - 1]))
  <2>1. upto = [n \in 0..N |->
                   IF n = 0 THEN SwitchOperation(i, f, target.old)
                   ELSE upto[n - 1] \o RoundOf(i, f, target, t, FacetOrder[n], Len(upto[n - 1]))]
    BY Zenon DEF Rounds, RoundOf
  <2> HIDE DEF N
  <2>2. 0 \in 0..N /\ \A n \in 1..N : n \in 0..N /\ n # 0
    BY <1>1
  <2> QED
    BY <2>1, <2>2
<1>3. /\ \A n \in 0..N : Listed(upto[n])
      /\ z \in Nat
  <2>1. Listed(upto[0])
    BY <1>1
  <2> QED
    BY <2>1, Sequences
<1>4. t \in Nat /\ Proper(i) /\ Targeted(i, f, target)
  BY DEF Setting
<1> HIDE DEF N, z
<1>5. ASSUME NEW n \in 0..N, Carries(upto[n], News(target, n), z, i, t)
      PROVE  Reached(Reduction(i, upto[n], t).work, n, i, f, target)
  <2> DEFINE u == upto[n]
  <2>1. Listed(u) /\ Len(u) \in Nat
    BY <1>3, Sequences
  <2>2. Prefix(u, u)
    BY <2>1 DEF Prefix
  <2> HIDE DEF u
  <2>3. PICK g : Run(g, i, u, t) /\ Reduction(i, u, t) = g[Len(u)]
    BY <1>4, <1>5, CarriesRun DEF u
  <2>4. /\ Prefix(upto[n], u) /\ n \in 0..Len(FacetOrder)
        /\ \A x \in 0..Len(FacetOrder) : Listed(upto[x])
    BY <1>3, <2>2 DEF u, N
  <2>5. Reached(g[Len(upto[n])].work, n, i, f, target)
    BY <1>4, <2>1, <2>3, <2>4, RoundsReached
  <2> QED
    BY <2>3, <2>5 DEF u
<1>6. 0 \in Good
  <2>1. Carries(upto[0], News(target, 0), z, i, t)
    BY <1>2, SwitchCarried DEF z
  <2> QED
    BY <1>3, <2>1 DEF z
<1>7. ASSUME NEW n \in Nat, n \in Good PROVE n + 1 \in Good
  <2> SUFFICES ASSUME n + 1 <= N
               PROVE  /\ Carries(upto[n + 1], News(target, n + 1), z, i, t)
                      /\ z <= Len(upto[n + 1])
    OBVIOUS
  <2> DEFINE h == FacetOrder[n + 1]
             u == upto[n]
             r == RoundOf(i, f, target, t, h, Len(u))
             s == Reduction(i, u, t)
  <2>1. n + 1 \in 1..N /\ n \in 0..N /\ (n + 1) - 1 = n /\ n <= N
    BY <1>1
  <2>2. /\ Carries(u, News(target, n), z, i, t) /\ z <= Len(u)
        /\ Listed(u) /\ upto[n + 1] = u \o r
    BY <1>2, <1>3, <1>7, <2>1
  <2>3. Reached(s.work, n, i, f, target)
    BY <1>5, <2>1, <2>2
  <2>4. n = 0 => Len(u) = z
    BY DEF z
  <2>5. Listed(r)
    BY RoundIsOne
  <2>6. /\ h = FacetOrder[n + 1] /\ r = RoundOf(i, f, target, t, h, Len(u))
        /\ s = Reduction(i, u, t) /\ n + 1 \in DOMAIN FacetOrder
    BY <1>1, <2>1
  <2> HIDE DEF h, u, r, s
  <2>7. Carries(u \o r, News(target, n + 1), z, i, t)
    BY <1>3, <2>2, <2>3, <2>4, <2>6, RoundCarried
  <2>8. Len(u \o r) >= Len(u) /\ Len(u) \in Nat /\ Len(u \o r) \in Nat
    <3>1. Listed(u \o r) /\ Len(u) \in Nat /\ Len(r) \in Nat
      BY <2>2, <2>5, Sequences
    <3>2. Len(u \o r) \in Nat
      BY <3>1, Sequences
    <3>3. Prefix(u \o r, u \o r)
      BY <3>2 DEF Prefix
    <3>4. Len(u \o r) = Len(u) + Len(r)
      BY <2>2, <2>5, <3>1, <3>3, PrefixParts
    <3> QED
      BY <3>1, <3>2, <3>4
  <2> QED
    BY <1>3, <2>2, <2>7, <2>8
<1>8. m \in Nat /\ m <= N
  BY <1>1 DEF N
<1>9. m \in Good
  <2> HIDE DEF Good
  <2> QED
    BY <1>6, <1>7, <1>8, SetInduction
<1>10. Carries(upto[m], News(target, m), z, i, t) /\ z <= Len(upto[m])
  BY <1>8, <1>9
<1>11. Reached(Reduction(i, upto[m], t).work, m, i, f, target)
  BY <1>5, <1>10 DEF N
<1> QED
  BY <1>3, <1>10, <1>11 DEF z

----------------------------------------------------------------------------
(* The wishes are carried out *)

\* What the intent and the target are about, once every facet is aimed at, is
\* valid.
LEMMA WishedValid ==
    ASSUME NEW i, NEW f, NEW target, NEW t, Setting(i, f, target, t),
           NEW said, said \subseteq RangeOf(target.new),
           NEW w, Wished(w, said, i, f, target),
           Distinct(w.prefs), w.dontCare \subseteq Facets
    PROVE  ValidIntent(w.prefs, w.dontCare)
<1>1. \A q \in w.prefs : LogicalKey(q) \in Keys(target.old) \cup RangeOf(target.new)
  <2> SUFFICES ASSUME NEW q \in w.prefs
               PROVE  LogicalKey(q) \in Keys(target.old) \cup RangeOf(target.new)
    OBVIOUS
  <2>1. q \in On(w.prefs, q.facet)
    BY DEF On
  <2>2. CASE q.facet \in Facets
    <3>1. AimedAt(On(w.prefs, q.facet), On(target.old, q.facet),
                  On(RangeOf(target.new), q.facet))
      BY <2>2 DEF Wished, AimedOn
    <3>2. q \in On(target.old, q.facet) \/ LogicalKey(q) \in On(RangeOf(target.new), q.facet)
      BY <2>1, <3>1 DEF AimedAt
    <3> QED
      BY <3>2 DEF On, Keys
  <2>3. CASE q.facet = SemanticOnly
    <3>1. q \in On(target.old, SemanticOnly) \/ LogicalKey(q) \in said
      BY <2>1, <2>3 DEF Wished, AimedAt
    <3> QED
      BY <3>1 DEF On, Keys
  <2>4. q.facet \in Facets \/ q.facet = SemanticOnly
    BY <2>1 DEF Wished, AnyFacet
  <2> QED
    BY <2>2, <2>3, <2>4
<1>2. \A q \in w.prefs : q.facet \notin w.dontCare
  <2> SUFFICES ASSUME NEW q \in w.prefs, q.facet \in w.dontCare PROVE FALSE
    OBVIOUS
  <2>1. q.facet \in Facets /\ q.facet \in DesiredDontCare(f, target)
    BY DEF Wished, AimedOn
  <2>2. \E c \in target.old \cup RangeOf(target.new) : c.facet = q.facet
    <3>1. CASE LogicalKey(q) \in Keys(target.old)
      <4>1. PICK c \in target.old : LogicalKey(c) = LogicalKey(q)
        BY <3>1 DEF Keys
      <4> QED
        BY <4>1, KeyFields
    <3>2. CASE LogicalKey(q) \in RangeOf(target.new)
      <4>1. LogicalKey(q) = LogicalKey(LogicalKey(q))
        BY <3>2 DEF Setting, Targeted
      <4>2. LogicalKey(q).facet = q.facet
        BY <4>1, KeyFields
      <4> QED
        BY <3>2, <4>2
    <3> QED
      BY <1>1, <3>1, <3>2
  <2>3. q.facet # SemanticOnly
    BY <2>1, FacetsAssumption
  <2> QED
    BY <2>1, <2>2, <2>3 DEF DesiredDontCare, ActiveFacets
<1> QED
  BY <1>1, <1>2, SettingValid

\* A dropped wish is taken out.
LEMMA RemovalCarried ==
    ASSUME NEW i, NEW f, NEW target, NEW t, Setting(i, f, target, t),
           NEW list, NEW meanings, NEW z \in Nat, z <= Len(list),
           Carries(list, meanings, z, i, t),
           NEW s, s = Reduction(i, list, t), Reached(s.work, Len(FacetOrder), i, f, target),
           NEW removed,
           removed = On(BaselinePrefs(i, f, target.old) \ target.old, SemanticOnly)
    PROVE  /\ Carries(list \o Removal(removed), meanings, z, i, t)
           /\ Wished(Reduction(i, list \o Removal(removed), t).work, {}, i, f, target)
<1> DEFINE ids == SortedIds(Ids(removed))
           o == Remove(ids)
           w == Applied(s.work, i.prefs, o)
           B == BaselinePrefs(i, f, target.old)
<1>1. /\ Proper(i) /\ Targeted(i, f, target) /\ t \in Nat
      /\ Textual(Ids(i.prefs))
  BY DEF Setting
<1>2. Listed(list) /\ Len(list) \in Nat /\ s.ok
  BY Sequences DEF Carries
<1>3. Kempt(s, i, t)
  BY <1>1, CarriesRun
<1>4. /\ removed = {} => Wished(s.work, {}, i, f, target)
      /\ Wished(w, {}, i, f, target)
  BY <1>1, <1>3, RemovalReached
<1>5. CASE removed = {}
  <2>1. Removal(removed) = <<>>
    BY <1>5 DEF Removal
  <2>2. list \o <<>> = list
    BY CarriesMore
  <2> QED
    BY <1>4, <1>5, <2>1, <2>2, Zenon
<1>6. CASE removed # {}
  <2>1. Removal(removed) = <<o>>
    BY <1>6 DEF Removal
  <2>2. removed \subseteq i.prefs /\ removed \subseteq On(i.prefs, SemanticOnly)
        /\ removed \subseteq On(B, SemanticOnly)
    BY <1>1, BaselineWithin DEF On
  <2>3. IsFiniteSet(Ids(removed)) /\ Ids(removed) \subseteq IdTuples
    BY <1>1, <2>2, ProperParts
  <2>4. Textual(Ids(removed))
    BY <1>1, <2>2 DEF Textual, Ids
  <2>5. RangeOf(ids) = Ids(removed) /\ CanonicalIds(ids)
    <3> HIDE DEF ids
    <3>1. ids = SortedIds(Ids(removed))
      BY DEF ids
    <3> QED
      BY <2>3, <2>4, <3>1, SortedIdsList, SortedIdsOrder
  <2>6. o.op = "remove" /\ o.ids = ids
    BY DEF Remove
  <2>7. s.work.prefs \subseteq s.known /\ Shaped(s.work)
        /\ ValidIntent(s.work.prefs, s.work.dontCare)
    BY <1>3 DEF Kempt, Reduced
  <2>8. w = RemovePreferences(s.work, ids)
    <3> HIDE DEF o, ids
    <3> QED
      BY <2>6 DEF Applied
  <2> HIDE DEF o, ids, w, B
  <2>9. OperationValid(o)
    BY <2>5, <2>6 DEF OperationValid
  <2>10. Ids(removed) \subseteq Ids(On(i.prefs, SemanticOnly))
    BY <2>2 DEF Ids
  <2>11. Lawful(o, Len(list) + 1, z, i, t)
    <3>1. ~(Len(list) + 1 <= z)
      BY <1>2
    <3>2. RangeOf(o.ids) \subseteq Ids(On(i.prefs, SemanticOnly))
      BY <2>5, <2>6, <2>10
    <3>3. o.op = "remove"
      BY <2>6
    <3> QED
      BY <3>1, <3>2, <3>3 DEF Lawful
  <2>12. Permitted(s.work, s.known, i.prefs, o, t, Len(list))
    <3>1. On(s.work.prefs, SemanticOnly) = On(B, SemanticOnly)
      BY FacetsAssumption DEF Reached, B
    <3>2. removed \subseteq s.work.prefs
      BY <2>2, <3>1 DEF On
    <3>3. RangeOf(ids) \subseteq Ids(s.work.prefs)
      BY <2>5, <3>2 DEF Ids
    <3> QED
      BY <2>6, <3>3 DEF Permitted
  <2>13. w.prefs \subseteq s.work.prefs /\ w.dontCare = s.work.dontCare
    <3> DEFINE P == {p \in s.work.prefs : p.id \notin RangeOf(ids)}
    <3>1. w = [s.work EXCEPT !.prefs = P]
      BY <2>8 DEF RemovePreferences
    <3> HIDE DEF P
    <3>2. w = [goal |-> s.work.goal, prefs |-> P, dontCare |-> s.work.dontCare]
      BY <2>7, <3>1, PrefsReplaced
    <3>3. w.prefs = P /\ w.dontCare = s.work.dontCare
      BY <3>2
    <3> QED
      BY <3>3 DEF P
  <2>14. ValidIntent(w.prefs, w.dontCare)
    <3>1. Distinct(s.work.prefs)
      BY <2>7, ValidDistinct
    <3>2. Distinct(w.prefs)
      BY <2>13, <3>1 DEF Distinct
    <3>3. w.dontCare \subseteq Facets
      BY <2>7, <2>13 DEF ValidIntent
    <3>4. {} \subseteq RangeOf(target.new)
      OBVIOUS
    <3> QED
      BY <1>4, <3>2, <3>3, <3>4, WishedValid
  <2>15. Introduces(o, i, t, Len(list), meanings)
    BY <2>6 DEF Introduces, Introduced
  <2>16. w = Applied(s.work, i.prefs, o)
    BY DEF w
  <2>17. Carries(list \o <<o>>, meanings, z, i, t)
    BY <2>9, <2>11, <2>12, <2>14, <2>15, <2>16, CarriesOne
  <2>18. Reduction(i, list \o <<o>>, t).work = w
    <3>1. Reduction(i, list \o <<o>>, t) = Continued(s, i.prefs, o, t, Len(list))
      BY <1>2, ReductionOne
    <3> QED
      BY <1>2, <2>16, <3>1 DEF Continued, Step
  <2> QED
    BY <1>4, <2>1, <2>17, <2>18, Zenon
<1> QED
  BY <1>5, <1>6

\* A new wish is added.
LEMMA WishCarried ==
    ASSUME NEW i, NEW f, NEW target, NEW t, Setting(i, f, target, t),
           NEW list, NEW meanings, NEW z \in Nat, z <= Len(list),
           Carries(list, meanings, z, i, t),
           NEW said, said \subseteq RangeOf(target.new),
           Wished(Reduction(i, list, t).work, said, i, f, target),
           NEW c \in RangeOf(target.new), c.facet = SemanticOnly, c \notin meanings,
           NEW o, o = Add(Allocated(c, t, Len(list), 0))
    PROVE  /\ Carries(list \o <<o>>, meanings \cup {c}, z, i, t)
           /\ Wished(Reduction(i, list \o <<o>>, t).work, said \cup {c}, i, f, target)
<1> DEFINE k == Len(list)
           p == Allocated(c, t, k, 0)
           s == Reduction(i, list, t)
           w == Applied(s.work, i.prefs, o)
<1>1. /\ Proper(i) /\ Targeted(i, f, target) /\ t \in Nat
      /\ \A e \in i.prefs : e.id \in IdTuples /\ e.id[1] < t
  BY DEF Setting, Proper
<1>2. Listed(list) /\ k \in Nat /\ s.ok /\ Dated(s, i, t, k, meanings)
  BY Sequences DEF Carries
<1>3. Kempt(s, i, t)
  BY <1>1, CarriesRun
<1>4. c = LogicalKey(c) /\ c \notin Keys(i.prefs)
  BY <1>1 DEF Targeted
<1>5. LogicalKey(p) = c /\ p.facet = SemanticOnly /\ p.id = <<t, k, 0>>
  BY <1>4, AllocatedKey, AllocatedId
<1>6. o = Add(p) /\ w = Applied(s.work, i.prefs, Add(p)) /\ w = Applied(s.work, i.prefs, o)
      /\ s = Reduction(i, list, t)
  OBVIOUS
<1>7. o.op = "add" /\ o.pref = p
  BY DEF Add
<1> HIDE DEF p, s, w, k
<1>8. \A e \in s.known : e.id # p.id /\ LogicalKey(e) # LogicalKey(p)
  <2> SUFFICES ASSUME NEW e \in s.known
               PROVE  e.id # <<t, k, 0>> /\ LogicalKey(e) # c
    BY <1>5
  <2>1. CASE e \in i.prefs
    <3>1. e.id[1] < t
      BY <1>1, <2>1
    <3>2. e.id # <<t, k, 0>>
      BY <1>1, <3>1
    <3>3. LogicalKey(e) # c
      BY <1>4, <2>1 DEF Keys
    <3> QED
      BY <3>2, <3>3
  <2>2. CASE e.id \in IdTuples /\ e.id[2] < k /\ LogicalKey(e) \in meanings
    <3>1. e.id # <<t, k, 0>>
      BY <1>2, <2>2
    <3> QED
      BY <2>2, <3>1
  <2> QED
    BY <1>2, <2>1, <2>2 DEF Dated
<1>9. /\ Shaped(s.work) /\ s.work.prefs \subseteq s.known
      /\ ValidIntent(s.work.prefs, s.work.dontCare)
  BY <1>3 DEF Kempt, Reduced
<1>10. Permitted(s.work, s.known, i.prefs, o, t, k)
  <2>1. Resolvable(p, s.work.prefs, s.known, t, k, 0)
    BY <1>5, <1>8 DEF Resolvable
  <2> QED
    BY <1>7, <2>1 DEF Permitted
<1>11. Wished(w, said \cup {c}, i, f, target)
  <2>1. Wished(s.work, said, i, f, target)
    BY DEF s
  <2>2. Permitted(s.work, s.known, i.prefs, Add(p), t, k)
    BY <1>6, <1>10
  <2>3. w = Applied(s.work, i.prefs, Add(p)) /\ c = LogicalKey(p) /\ p.facet = SemanticOnly
    BY <1>5, <1>6
  <2> QED
    BY <1>3, <2>1, <2>2, <2>3, WishApplied
<1>12. w.prefs = s.work.prefs \cup {p} /\ w.dontCare \subseteq s.work.dontCare
  <2>1. w = AddPreference(s.work, p)
    BY <1>6, <1>7 DEF Applied
  <2>2. ~\E a \in s.work.prefs : a.id = p.id
    BY <1>8, <1>9
  <2>3. p.facet \notin NumericFacets
    BY <1>5, FacetsAssumption
  <2>4. w = [s.work EXCEPT !.prefs = s.work.prefs \cup {p},
                           !.dontCare = s.work.dontCare \ {p.facet}]
    BY <2>1, <2>2, <2>3, Zenon DEF AddPreference, WithPreference
  <2>5. w = [goal |-> s.work.goal, prefs |-> s.work.prefs \cup {p},
             dontCare |-> s.work.dontCare \ {p.facet}]
    BY <1>9, <2>4, PartsReplaced
  <2> QED
    BY <2>5
<1>13. ValidIntent(w.prefs, w.dontCare)
  <2>1. Distinct(s.work.prefs)
    BY <1>9, ValidDistinct
  <2>2. Distinct(w.prefs)
    BY <1>8, <1>9, <1>12, <2>1 DEF Distinct
  <2>3. w.dontCare \subseteq Facets
    BY <1>9, <1>12 DEF ValidIntent
  <2>4. said \cup {c} \subseteq RangeOf(target.new)
    OBVIOUS
  <2> QED
    BY <1>11, <2>2, <2>3, <2>4, WishedValid
<1>14. OperationValid(o)
  <2>1. PICK q \in Whole(target, t) : LogicalKey(q) = c
    BY <1>1, WholeSays
  <2>2. ValidPreference(q)
    BY DEF Setting, ValidIntent
  <2>3. ValidPreference(p)
    BY <1>5, <2>1, <2>2, KeySense
  <2> QED
    BY <1>7, <2>3 DEF OperationValid
<1>15. Lawful(o, k + 1, z, i, t)
  <2>1. ~(k + 1 <= z)
    BY <1>2 DEF k
  <2>2. p.facet # Category
    BY <1>5, FacetsAssumption
  <2> QED
    BY <1>7, <2>1, <2>2 DEF Lawful
<1>16. Introduces(o, i, t, k, meanings \cup {c})
  <2>1. Introduced(o) = {p}
    BY <1>7 DEF Introduced
  <2>2. p.id \in IdTuples /\ p.id[1] = t /\ p.id[2] = k
    BY <1>1, <1>2, <1>5 DEF IdTuples
  <2> QED
    BY <1>5, <2>1, <2>2 DEF Introduces
<1>17. Carries(list \o <<o>>, meanings \cup {c}, z, i, t)
  <2>1. meanings \subseteq meanings \cup {c}
    OBVIOUS
  <2> QED
    BY <1>6, <1>10, <1>13, <1>14, <1>15, <1>16, <2>1, CarriesOne DEF k
<1>18. Reduction(i, list \o <<o>>, t).work = w
  <2>1. Reduction(i, list \o <<o>>, t) = Continued(s, i.prefs, o, t, Len(list))
    BY <1>2, <1>6, ReductionOne
  <2> QED
    BY <1>2, <1>6, <2>1 DEF Continued, Step
<1> QED
  BY <1>11, <1>17, <1>18

\* The first n elements of a list that F makes of the numbers from 1 on.
Counted(F, n) == [j \in 1..n |-> F[j]]

\* One more counted element is one more element of the list.
Extends(list, F, n) ==
    /\ list \o Counted(F, 0) = list
    /\ list \o Counted(F, n + 1) = (list \o Counted(F, n)) \o <<F[n + 1]>>

\* Counted elements are appended one by one.
LEMMA CountedOneMore ==
    ASSUME NEW list, Listed(list), NEW F, NEW n \in Nat
    PROVE  Extends(list, F, n)
<1>1. PICK S : list \in Seq(S)
  BY DEF Listed
<1> DEFINE T == S \cup {F[j] : j \in 1..(n + 1)}
           a == Counted(F, n)
           b == Counted(F, n + 1)
           x == F[n + 1]
<1>2. list \in Seq(T) /\ x \in T
  BY <1>1
<1>3. a \in Seq(T) /\ Len(a) = n
  BY DEF Counted
<1>4. b \in Seq(T) /\ Len(b) = n + 1
  BY DEF Counted
<1>5. \A j \in 1..n : b[j] = a[j]
  BY DEF Counted
<1>6. b[n + 1] = x
  BY DEF Counted
<1>7. Counted(F, 0) = <<>>
  BY DEF Counted
<1> HIDE DEF T, a, b, x
<1>8. b = Append(a, x)
  BY <1>2, <1>3, <1>4, <1>5, <1>6
<1>9. b = a \o <<x>> /\ <<x>> \in Seq(T)
  BY <1>2, <1>3, <1>8, AppendIsConcat
<1>10. list \o b = (list \o a) \o <<x>>
  <2>1. (list \o a) \o <<x>> = list \o (a \o <<x>>)
    BY <1>2, <1>3, <1>9, ConcatAssociative
  <2> QED
    BY <1>9, <2>1, Zenon
<1>11. list \o <<>> = list
  BY <1>1, ConcatEmptySeq
<1>12. list \o Counted(F, 0) = list
  BY <1>7, <1>11, Zenon
<1> QED
  BY <1>10, <1>12 DEF a, b, x, Extends

\* All new wishes are added.
LEMMA WishesCarried ==
    ASSUME NEW i, NEW f, NEW target, NEW t, Setting(i, f, target, t),
           NEW list, NEW meanings, NEW z \in Nat, z <= Len(list),
           Carries(list, meanings, z, i, t),
           Wished(Reduction(i, list, t).work, {}, i, f, target),
           NEW new, Listed(new), Once(new),
           RangeOf(new) \subseteq On(RangeOf(target.new), SemanticOnly),
           \A c \in RangeOf(new) : c \notin meanings,
           NEW F, \A j \in DOMAIN new :
                     F[j] = Add(Allocated(new[j], t, Len(list) + j - 1, 0))
    PROVE  Carries(list \o Counted(F, Len(new)), meanings \cup RangeOf(new), z, i, t)
<1> DEFINE N == Len(new)
           L == Len(list)
           First(n) == {new[j] : j \in 1..n}
           u(n) == list \o Counted(F, n)
           Good == {n \in Nat : n <= N =>
                       /\ Carries(u(n), meanings \cup First(n), z, i, t)
                       /\ Wished(Reduction(i, u(n), t).work, First(n), i, f, target)
                       /\ Len(u(n)) = L + n}
<1>1. Listed(list) /\ L \in Nat /\ N \in Nat /\ DOMAIN new = 1..N
  BY Sequences DEF Carries
<1>2. 0 \in Good
  <2>1. u(0) = list
    <3>1. Extends(list, F, 0)
      BY <1>1, CountedOneMore
    <3> QED
      BY <3>1 DEF Extends
  <2>2. First(0) = {} /\ meanings \cup {} = meanings /\ L + 0 = L
    BY <1>1
  <2> HIDE DEF First, u
  <2> QED
    BY <2>1, <2>2
<1>3. ASSUME NEW n \in Nat, n \in Good PROVE n + 1 \in Good
  <2> SUFFICES ASSUME n + 1 <= N
               PROVE  /\ Carries(u(n + 1), meanings \cup First(n + 1), z, i, t)
                      /\ Wished(Reduction(i, u(n + 1), t).work, First(n + 1), i, f, target)
                      /\ Len(u(n + 1)) = L + (n + 1)
    OBVIOUS
  <2> DEFINE c == new[n + 1]
             v == u(n)
             known == meanings \cup First(n)
             o == Add(Allocated(c, t, L + n, 0))
  <2>1. /\ n <= N /\ n + 1 \in DOMAIN new
        /\ Carries(v, known, z, i, t)
        /\ Wished(Reduction(i, v, t).work, First(n), i, f, target)
        /\ Len(v) = L + n
    BY <1>1, <1>3
  <2>2. c \in RangeOf(new)
    BY <2>1 DEF RangeOf
  <2>3. c \in RangeOf(target.new) /\ c.facet = SemanticOnly /\ c \notin meanings
    BY <2>2 DEF On
  <2>4. c \notin First(n)
    <3> SUFFICES ASSUME NEW j \in 1..n, new[j] = c PROVE FALSE
      OBVIOUS
    <3>1. j \in DOMAIN new /\ j # n + 1
      BY <1>1, <2>1
    <3> QED
      BY <2>1, <3>1 DEF Once
  <2>5. First(n) \subseteq RangeOf(target.new)
    <3>1. First(n) \subseteq RangeOf(new)
      BY <1>1, <2>1 DEF RangeOf
    <3> QED
      BY <3>1 DEF On
  <2>6. F[n + 1] = o
    <3>1. F[n + 1] = Add(Allocated(new[n + 1], t, L + (n + 1) - 1, 0))
      BY <2>1
    <3>2. L + (n + 1) - 1 = L + n
      BY <1>1
    <3> QED
      BY <3>1, <3>2
  <2>7. u(n + 1) = v \o <<o>>
    <3>1. Extends(list, F, n)
      BY <1>1, <1>3, CountedOneMore
    <3>2. list \o Counted(F, n + 1) = (list \o Counted(F, n)) \o <<F[n + 1]>>
      BY <3>1 DEF Extends
    <3>3. u(n + 1) = v \o <<F[n + 1]>>
      BY <3>2, Zenon
    <3> QED
      BY <2>6, <3>3, Zenon
  <2>8. First(n + 1) = First(n) \cup {c}
    BY <1>1
  <2>9. o = Add(Allocated(c, t, Len(v), 0)) /\ z <= Len(v)
    BY <1>1, <2>1
  <2> HIDE DEF c, v, known, o, u, First
  <2>10. c \notin known
    BY <2>3, <2>4 DEF known
  <2>11. /\ Carries(v \o <<o>>, known \cup {c}, z, i, t)
         /\ Wished(Reduction(i, v \o <<o>>, t).work, First(n) \cup {c}, i, f, target)
    BY <2>1, <2>3, <2>5, <2>9, <2>10, WishCarried
  <2>12. known \cup {c} = meanings \cup First(n + 1)
    BY <2>8 DEF known
  <2>13. Len(v \o <<o>>) = L + (n + 1)
    <3>1. Listed(v)
      BY <2>1 DEF Carries
    <3>2. OneLonger(v \o <<o>>, v, o)
      BY <3>1, ListGrows
    <3>3. Len(v \o <<o>>) = Len(v) + 1
      BY <3>2 DEF OneLonger
    <3> QED
      BY <1>1, <2>1, <3>3
  <2>14. /\ Carries(u(n + 1), known \cup {c}, z, i, t)
         /\ Wished(Reduction(i, u(n + 1), t).work, First(n) \cup {c}, i, f, target)
         /\ Len(u(n + 1)) = L + (n + 1)
    BY <2>7, <2>11, <2>13, Zenon
  <2> QED
    BY <2>8, <2>12, <2>14
<1>4. N \in Good
  <2> HIDE DEF Good
  <2> QED
    BY <1>1, <1>2, <1>3, SetInduction
<1>5. First(N) = RangeOf(new)
  BY <1>1 DEF RangeOf
<1>6. Carries(u(N), meanings \cup First(N), z, i, t)
  <2> HIDE DEF u, First, N
  <2> QED
    BY <1>1, <1>4
<1> HIDE DEF First
<1> QED
  BY <1>5, <1>6, Zenon

\* The operations planned for a setting are carried out, after z that switch
\* the goal.
LEMMA PlanCarried ==
    ASSUME NEW i, NEW f, NEW target, NEW t, Setting(i, f, target, t),
           NEW ops, ops = PlannedOperations(i, f, t, target)
    PROVE  \E z \in {0, 1} : \E meanings : Carries(ops, meanings, z, i, t)
<1> DEFINE B == BaselinePrefs(i, f, target.old)
           upto == CHOOSE u : Rounds(u, i, f, t, target, B)
           M == Len(FacetOrder)
           list == upto[M]
           z == Len(upto[0])
           removed == On(B \ target.old, SemanticOnly)
           S == On(RangeOf(target.new), SemanticOnly)
           new == Only(target.new, S)
           more == list \o Removal(removed)
           meanings == News(target, M)
           F == [j \in DOMAIN new |-> Add(Allocated(new[j], t, Len(more) + j - 1, 0))]
<1>1. /\ Proper(i) /\ Targeted(i, f, target) /\ t \in Nat
      /\ Listed(target.new)
  BY DEF Setting, Targeted
<1>2. /\ Rounds(upto, i, f, t, target, B)
      /\ \A n \in 0..M : Listed(upto[n])
  <2>1. upto = CHOOSE u : Rounds(u, i, f, t, target, B)
    OBVIOUS
  <2> HIDE DEF upto, B
  <2> QED
    BY <2>1, RoundsSteered
<1>3. ops = list \o SemanticOperations(Len(list), t, removed, new)
  <2>1. PlannedOperations(i, f, t, target) = OperationsTo(i, f, t, target, B)
    BY DEF PlannedOperations
  <2>2. OperationsTo(i, f, t, target, B)
           = list \o SemanticOperations(Len(list), t, removed, new)
    BY Zenon DEF OperationsTo, Rounds, RoundOf
  <2> QED
    BY <2>1, <2>2
<1>4. M \in Nat /\ 0 \in 0..M /\ M \in 0..M
  BY FacetOrderLength
<1> HIDE DEF upto
<1>5. z \in {0, 1}
  <2>1. upto[0] = SwitchOperation(i, f, target.old)
    <3>1. upto = [n \in 0..M |->
                     IF n = 0 THEN SwitchOperation(i, f, target.old)
                     ELSE upto[n - 1] \o RoundOf(i, f, target, t, FacetOrder[n], Len(upto[n - 1]))]
      BY <1>2, Zenon DEF Rounds, RoundOf
    <3> HIDE DEF M
    <3> QED
      BY <1>4, <3>1
  <2> QED
    BY <2>1 DEF SwitchOperation
<1>6. /\ Carries(list, meanings, z, i, t)
      /\ Reached(Reduction(i, list, t).work, M, i, f, target)
      /\ z \in Nat /\ z <= Len(list)
  <2> HIDE DEF z, list, meanings, M
  <2>1. /\ Rounds(upto, i, f, t, target, BaselinePrefs(i, f, target.old))
        /\ \A n \in 0..Len(FacetOrder) : Listed(upto[n])
        /\ M \in 0..Len(FacetOrder)
    BY <1>2, <1>4 DEF M
  <2>2. /\ Carries(upto[M], News(target, M), Len(upto[0]), i, t)
        /\ Reached(Reduction(i, upto[M], t).work, M, i, f, target)
        /\ Len(upto[0]) \in Nat /\ Len(upto[0]) <= Len(upto[M])
    BY <2>1, RoundsCarried
  <2> QED
    BY <2>2 DEF z, list, meanings
<1> HIDE DEF list, z
<1>7. /\ Carries(more, meanings, z, i, t)
      /\ Wished(Reduction(i, more, t).work, {}, i, f, target)
  <2>1. removed = On(BaselinePrefs(i, f, target.old) \ target.old, SemanticOnly)
    OBVIOUS
  <2> HIDE DEF meanings, removed
  <2> QED
    BY <1>6, <2>1, RemovalCarried
<1>8. Listed(new) /\ Once(new) /\ RangeOf(new) = S
  <2>1. Once(target.new)
    <3>1. \A a, b \in DOMAIN target.new : target.new[a] = target.new[b] => a = b
      BY <1>1, NewsOnce DEF Setting
    <3> QED
      BY <3>1 DEF Once
  <2>2. Once(new)
    <3> HIDE DEF S
    <3> QED
      BY <1>1, <2>1, OnlyOnce
  <2>3. Listed(new) /\ RangeOf(new) = RangeOf(target.new) \cap S
    <3> HIDE DEF S
    <3> QED
      BY <1>1, OnlyPicks DEF Listed
  <2> QED
    BY <2>2, <2>3 DEF On
<1>9. Listed(list) /\ Listed(more) /\ Listed(Removal(removed))
      /\ Len(list) \in Nat /\ Len(more) = Len(list) + Len(Removal(removed))
      /\ Len(Removal(removed)) \in Nat
  <2>1. Listed(list) /\ Listed(more)
    BY <1>6, <1>7 DEF Carries
  <2>2. Listed(Removal(removed))
    BY Sequences DEF Removal
  <2> HIDE DEF removed
  <2>3. Prefix(more, more)
    <3>1. Len(more) \in Nat
      BY <2>1, Sequences
    <3> HIDE DEF more
    <3> QED
      BY <3>1 DEF Prefix
  <2>4. Len(list \o Removal(removed)) = Len(list) + Len(Removal(removed))
    BY <2>1, <2>2, <2>3, PrefixParts
  <2> QED
    BY <2>1, <2>2, <2>4, Sequences
<1> HIDE DEF new, removed, S
<1>10. DOMAIN new = 1..Len(new) /\ Len(new) \in Nat
  BY <1>8, Sequences
<1>11. SemanticOperations(Len(list), t, removed, new) = Removal(removed) \o F
  <2> DEFINE k == Len(list)
             m == Removal(removed)
             G == [j \in DOMAIN new |-> Add(Allocated(new[j], t, k + Len(m) + j - 1, 0))]
  <2>1. SemanticOperations(k, t, removed, new) = m \o G
    BY Zenon DEF SemanticOperations, Removal
  <2>2. Len(more) = k + Len(m)
    BY <1>9
  <2>3. G = F
    <3> HIDE DEF k, m, more
    <3> QED
      BY <2>2, Zenon
  <2> QED
    BY <2>1, <2>3, Zenon
<1>12. /\ F = Counted(F, Len(new)) /\ Listed(F)
       /\ \A j \in DOMAIN new : F[j] = Add(Allocated(new[j], t, Len(more) + j - 1, 0))
  <2>1. /\ DOMAIN F = DOMAIN new /\ F = [j \in DOMAIN F |-> F[j]]
        /\ \A j \in DOMAIN new : F[j] = Add(Allocated(new[j], t, Len(more) + j - 1, 0))
    OBVIOUS
  <2> HIDE DEF F
  <2>2. Listed(F)
    BY <1>8, <2>1, Mapped
  <2>3. F = Counted(F, Len(new))
    BY <1>10, <2>1 DEF Counted
  <2> QED
    BY <2>1, <2>2, <2>3
<1> HIDE DEF F
<1>13. ops = more \o Counted(F, Len(new))
  <2> DEFINE m == Removal(removed)
  <2>1. PICK X : list \in Seq(X)
    BY <1>9 DEF Listed
  <2>2. PICK Y : m \in Seq(Y)
    BY <1>9 DEF Listed
  <2>3. PICK Z : F \in Seq(Z)
    BY <1>12 DEF Listed
  <2> DEFINE U == X \cup Y \cup Z
  <2>4. list \in Seq(U) /\ m \in Seq(U) /\ F \in Seq(U)
    <3> HIDE DEF m
    <3> QED
      BY <2>1, <2>2, <2>3
  <2>5. (list \o m) \o F = list \o (m \o F)
    <3> HIDE DEF m, U
    <3> QED
      BY <2>4, ConcatAssociative
  <2>6. ops = list \o (m \o F)
    BY <1>3, <1>11, Zenon
  <2>7. ops = more \o F
    BY <2>5, <2>6, Zenon
  <2> QED
    BY <1>12, <2>7, Zenon
<1>14. \A c \in RangeOf(new) : c \notin meanings
  <2> SUFFICES ASSUME NEW c \in RangeOf(new), c \in meanings PROVE FALSE
    OBVIOUS
  <2>1. c.facet = SemanticOnly
    BY <1>8 DEF S, On
  <2>2. PICK j \in 1..M : c.facet = FacetOrder[j]
    BY DEF News
  <2>3. FacetOrder[j] \in Facets
    BY <1>4, FacetOrderLength, PlannerAssumption
  <2> QED
    BY <2>1, <2>2, <2>3, FacetsAssumption
<1>15. z <= Len(more)
  BY <1>6, <1>9
<1> HIDE DEF more, meanings
<1>16. Carries(more \o Counted(F, Len(new)), meanings \cup RangeOf(new), z, i, t)
  <2>1. RangeOf(new) \subseteq On(RangeOf(target.new), SemanticOnly)
    BY <1>8 DEF S
  <2> QED
    BY <1>6, <1>7, <1>8, <1>12, <1>14, <1>15, <2>1, WishesCarried
<1>17. Carries(ops, meanings \cup RangeOf(new), z, i, t)
  BY <1>13, <1>16, Zenon
<1> QED
  BY <1>5, <1>17

----------------------------------------------------------------------------
(* The gateway's preview of a plan *)

\* What the catalog asks of a whole intent it asks of its meanings.
LEMMA CompleteMoves ==
    ASSUME NEW P, NEW Q, NEW D, CompleteIntent(P, D), Distinct(Q), Keys(P) = Keys(Q)
    PROVE  CompleteIntent(Q, D)
<1> DEFINE A == ReservedPreferences(P)
           C == ReservedPreferences(Q)
<1>1. /\ \A p, q \in A : p = q
      /\ \A p \in A : ReservedValid(p)
      /\ Category \notin D
      /\ \A f \in (ActiveFacets(P) \ {Category}) \cup D : CommittableIn(f, EffectiveScope(P))
  BY DEF CompleteIntent
<1>2. \A q \in Q : \E p \in P : /\ LogicalKey(p) = LogicalKey(q) /\ p.facet = q.facet
                                /\ p.op = q.op /\ p.value = q.value
  <2> SUFFICES ASSUME NEW q \in Q
               PROVE  \E p \in P : /\ LogicalKey(p) = LogicalKey(q) /\ p.facet = q.facet
                                   /\ p.op = q.op /\ p.value = q.value
    OBVIOUS
  <2>1. LogicalKey(q) \in Keys(P)
    BY DEF Keys
  <2>2. PICK p \in P : LogicalKey(p) = LogicalKey(q)
    BY <2>1 DEF Keys
  <2>3. p.facet = q.facet /\ p.op = q.op /\ p.value = q.value
    BY <2>2, KeyFields
  <2> QED
    BY <2>2, <2>3
<1>3. \A p \in P : \E q \in Q : p.facet = q.facet
  <2> SUFFICES ASSUME NEW p \in P PROVE \E q \in Q : p.facet = q.facet
    OBVIOUS
  <2>1. LogicalKey(p) \in Keys(Q)
    BY DEF Keys
  <2>2. PICK q \in Q : LogicalKey(q) = LogicalKey(p)
    BY <2>1 DEF Keys
  <2>3. p.facet = q.facet
    BY <2>2, KeyFields
  <2> QED
    BY <2>3
<1>4. \A q \in C : \E p \in A : /\ LogicalKey(p) = LogicalKey(q) /\ p.facet = q.facet
                                /\ p.op = q.op /\ p.value = q.value
  BY <1>2 DEF ReservedPreferences
<1>5. A = {} <=> C = {}
  BY <1>2, <1>3 DEF ReservedPreferences
<1>6. \A p, q \in C : p = q
  <2> SUFFICES ASSUME NEW p \in C, NEW q \in C PROVE p = q
    OBVIOUS
  <2>1. LogicalKey(p) = LogicalKey(q)
    BY <1>1, <1>4
  <2>2. p \in Q /\ q \in Q
    BY DEF ReservedPreferences
  <2> QED
    BY <2>1, <2>2 DEF Distinct
<1>7. \A p \in C : ReservedValid(p)
  <2> SUFFICES ASSUME NEW p \in C PROVE ReservedValid(p)
    OBVIOUS
  <2>1. PICK a \in A : a.facet = p.facet /\ a.op = p.op /\ a.value = p.value
    BY <1>4
  <2> QED
    BY <1>1, <2>1 DEF ReservedValid
<1>8. ActiveFacets(Q) = ActiveFacets(P)
  <2>1. {p.facet : p \in Q} = {p.facet : p \in P}
    BY <1>2, <1>3
  <2> QED
    BY <2>1 DEF ActiveFacets
<1>9. EffectiveScope(Q) = EffectiveScope(P)
  <2> DEFINE a == CHOOSE p \in A : TRUE
             c == CHOOSE p \in C : TRUE
  <2>1. CASE A = {}
    BY <1>5, <2>1 DEF EffectiveScope
  <2>2. CASE A # {}
    <3>1. a \in A /\ c \in C
      BY <1>5, <2>2
    <3>2. a.value = c.value
      <4> HIDE DEF a, c, A, C
      <4> QED
        BY <1>1, <1>4, <3>1
    <3>3. /\ EffectiveScope(P) = CHOOSE s \in a.value : TRUE
          /\ EffectiveScope(Q) = CHOOSE s \in c.value : TRUE
      BY <1>5, <2>2 DEF EffectiveScope
    <3> HIDE DEF a, c
    <3> QED
      BY <3>2, <3>3
  <2> QED
    BY <2>1, <2>2
<1> QED
  BY <1>1, <1>6, <1>7, <1>8, <1>9 DEF CompleteIntent

\* A set that is empty or a singleton has at most one element.
LEMMA AtMostOne ==
    ASSUME NEW X, NEW x, X = {} \/ X = {x}
    PROVE  Cardinality(X) <= 1
<1>1. CASE X = {}
  <2>1. Cardinality(X) = 0
    BY <1>1, FS_EmptySet
  <2> QED
    BY <2>1
<1>2. CASE X = {x}
  <2>1. Cardinality({x}) = 1
    BY FS_Singleton
  <2>2. Cardinality(X) = 1
    BY <1>2, <2>1
  <2> QED
    BY <2>2
<1> QED
  BY <1>1, <1>2

\* A list that is carried out keeps the order the gateway asks for.
LEMMA CarriedInOrder ==
    ASSUME NEW i, NEW f, NEW target, NEW t, Setting(i, f, target, t),
           NEW ops, ops # <<>>, Clear(Category) \notin RangeOf(ops),
           NEW z \in {0, 1}, NEW meanings, Carries(ops, meanings, z, i, t)
    PROVE  BatchValid(ops) /\ ReservedMatrix(i, ops)
<1> DEFINE N == Len(ops)
           OnIt(n) == ops[n].op = "replace" /\ ops[n].facet = Category
           replacing == {n \in DOMAIN ops : OnIt(n)}
           current == Ids(ReservedPreferences(i.prefs))
           replaced == UNION {Ids(ReservedPreferences(RangeOf(ops[n].prefs))) : n \in replacing}
           categoryIds == current \cup replaced
<1>1. /\ Listed(ops) /\ N \in Nat /\ DOMAIN ops = 1..N
      /\ \A n \in 1..N : OperationValid(ops[n]) /\ Lawful(ops[n], n, z, i, t)
  BY Sequences DEF Carries
<1>2. 1 \in 1..N
  <2>1. RangeOf(ops) # {}
    BY <1>1, Elements
  <2> QED
    BY <1>1, <2>1 DEF RangeOf
<1>3. BatchValid(ops)
  <2>1. \A n \in DOMAIN ops : ops[n].op = "switch" => n = 1
    <3> SUFFICES ASSUME NEW n \in 1..N, ops[n].op = "switch" PROVE n = 1
      BY <1>1
    <3>1. n <= z
      BY <1>1 DEF Lawful
    <3> QED
      BY <3>1
  <2>2. IsTuple(ops)
    BY <1>1, TupleOf
  <2> QED
    BY <1>1, <2>1, <2>2 DEF BatchValid
<1>4. \A n \in replacing : /\ n = z + 1 /\ Len(ops[n].prefs) = 1
                           /\ ReservedValid(ops[n].prefs[1])
                           /\ ops[n].prefs[1] \in i.prefs \/ ops[n].prefs[1].id[1] = t
                           /\ Listed(ops[n].prefs)
  <2> SUFFICES ASSUME NEW n \in 1..N, OnIt(n)
               PROVE  /\ n = z + 1 /\ Len(ops[n].prefs) = 1
                      /\ ReservedValid(ops[n].prefs[1])
                      /\ ops[n].prefs[1] \in i.prefs \/ ops[n].prefs[1].id[1] = t
                      /\ Listed(ops[n].prefs)
    BY <1>1
  <2>1. Listed(ops[n].prefs)
    BY <1>1 DEF OperationValid, ReplacementValid, IsTuple, Listed
  <2> QED
    BY <1>1, <2>1 DEF Lawful
<1>5. \A n \in replacing : n = IF ops[1].op = "switch" THEN 2 ELSE 1
  <2>1. (ops[1].op = "switch") <=> 1 <= z
    BY <1>1, <1>2 DEF Lawful
  <2> HIDE DEF replacing
  <2>2. CASE z = 0
    BY <1>4, <2>1, <2>2
  <2>3. CASE z = 1
    BY <1>4, <2>1, <2>3
  <2> QED
    BY <2>2, <2>3
<1>6. Cardinality(replacing) <= 1
  <2>1. replacing \subseteq {z + 1}
    BY <1>4
  <2>2. replacing = {} \/ replacing = {z + 1}
    BY <2>1
  <2> HIDE DEF replacing
  <2> QED
    BY <2>2, AtMostOne
<1>7. \A a, b \in current : a = b
  <2>1. \A p, q \in ReservedPreferences(i.prefs) : p = q
    BY DEF Setting, Proper, IntentAllowed, CompleteIntent
  <2> QED
    BY <2>1 DEF Ids
<1>8. \A S : Cardinality(S \cap current) <= 1
  <2> SUFFICES ASSUME NEW S PROVE Cardinality(S \cap current) <= 1
    OBVIOUS
  <2> DEFINE X == S \cap current
  <2>1. \A a, b \in X : a = b
    BY <1>7
  <2> HIDE DEF X
  <2>2. X = {} \/ \E a : X = {a}
    BY <2>1
  <2>3. Cardinality(X) <= 1
    BY <2>2, AtMostOne
  <2> QED
    BY <2>3 DEF X
<1>9. /\ \A p \in i.prefs : p.id \in IdTuples /\ p.id[1] < t
      /\ t \in Nat /\ \A p, q \in i.prefs : p.id = q.id => p = q
  BY DEF Setting, Proper, IntentAllowed, ValidIntent, UniqueIds
<1>10. \A e \in categoryIds : e \notin Ids(On(i.prefs, SemanticOnly))
  <2> SUFFICES ASSUME NEW e \in categoryIds, NEW p \in i.prefs, p.facet = SemanticOnly,
                      p.id = e
               PROVE  FALSE
    BY DEF Ids, On
  <2>1. Category # SemanticOnly
    BY FacetsAssumption
  <2>2. CASE e \in current
    <3>1. PICK q \in i.prefs : q.facet = Category /\ q.id = e
      BY <2>2 DEF Ids, ReservedPreferences
    <3> QED
      BY <1>9, <2>1, <3>1
  <2>3. CASE e \in replaced
    <3>1. PICK n \in replacing : e \in Ids(ReservedPreferences(RangeOf(ops[n].prefs)))
      BY <2>3
    <3> DEFINE r == ops[n].prefs
    <3>2. Listed(r) /\ Len(r) = 1 /\ ReservedValid(r[1])
          /\ (r[1] \in i.prefs \/ r[1].id[1] = t)
      BY <1>4
    <3>3. PICK q \in RangeOf(r) : q.id = e
      BY <3>1 DEF Ids, ReservedPreferences
    <3> HIDE DEF r
    <3>4. DOMAIN r = 1..1
      BY <3>2, Sequences
    <3>5. q = r[1]
      BY <3>3, <3>4 DEF RangeOf
    <3>6. CASE r[1] \in i.prefs
      BY <1>9, <2>1, <3>2, <3>3, <3>5, <3>6 DEF ReservedValid
    <3>7. CASE r[1].id[1] = t
      <4>1. p.id[1] = t /\ p.id[1] < t /\ p.id[1] \in Nat
        BY <1>9, <3>3, <3>5, <3>7 DEF IdTuples
      <4> QED
        BY <1>9, <4>1
    <3> QED
      BY <3>2, <3>6, <3>7
  <2> QED
    BY <2>2, <2>3
<1> HIDE DEF categoryIds, current
<1>11. \A n \in DOMAIN ops :
          CASE ops[n].op = "add" -> ops[n].pref.facet # Category
            [] ops[n].op = "replace" ->
                   OnIt(n) => /\ Len(ops[n].prefs) = 1
                              /\ ReservedValid(ops[n].prefs[1])
            [] ops[n].op = "remove" ->
                   RangeOf(ops[n].ids) \cap categoryIds = {}
            [] ops[n].op \in {"clear", "dont_care"} ->
                   ops[n].facet # Category
            [] OTHER -> Cardinality(RangeOf(ops[n].carry) \cap current) <= 1
  <2> SUFFICES ASSUME NEW n \in DOMAIN ops
               PROVE CASE ops[n].op = "add" -> ops[n].pref.facet # Category
                       [] ops[n].op = "replace" ->
                              OnIt(n) => /\ Len(ops[n].prefs) = 1
                                         /\ ReservedValid(ops[n].prefs[1])
                       [] ops[n].op = "remove" ->
                              RangeOf(ops[n].ids) \cap categoryIds = {}
                       [] ops[n].op \in {"clear", "dont_care"} ->
                              ops[n].facet # Category
                       [] OTHER -> Cardinality(RangeOf(ops[n].carry) \cap current) <= 1
    OBVIOUS
  <2> DEFINE o == ops[n]
  <2>1. Lawful(o, n, z, i, t)
    BY <1>1
  <2>2. o.op = "add" => o.pref.facet # Category
    BY <2>1 DEF Lawful
  <2>3. OnIt(n) => Len(o.prefs) = 1 /\ ReservedValid(o.prefs[1])
    BY <1>4
  <2>4. o.op = "remove" => RangeOf(o.ids) \cap categoryIds = {}
    BY <1>10, <2>1 DEF Lawful
  <2>5. o.op \in {"clear", "dont_care"} => o.facet # Category
    <3>1. o \in RangeOf(ops)
      BY DEF RangeOf
    <3>2. o # Clear(Category)
      BY <3>1
    <3> HIDE DEF o
    <3> QED
      BY <2>1, <3>2 DEF Lawful
  <2>6. Cardinality(RangeOf(o.carry) \cap current) <= 1
    BY <1>8
  <2> HIDE DEF OnIt
  <2> QED
    BY <2>2, <2>3, <2>4, <2>5, <2>6
<1>12. ReservedMatrix(i, ops)
  BY <1>5, <1>6, <1>11, Zenon DEF ReservedMatrix, categoryIds, current
<1> QED
  BY <1>3, <1>12

\* The gateway accepts the plan of a setting.
LEMMA PreviewAccepts ==
    ASSUME NEW i, NEW f, Worded(f), NEW target, NEW t, Setting(i, f, target, t),
           NEW ops, ops = PlannedOperations(i, f, t, target),
           ops # <<>>, Clear(Category) \notin RangeOf(ops),
           NEW batch, batch = [turn |-> t, base |-> i.version, ops |-> ops]
    PROVE  Preview(i, batch).ok
<1> DEFINE s == Reduction(i, ops, t)
           T == Whole(target, t)
           D == DesiredDontCare(f, target)
<1>1. /\ Proper(i) /\ Targeted(i, f, target) /\ t \in Nat
      /\ IntentAllowed(i) /\ ValidIntent(i.prefs, i.dontCare)
      /\ CompleteIntent(T, D)
  BY DEF Setting, Proper, IntentAllowed
<1>2. PICK z \in {0, 1} : \E meanings : Carries(ops, meanings, z, i, t)
  BY PlanCarried
<1>3. PICK meanings : Carries(ops, meanings, z, i, t)
  BY <1>2
<1>4. /\ Listed(ops) /\ \A n \in DOMAIN ops : OperationValid(ops[n])
      /\ s.ok
  BY <1>3 DEF Carries
<1>5. BatchValid(ops) /\ ReservedMatrix(i, ops)
  BY <1>3, CarriedInOrder
<1>6. Attained(s.work, i, f, target) /\ Kempt(s, i, t)
  <2>1. s = Reduction(i, ops, t)
    OBVIOUS
  <2> HIDE DEF s
  <2> QED
    BY <1>1, <1>4, <2>1, PlanAttains
<1>7. batch.turn = t /\ batch.base = i.version /\ batch.ops = ops
  OBVIOUS
<1> HIDE DEF s, T, D
<1>8. ReduceIntent(i, batch).ok /\ ReduceIntent(i, batch).intent = Snapshot(i, s.work)
  BY <1>1, <1>4, <1>5, <1>7 DEF ReduceIntent, s
<1>9. Distinct(s.work.prefs)
  BY <1>6, ValidDistinct DEF Kempt, Reduced
<1>10. Keys(T) = Keys(s.work.prefs)
  <2>1. /\ \A p \in T : p \in target.old \/ LogicalKey(p) \in RangeOf(target.new)
        /\ \A c \in RangeOf(target.new) : \E p \in T : LogicalKey(p) = c
        /\ target.old \subseteq T
    BY <1>1, WholeSays DEF T
  <2>2. /\ target.old \subseteq s.work.prefs
        /\ \A c \in RangeOf(target.new) : \E p \in s.work.prefs : LogicalKey(p) = c
        /\ \A p \in s.work.prefs : p \in target.old \/ LogicalKey(p) \in RangeOf(target.new)
    BY <1>6 DEF Attained, AimedAt
  <2>3. ASSUME NEW c \in Keys(T) PROVE c \in Keys(s.work.prefs)
    <3>1. PICK p \in T : LogicalKey(p) = c
      BY <2>3 DEF Keys
    <3>2. \E q \in s.work.prefs : LogicalKey(q) = c
      BY <2>1, <2>2, <3>1
    <3> QED
      BY <3>2 DEF Keys
  <2>4. ASSUME NEW c \in Keys(s.work.prefs) PROVE c \in Keys(T)
    <3>1. PICK p \in s.work.prefs : LogicalKey(p) = c
      BY <2>4 DEF Keys
    <3>2. \E q \in T : LogicalKey(q) = c
      BY <2>1, <2>2, <3>1
    <3> QED
      BY <3>2 DEF Keys
  <2> QED
    BY <2>3, <2>4
<1>11. CompleteIntent(s.work.prefs, s.work.dontCare)
  <2>1. s.work.dontCare = D
    BY <1>6 DEF Attained, D
  <2> QED
    BY <1>1, <1>9, <1>10, <2>1, CompleteMoves
<1>12. /\ Snapshot(i, s.work).prefs = s.work.prefs
       /\ Snapshot(i, s.work).dontCare = s.work.dontCare
  BY DEF Snapshot
<1>13. /\ ReduceIntent(i, batch).ok
       /\ CompleteIntent(ReduceIntent(i, batch).intent.prefs,
                         ReduceIntent(i, batch).intent.dontCare)
       /\ ReservedMatrix(i, batch.ops) /\ IntentAllowed(i)
  BY <1>1, <1>5, <1>7, <1>8, <1>11, <1>12
<1> QED
  BY <1>13 DEF Preview

----------------------------------------------------------------------------
(* The refusals of the gateway *)

\* What an accepted plan leads to is spoken as the intent and the frame are.
LEMMA PlanSpoken ==
    ASSUME NEW i, Proper(i), Spoken(i.prefs),
           NEW f, Formed(f), Worded(f), Spoken(Items(f)), NEW t \in Nat,
           NEW m, m = Materialized(i, f, t), m.error = "none"
    PROVE  Spoken(m.final.prefs)
<1>1. PICK target : Targeted(i, f, target) /\ Attained(m.final, i, f, target)
  BY PlanLeads
<1>2. \A p \in m.final.prefs : p \in target.old \/ LogicalKey(p) \in RangeOf(target.new)
  BY <1>1 DEF Attained, AimedAt
<1> QED
  BY <1>1, <1>2, TargetSpoken

\* Where the ids sort as texts, the plan is refused by the gateway only if the
\* whole target is no intent of the release.
RefusedRightly(m, i, f, t) ==
    m.error = "preview_rejected" /\ Textual(Ids(i.prefs)) =>
        ~IntentAllowed([prefs |-> Whole(Target(i, f), t),
                        dontCare |-> DesiredDontCare(f, Target(i, f))])

\* The planner has the gateway refuse nothing else.
LEMMA PlanRefusedRightly ==
    ASSUME NEW i, Proper(i), Spoken(i.prefs),
           NEW f, Formed(f), Worded(f), Spoken(Items(f)),
           NEW t \in Nat, \A p \in i.prefs : p.id[1] < t,
           NEW m, m = Materialized(i, f, t)
    PROVE  RefusedRightly(m, i, f, t)
<1> DEFINE target == TargetOf(i, f, Candidates(i, f))
           ops == PlannedOperations(i, f, t, target)
           batch == [turn |-> t, base |-> i.version, ops |-> ops]
           preview == Preview(i, batch)
           T == Whole(target, t)
           D == DesiredDontCare(f, target)
<1> SUFFICES ASSUME m.error = "preview_rejected", Textual(Ids(i.prefs)),
                    IntentAllowed([prefs |-> T, dontCare |-> D])
             PROVE  FALSE
  BY DEF RefusedRightly, Target
<1>1. ValidIntent(T, D) /\ CompleteIntent(T, D)
  BY DEF IntentAllowed
<1>2. ops # <<>> /\ Clear(Category) \notin RangeOf(ops) /\ ~preview.ok
  <2>1. FrameError(i, f, Candidates(i, f)) = "none"
    <3>1. FrameError(i, f, Candidates(i, f)) # "preview_rejected"
      BY DEF FrameError
    <3>2. m.error = FrameError(i, f, Candidates(i, f))
          \/ FrameError(i, f, Candidates(i, f)) = "none"
      BY DEF Materialized, Considered, Refused
    <3> QED
      BY <3>1, <3>2
  <2>2. m = Carried(i, f, t, ops)
    BY <2>1 DEF Materialized, Considered
  <2>3. m = Previewed(i, f, ops, preview)
    BY <2>2 DEF Carried
  <2> HIDE DEF ops, preview
  <2> QED
    BY <2>3 DEF Previewed, Refused
<1>3. CompleteIntent(i.prefs, i.dontCare)
  BY DEF Proper, IntentAllowed
<1>4. Targeted(i, f, target)
  BY <1>3, TargetTold
<1>5. /\ ops = PlannedOperations(i, f, t, target)
      /\ batch = [turn |-> t, base |-> i.version, ops |-> ops]
      /\ preview = Preview(i, batch) /\ T = Whole(target, t)
      /\ D = DesiredDontCare(f, target)
  OBVIOUS
<1> HIDE DEF target, ops, batch, preview, T, D
<1>6. Spoken(T)
  <2>1. \A p \in T : p \in target.old \/ LogicalKey(p) \in RangeOf(target.new)
    BY <1>4, <1>5, WholeSays
  <2> QED
    BY <1>4, <2>1, TargetSpoken
<1>7. Setting(i, f, target, t)
  BY <1>1, <1>4, <1>5, <1>6 DEF Setting
<1>8. preview.ok
  BY <1>2, <1>5, <1>7, PreviewAccepts
<1> QED
  BY <1>2, <1>8

\* The intent is spoken, as is the one an accepted plan leads to, and what is
\* refused is refused rightly.
Uttered ==
    /\ Spoken(intent.prefs)
    /\ Judged /\ plan.error = "none" => Spoken(plan.final.prefs)
    /\ Judging => RefusedRightly(plan, intent, frame, turn)

\* Nothing is said or judged at first.
LEMMA UtteredInit == TurnInit => Uttered
<1> SUFFICES ASSUME TurnInit PROVE Uttered
  OBVIOUS
<1>1. intent.prefs = {} /\ ~Judged
  BY DEF TurnInit, Init, Judged
<1> QED
  BY <1>1 DEF Uttered, Spoken, Judging

\* Whatever step is taken, the plan of a frame is refused rightly.
LEMMA UtteredNext ==
    ASSUME Understood, Framed, Uttered, [TurnNext]_turnVars PROVE Uttered'
<1>1. CASE UNCHANGED vars
  <2>1. /\ intent' = intent /\ plan' = plan /\ frame' = frame /\ turn' = turn
    BY <1>1 DEF vars
  <2> QED
    BY <2>1 DEF Uttered, Judged, Judging
<1>2. CASE Provide
  <2>1. intent.dontCare \subseteq Facets
    BY DEF Framed, Proper, IntentAllowed, ValidIntent
  <2>2. PICK f : Formed(f) /\ Worded(f) /\ Spoken(Items(f)) /\ Answer(f)
    BY <1>2, <2>1, ProvidedForm
  <2>3. /\ plan' = Materialized(intent, f, turn) /\ intent' = intent /\ frame' = f
        /\ turn' = turn
    BY <2>2 DEF Answer
  <2>4. /\ turn \in Nat /\ Proper(intent) /\ Spoken(intent.prefs)
        /\ \A p \in intent.prefs : p.id[1] < turn
    BY DEF Framed, Understood, Uttered
  <2>5. plan'.error = "none" => Spoken(plan'.final.prefs)
    BY <2>2, <2>3, <2>4, PlanSpoken
  <2>6. RefusedRightly(plan', intent, f, turn)
    BY <2>2, <2>3, <2>4, PlanRefusedRightly
  <2> QED
    BY <2>3, <2>4, <2>5, <2>6 DEF Uttered
<1>3. CASE Malformed
  <2>1. plan'.error = "invalid_frame" /\ intent' = intent /\ frame' = BadFrame
    BY <1>3 DEF Malformed, NoPlan
  <2> QED
    BY <2>1 DEF Uttered, Judging
<1>4. CASE ProviderFails \/ Repair \/ GiveUp
  <2>1. intent' = intent /\ frame' = NoFrame
    BY <1>4 DEF ProviderFails, Asking, Repair, GiveUp, Forget
  <2> QED
    BY <2>1 DEF Uttered, Judged, Judging
<1>5. CASE Commit
  <2>1. /\ Judged /\ plan.error = "none" /\ intent' = plan.final
        /\ frame' = NoFrame
    BY <1>5 DEF Commit, Forget
  <2> QED
    BY <2>1 DEF Uttered, Judged, Judging
<1>6. \/ UNCHANGED vars
      \/ Provide \/ Malformed \/ ProviderFails \/ Repair \/ GiveUp \/ Commit
  <2>1. UNCHANGED turnVars => UNCHANGED vars
    BY DEF turnVars
  <2>2. TurnNext => \/ UNCHANGED vars
                    \/ Provide \/ Malformed \/ ProviderFails \/ Repair \/ GiveUp \/ Commit
    BY DEF TurnNext, Understand, Resolve, Search, SearchFails, Rank, NextMessage
  <2> QED
    BY <2>1, <2>2
<1> QED
  BY <1>1, <1>2, <1>3, <1>4, <1>5, <1>6

\* The invariant says what the property says, where the ids sort as texts.
LEMMA UtteredRefused ==
    Uttered => (Textual(Ids(intent.prefs)) => RefusedOnlyIfUnsatisfiable)
<1> SUFFICES ASSUME Uttered, Textual(Ids(intent.prefs)),
                    Judging, plan.error = "preview_rejected"
             PROVE  ~IntentAllowed([prefs |-> TargetPrefs,
                                    dontCare |-> DesiredDontCare(frame, Target(intent, frame))])
  BY DEF RefusedOnlyIfUnsatisfiable
<1>1. RefusedRightly(plan, intent, frame, turn)
  BY DEF Uttered
<1>2. TargetPrefs = Whole(Target(intent, frame), turn)
  BY DEF TargetPrefs, Whole
<1> QED
  BY <1>1, <1>2 DEF RefusedRightly

----------------------------------------------------------------------------
(* Theorems *)

\* Nothing is searched at first.
LEMMA SearchedInit == TurnInit => Searched
  BY DEF TurnInit, Searched

\* What the invariant says of a slate is what the property says.
LEMMA SlatesHonour == Understood /\ Searched => SlateHonoursIntent
<1> SUFFICES ASSUME Understood, Searched, stage = "answered", shown # {}
             PROVE  SlateHonoursIntent
  BY DEF SlateHonoursIntent
<1> DEFINE excluded == UNION {Matching(p) : p \in Exclusions(intent.prefs)}
           asked == Inclusions(intent.prefs)
           met == {p \in asked : shown \subseteq Matching(p)}
           Meeting(prefs) == {x \in Product \ excluded : \A p \in prefs : x \in Matching(p)}
           open == Product \ excluded
           E == Mask.eligible
<1>1. Masking(open, asked, Mask) /\ shown \subseteq E
  BY MaskOfIntent DEF Searched, OpenTo
<1>2. shown \cap excluded = {}
  BY <1>1 DEF Masking
<1>3. ASSUME NEW p \in asked \ met, NEW x \in Meeting(met \cup {p}) PROVE FALSE
  <2>1. x \in open /\ x \in Matching(p) /\ \A q \in met : x \in Matching(q)
    BY <1>3
  <2> HIDE DEF open, asked
  <2>2. E \cap Matching(p) = {}
    <3>1. ~(E \subseteq Matching(p)) /\ p \in asked
      BY <1>1, <1>3
    <3> QED
      BY <1>1, <3>1 DEF Masking
  <2>3. PICK q \in asked : E \subseteq Matching(q) /\ x \notin Matching(q)
    BY <1>1, <2>1, <2>2 DEF Masking
  <2>4. q \in met
    BY <1>1, <2>3
  <2> QED
    BY <2>1, <2>3, <2>4
<1>4. \A p \in asked \ met : Meeting(met \cup {p}) = {}
  BY <1>3
<1> QED
  BY <1>2, <1>4 DEF SlateHonoursIntent

\* What is eligible and found is as much as there is.
LEMMA SlatesFull == Understood /\ Searched => FullSlate
<1> SUFFICES ASSUME Understood, Searched, stage = "answered" PROVE FullSlate
  BY DEF FullSlate
<1>1. /\ Masking(OpenTo(intent.prefs), Inclusions(intent.prefs), Mask)
      /\ IsFiniteSet(Mask.eligible)
  BY MaskOfIntent
<1>2. Cardinality(shown) = Fewer(TopK, Cardinality(Mask.eligible))
  BY DEF Searched
<1>3. TopK \in Nat \ {0} /\ Cardinality(Mask.eligible) \in Nat
  BY <1>1, BudgetsAssumption, FS_CardinalityType
<1>4. Fewer(TopK, Cardinality(Mask.eligible))
         = IF Cardinality(Mask.eligible) < TopK THEN Cardinality(Mask.eligible) ELSE TopK
  BY <1>3 DEF Fewer
<1>5. shown = {} => OpenTo(intent.prefs) = {}
  <2> SUFFICES ASSUME shown = {} PROVE OpenTo(intent.prefs) = {}
    OBVIOUS
  <2>1. Cardinality(shown) = 0
    BY FS_EmptySet
  <2>2. Cardinality(Mask.eligible) = 0
    BY <1>2, <1>3, <1>4, <2>1
  <2>3. Mask.eligible = {}
    BY <1>1, <2>2, FS_EmptySet
  <2> QED
    BY <1>1, <2>3 DEF Masking
<1> QED
  BY <1>2, <1>4, <1>5 DEF FullSlate, OpenTo

\* The masks of two intents agree on the older requirements.
LEMMA GivesWay ==
    ASSUME Understood, [TurnNext]_turnVars,
           intent.prefs \subseteq intent'.prefs, intent.prefs # intent'.prefs,
           Exclusions(intent'.prefs) = Exclusions(intent.prefs)
    PROVE  HardMask(intent'.prefs).relaxed \cap intent.prefs
              \subseteq HardMask(intent.prefs).relaxed
<1>1. Commit
  BY DEF TurnNext, turnVars, vars, Understand, Resolve, Search, SearchFails, Rank,
         NextMessage, Provide, Answer, Malformed, ProviderFails, Repair, GiveUp
<1>2. /\ Understood'
      /\ \A p \in intent'.prefs : p.id \in Ids(intent.prefs) \/ p.id[1] = turn
  BY <1>1, UnderstoodCommit
<1>3. Ordered(Inclusions(intent'.prefs))
  BY <1>2, OrderedRequirements DEF Understood
<1>4. ASSUME NEW p \in intent.prefs, NEW q \in intent'.prefs \ intent.prefs
      PROVE  IdLess(p.id, q.id)
  <2>1. q.id \notin Ids(intent.prefs)
    <3> SUFFICES ASSUME NEW r \in intent.prefs, r.id = q.id PROVE FALSE
      BY DEF Ids
    <3>1. \A a, b \in intent'.prefs : a.id = b.id => a = b
      BY <1>2 DEF Understood, ValidIntent, UniqueIds
    <3> QED
      BY <3>1
  <2>2. q.id[1] = turn /\ p.id[1] < turn
    BY <1>2, <2>1 DEF Understood
  <2> QED
    BY <2>2 DEF IdLess
<1> QED
  BY <1>3, <1>4, OlderKept

\* Nothing the user excludes is shown, and a requirement the slate does not
\* meet cannot be met together with those it meets (hard_mask.py).
THEOREM SlatesHonourIntents == TurnSpec => []SlateHonoursIntent
<1>1. TurnInit => Understood /\ Searched
  BY UnderstoodInit, SearchedInit
<1>2. Understood /\ Searched /\ [TurnNext]_turnVars => (Understood /\ Searched)'
  BY UnderstoodNext, SearchedNext
<1> QED
  BY <1>1, <1>2, SlatesHonour, PTL DEF TurnSpec

\* The slate is as long as the products that are left allow, and empty only
\* if exclusions leave none (controller._transparency_aware_routes).
THEOREM SlatesAreFull == TurnSpec => []FullSlate
<1>1. TurnInit => Understood /\ Searched
  BY UnderstoodInit, SearchedInit
<1>2. Understood /\ Searched /\ [TurnNext]_turnVars => (Understood /\ Searched)'
  BY UnderstoodNext, SearchedNext
<1> QED
  BY <1>1, <1>2, SlatesFull, PTL DEF TurnSpec

\* Preferences of a later turn relax no requirement of an earlier one that
\* was met (HardMaskResolver.resolve).
THEOREM NewerGivesWay == TurnSpec => NewestGivesWay
<1>1. TurnInit => Understood
  BY UnderstoodInit
<1>2. Understood /\ [TurnNext]_turnVars => Understood'
  BY UnderstoodNext
<1>3. Understood /\ [TurnNext]_turnVars
        => [/\ intent.prefs \subseteq intent'.prefs
            /\ intent.prefs # intent'.prefs
            /\ Exclusions(intent'.prefs) = Exclusions(intent.prefs)
            => HardMask(intent'.prefs).relaxed \cap intent.prefs
                   \subseteq HardMask(intent.prefs).relaxed]_turnVars
  BY GivesWay
<1> QED
  BY <1>1, <1>2, <1>3, PTL DEF TurnSpec, NewestGivesWay

\* As long as the goal stays, a category, once there, is only changed or
\* broadened (planner._represent_category_broadening).
THEOREM CategoriesStay == TurnSpec => CategoryKept
<1>1. TurnInit => Planned
  BY PlannedInit
<1>2. Planned /\ [TurnNext]_turnVars => Planned'
  BY PlannedNext
<1>3. Planned /\ [TurnNext]_turnVars
        => [/\ intent'.goal = intent.goal
            /\ ReservedPreferences(intent.prefs) # {}
            => ReservedPreferences(intent'.prefs) # {}]_vars
  BY CategoryStep
<1> QED
  BY <1>1, <1>2, <1>3, PTL DEF TurnSpec, CategoryKept

\* An accepted plan leads to exactly what the frame says, as confidently as it
\* says it (planner.materialize, through the reducer).
THEOREM FinalsAreWhatFramesSay == TurnSpec => []FinalIsWhatTheFrameSays
<1>1. TurnInit => Framed
  BY FramedInit
<1>2. Framed /\ [TurnNext]_turnVars => Framed'
  BY FramedNext
<1>3. Framed => FinalIsWhatTheFrameSays
  BY FramedFinal
<1> QED
  BY <1>1, <1>2, <1>3, PTL DEF TurnSpec

\* Where the ids of the intent sort as texts in their order, the gateway
\* refuses a plan only if what the frame asks for is not a valid intent of the
\* release (planner.materialize against reducer and gateway).
THEOREM RefusalsAreDue ==
    TurnSpec => [](Textual(Ids(intent.prefs)) => RefusedOnlyIfUnsatisfiable)
<1>1. TurnInit => Understood /\ Framed /\ Uttered
  BY UnderstoodInit, FramedInit, UtteredInit
<1>2. Understood /\ Framed /\ Uttered /\ [TurnNext]_turnVars
      => (Understood /\ Framed /\ Uttered)'
  BY UnderstoodNext, FramedNext, UtteredNext
<1>3. Uttered => (Textual(Ids(intent.prefs)) => RefusedOnlyIfUnsatisfiable)
  BY UtteredRefused
<1> QED
  BY <1>1, <1>2, <1>3, PTL DEF TurnSpec

\* So in particular while the numbers in the ids have one digit each.
THEOREM EarlyRefusalsAreDue ==
    TurnSpec => []((\A a \in Ids(intent.prefs) :
                       a[1] \in 0..9 /\ a[2] \in 0..9 /\ a[3] \in 0..9)
                   => RefusedOnlyIfUnsatisfiable)
<1>1. (\A a \in Ids(intent.prefs) : a[1] \in 0..9 /\ a[2] \in 0..9 /\ a[3] \in 0..9)
      => Textual(Ids(intent.prefs))
  BY OneDigitTextual
<1>2. TurnSpec => [](Textual(Ids(intent.prefs)) => RefusedOnlyIfUnsatisfiable)
  BY RefusalsAreDue
<1> QED
  BY <1>1, <1>2, PTL
============================================================================
