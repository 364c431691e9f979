------------------------ MODULE CatalogSessionProofs ------------------------
(***************************************************************************)
(* Proofs about a session of the catalog-bound store, for every catalog    *)
(* and every number of transactions, operations and probes.                *)
(*                                                                         *)
(* The two loops of the code, the reduction of a batch and the replay of a *)
(* log, are recursive functions of the model.  The first sections unfold   *)
(* them: induction is taken from the well-foundedness of the numbers, on   *)
(* sets instead of predicates.  The inductive invariant is Authority:      *)
(*   Typed      the types of the variables                                 *)
(*   Identity   ids and meanings denote each other in what a batch knows,  *)
(*              and the ids of the session precede the next one allocated  *)
(*   Previewing the committed intent is allowed, and the state of the open *)
(*              batch is its reduction, which a commit accepts             *)
(*   Sayable    every known preference says what a caller can say          *)
(* Attested, for the beliefs, is inductive beside it.                      *)
(***************************************************************************)
EXTENDS CatalogSession, FiniteSetTheorems, SequenceTheorems,
        WellFoundedInduction, TLAPS

(* Induction *)

Less == {p \in Nat \X Nat : p[1] < p[2]}

LEMMA LessIsWellFounded == IsWellFoundedOn(Less, Nat)
<1>1. OpToRel(<, Nat) = Less
  BY Zenon DEF OpToRel, Less
<1> QED
  BY NatLessThanWellFounded, <1>1, Zenon

\* Induction, on a set of numbers.
LEMMA SetInduction ==
    ASSUME NEW S, 0 \in S, \A n \in Nat : n \in S => n + 1 \in S
    PROVE  Nat \subseteq S
<1> DEFINE T == Nat \ S
<1> SUFFICES ASSUME T # {} PROVE FALSE
  OBVIOUS
<1>1. \A n : n \in T <=> n \in Nat /\ n \notin S
  OBVIOUS
<1> HIDE DEF T
<1>2. PICK x \in T : \A y \in T : ~ (<<y, x>> \in Less)
  BY <1>1, LessIsWellFounded, WFMin
<1>3. x \in Nat /\ x # 0
  BY <1>1
<1>4. x - 1 \in Nat /\ x - 1 \in T
  BY <1>1, <1>3
<1>5. <<x - 1, x>> \in Less
  BY <1>3, <1>4 DEF Less
<1> QED
  BY <1>2, <1>4, <1>5

----------------------------------------------------------------------------
(* The recursions of the model, unfolded *)

\* f holds the results of the replay of turns up to the n-th.
Replays(f, turns, n) ==
    f = [i \in 0..n |->
            IF i = 0 THEN [ok |-> TRUE, intent |-> EmptyIntent]
            ELSE ReplayStep(f[i - 1], turns[i].batch)]

LEMMA ReplayExists ==
    ASSUME NEW turns, NEW N \in Nat
    PROVE  \E f : Replays(f, turns, N)
<1> DEFINE Done == {n \in Nat : \E f : Replays(f, turns, n)}
<1>1. \A n : n \in Done <=> n \in Nat /\ \E f : Replays(f, turns, n)
  OBVIOUS
<1> HIDE DEF Done
<1>2. 0 \in Done
  <2> DEFINE f == [i \in 0..0 |-> [ok |-> TRUE, intent |-> EmptyIntent]]
  <2>1. Replays(f, turns, 0)
    BY DEF Replays
  <2> QED
    BY <1>1, <2>1
<1>3. ASSUME NEW n \in Nat, n \in Done PROVE n + 1 \in Done
  <2>1. PICK f : Replays(f, turns, n)
    BY <1>1, <1>3
  <2> DEFINE g == [i \in 0..(n + 1) |->
                     IF i = n + 1 THEN ReplayStep(f[n], turns[n + 1].batch) ELSE f[i]]
  <2>2. ASSUME NEW i \in 0..(n + 1)
        PROVE  g[i] = IF i = 0 THEN [ok |-> TRUE, intent |-> EmptyIntent]
                      ELSE ReplayStep(g[i - 1], turns[i].batch)
    <3>1. CASE i = n + 1
      BY <3>1
    <3>2. CASE i # n + 1
      <4>1. i \in 0..n /\ (i # 0 => i - 1 \in 0..n /\ i - 1 # n + 1 /\ i - 1 \in 0..(n+1))
        BY <3>2
      <4>2. g[i] = f[i] /\ (i # 0 => g[i - 1] = f[i - 1])
        BY <4>1, <3>2
      <4>3. f[i] = IF i = 0 THEN [ok |-> TRUE, intent |-> EmptyIntent]
                      ELSE ReplayStep(f[i - 1], turns[i].batch)
        BY <2>1, <4>1 DEF Replays
      <4> QED
        BY <4>2, <4>3
    <3> QED
      BY <3>1, <3>2
  <2>3. Replays(g, turns, n + 1)
    BY <2>2, Zenon DEF Replays
  <2> QED
    BY <1>1, <2>3
<1> QED
  BY <1>1, <1>2, <1>3, SetInduction

LEMMA ReplayedUnfolds ==
    ASSUME NEW turns, NEW f, f = CHOOSE g : Replays(g, turns, Len(turns)),
           Len(turns) \in Nat
    PROVE  Replays(f, turns, Len(turns)) /\ Replayed(turns) = f[Len(turns)]
<1>1. Replayed(turns) = f[Len(turns)]
  BY Zenon DEF Replayed, Replays
<1>2. \E g : Replays(g, turns, Len(turns))
  BY ReplayExists
<1> QED
  BY <1>1, <1>2, Zenon

\* Nothing is replayed of an empty log, and one turn more is replayed on
\* what the turns before it gave.
LEMMA ReplayedStart == Replayed(<<>>) = [ok |-> TRUE, intent |-> EmptyIntent]
<1> DEFINE f == CHOOSE g : Replays(g, <<>>, Len(<<>>))
<1>1. Replays(f, <<>>, 0) /\ Replayed(<<>>) = f[0]
  BY ReplayedUnfolds
<1> HIDE DEF f
<1> QED
  BY <1>1 DEF Replays

LEMMA ReplayedGrows ==
    ASSUME NEW S, NEW turns \in Seq(S), NEW r \in S
    PROVE  Replayed(Append(turns, r)) = ReplayStep(Replayed(turns), r.batch)
<1> DEFINE more == Append(turns, r)
           N == Len(turns)
           f == CHOOSE g : Replays(g, turns, N)
           h == CHOOSE g : Replays(g, more, Len(more))
<1>1. /\ N \in Nat /\ Len(more) = N + 1 /\ more[N + 1] = r
      /\ \A i \in 1..N : more[i] = turns[i]
  OBVIOUS
<1>2. Replays(f, turns, N) /\ Replayed(turns) = f[N]
  BY <1>1, ReplayedUnfolds
<1>0. Replays(h, more, Len(more)) /\ Replayed(more) = h[Len(more)]
  <2>1. Len(more) \in Nat
    BY <1>1
  <2> QED
    BY <2>1, ReplayedUnfolds
<1> HIDE DEF more, N, f, h
<1>3. Replays(h, more, N + 1) /\ Replayed(more) = h[N + 1]
  BY <1>0, <1>1
<1> DEFINE Same == {n \in Nat : n <= N => h[n] = f[n]}
<1>4. 0 \in Same
  BY <1>1, <1>2, <1>3 DEF Replays
<1>5. ASSUME NEW n \in Nat, n \in Same PROVE n + 1 \in Same
  <2> SUFFICES ASSUME n + 1 <= N PROVE h[n + 1] = f[n + 1]
    OBVIOUS
  <2>1. h[n] = f[n] /\ more[n + 1] = turns[n + 1]
    BY <1>1, <1>5
  <2>2. n + 1 \in 0..N /\ n + 1 \in 0..(N + 1) /\ n + 1 # 0 /\ (n + 1) - 1 = n
    BY <1>1
  <2>3. f[n + 1] = ReplayStep(f[n], turns[n + 1].batch)
    BY <1>2, <2>2 DEF Replays
  <2>4. h[n + 1] = ReplayStep(h[n], more[n + 1].batch)
    BY <1>3, <2>2 DEF Replays
  <2> QED
    BY <2>1, <2>3, <2>4
<1>6. h[N] = f[N]
  <2> HIDE DEF Same
  <2>1. N \in Same
    BY <1>1, <1>4, <1>5, SetInduction
  <2> QED
    BY <1>1, <2>1 DEF Same
<1>7. h[N + 1] = ReplayStep(h[N], more[N + 1].batch)
  <2>1. N + 1 \in 0..(N + 1) /\ N + 1 # 0 /\ (N + 1) - 1 = N
    BY <1>1
  <2> QED
    BY <1>3, <2>1 DEF Replays
<1> QED
  BY <1>1, <1>2, <1>3, <1>6, <1>7 DEF more

\* f holds the states of the reduction of ops up to the n-th.
Reduces(f, base, list, turn, n) ==
    f = [k \in 0..n |->
            IF k = 0 THEN Start(base)
            ELSE Continued(f[k - 1], base.prefs, list[k], turn, k - 1)]

LEMMA ReductionExists ==
    ASSUME NEW base, NEW list, NEW turn, NEW N \in Nat
    PROVE  \E f : Reduces(f, base, list, turn, N)
<1> DEFINE Done == {n \in Nat : \E f : Reduces(f, base, list, turn, n)}
<1>1. \A n : n \in Done <=> n \in Nat /\ \E f : Reduces(f, base, list, turn, n)
  OBVIOUS
<1> HIDE DEF Done
<1>2. 0 \in Done
  <2> DEFINE f == [k \in 0..0 |-> Start(base)]
  <2>1. Reduces(f, base, list, turn, 0)
    BY DEF Reduces
  <2> QED
    BY <1>1, <2>1
<1>3. ASSUME NEW n \in Nat, n \in Done PROVE n + 1 \in Done
  <2>1. PICK f : Reduces(f, base, list, turn, n)
    BY <1>1, <1>3
  <2> DEFINE g == [k \in 0..(n + 1) |->
                     IF k = n + 1
                     THEN Continued(f[n], base.prefs, list[n + 1], turn, n)
                     ELSE f[k]]
  <2>2. ASSUME NEW k \in 0..(n + 1)
        PROVE  g[k] = IF k = 0 THEN Start(base)
                      ELSE Continued(g[k - 1], base.prefs, list[k], turn, k - 1)
    <3>1. CASE k = n + 1
      BY <3>1
    <3>2. CASE k # n + 1
      <4>1. /\ k \in 0..n
            /\ k # 0 => k - 1 \in 0..n /\ k - 1 # n + 1 /\ k - 1 \in 0..(n + 1)
        BY <3>2
      <4>2. g[k] = f[k] /\ (k # 0 => g[k - 1] = f[k - 1])
        BY <4>1, <3>2
      <4>3. f[k] = IF k = 0 THEN Start(base)
                   ELSE Continued(f[k - 1], base.prefs, list[k], turn, k - 1)
        BY <2>1, <4>1 DEF Reduces
      <4> QED
        BY <4>2, <4>3
    <3> QED
      BY <3>1, <3>2
  <2>3. Reduces(g, base, list, turn, n + 1)
    BY <2>2, Zenon DEF Reduces
  <2> QED
    BY <1>1, <2>3
<1> QED
  BY <1>1, <1>2, <1>3, SetInduction

LEMMA ReductionUnfolds ==
    ASSUME NEW base, NEW list, NEW turn, NEW f,
           f = CHOOSE g : Reduces(g, base, list, turn, Len(list)),
           Len(list) \in Nat
    PROVE  /\ Reduces(f, base, list, turn, Len(list))
           /\ Reduction(base, list, turn) = f[Len(list)]
<1>1. Reduction(base, list, turn) = f[Len(list)]
  BY Zenon DEF Reduction, Reduces
<1>2. \E g : Reduces(g, base, list, turn, Len(list))
  BY ReductionExists
<1> QED
  BY <1>1, <1>2, Zenon

\* An empty batch leaves the intent as it is, and one operation more works
\* on what the operations before it made.
LEMMA ReductionStart ==
    ASSUME NEW base, NEW turn
    PROVE  Reduction(base, <<>>, turn) = Start(base)
<1> DEFINE f == CHOOSE g : Reduces(g, base, <<>>, turn, Len(<<>>))
<1>1. Reduces(f, base, <<>>, turn, 0) /\ Reduction(base, <<>>, turn) = f[0]
  BY ReductionUnfolds
<1> HIDE DEF f
<1> QED
  BY <1>1 DEF Reduces

LEMMA ReductionGrows ==
    ASSUME NEW base, NEW S, NEW list \in Seq(S), NEW o \in S, NEW turn
    PROVE  Reduction(base, Append(list, o), turn)
           = Continued(Reduction(base, list, turn), base.prefs, o, turn, Len(list))
<1> DEFINE more == Append(list, o)
           N == Len(list)
           f == CHOOSE g : Reduces(g, base, list, turn, N)
           h == CHOOSE g : Reduces(g, base, more, turn, Len(more))
<1>1. /\ N \in Nat /\ Len(more) = N + 1 /\ more[N + 1] = o
      /\ \A i \in 1..N : more[i] = list[i]
  OBVIOUS
<1>2. Reduces(f, base, list, turn, N) /\ Reduction(base, list, turn) = f[N]
  BY <1>1, ReductionUnfolds
<1>0. /\ Reduces(h, base, more, turn, Len(more))
      /\ Reduction(base, more, turn) = h[Len(more)]
  <2>1. Len(more) \in Nat
    BY <1>1
  <2> QED
    BY <2>1, ReductionUnfolds
<1> HIDE DEF more, N, f, h
<1>3. Reduces(h, base, more, turn, N + 1) /\ Reduction(base, more, turn) = h[N + 1]
  BY <1>0, <1>1
<1> DEFINE Same == {n \in Nat : n <= N => h[n] = f[n]}
<1>4. 0 \in Same
  BY <1>1, <1>2, <1>3 DEF Reduces
<1>5. ASSUME NEW n \in Nat, n \in Same PROVE n + 1 \in Same
  <2> SUFFICES ASSUME n + 1 <= N PROVE h[n + 1] = f[n + 1]
    OBVIOUS
  <2>1. h[n] = f[n] /\ more[n + 1] = list[n + 1]
    BY <1>1, <1>5
  <2>2. n + 1 \in 0..N /\ n + 1 \in 0..(N + 1) /\ n + 1 # 0 /\ (n + 1) - 1 = n
    BY <1>1
  <2>3. f[n + 1] = Continued(f[n], base.prefs, list[n + 1], turn, n)
    BY <1>2, <2>2 DEF Reduces
  <2>4. h[n + 1] = Continued(h[n], base.prefs, more[n + 1], turn, n)
    BY <1>3, <2>2 DEF Reduces
  <2> QED
    BY <2>1, <2>3, <2>4
<1>6. h[N] = f[N]
  <2> HIDE DEF Same
  <2>1. N \in Same
    BY <1>1, <1>4, <1>5, SetInduction
  <2> QED
    BY <1>1, <2>1 DEF Same
<1>7. h[N + 1] = Continued(h[N], base.prefs, more[N + 1], turn, N)
  BY <1>1, <1>3 DEF Reduces
<1> QED
  BY <1>1, <1>2, <1>3, <1>6, <1>7 DEF more, N
----------------------------------------------------------------------------
(* Types *)

Contents ==
    [goal : Goals \cup {NoGoal}, prefs : SUBSET Preferences,
     dontCare : SUBSET Facets]

Intents ==
    [goal : Goals \cup {NoGoal}, prefs : SUBSET Preferences,
     dontCare : SUBSET Facets, version : Nat]

Reductions == [ok : BOOLEAN, work : Contents, known : SUBSET Preferences]

Turns == [turn : Nat, batch : Batches \cup {NoBatch}]

Attestations == [version : Nat, about : Intents, probe : Nat]

Tokens ==
    [txn : Nat, expected : Intents, used : BOOLEAN, belief : Attestations]

Typed ==
    /\ intent \in Intents
    /\ log \in Seq(Turns)
    /\ belief \in Attestations \cup {NoBelief}
    /\ txn \in Nat /\ opened \in Nat /\ attempted \in BOOLEAN
    /\ ops \in Seq(OperationRecords) /\ spent \in Nat
    /\ red \in Reductions
    /\ tokens \subseteq Tokens /\ IsFiniteSet(tokens)

\* What an operation of a caller looks like.
Formed(o) ==
    \/ \E p \in Preferences : o = Add(p)
    \/ \E p \in Preferences : p.facet \in Facets /\ o = Replace(p.facet, <<p>>)
    \/ \E id \in PrefIds : o = Remove(<<id>>)
    \/ \E f \in Facets : o = Clear(f) \/ o = DontCare(f)
    \/ \E g \in Goals, ids \in Seq(PrefIds) : o = Switch(g, ids)

LEMMA WithIdTyped ==
    ASSUME NEW s \in Shapes, NEW id \in PrefIds
    PROVE  WithId(s, id) \in Preferences /\ WithId(s, id).facet = s.facet
<1>1. s \in Meanings
  BY SessionAssumption
<1> QED
  BY <1>1, Zenon DEF WithId, Preferences, Meanings

LEMMA OperationsFormed ==
    ASSUME Typed, NEW o \in Operations(Len(ops)), OperationValid(o)
    PROVE  Formed(o)
<1>1. <<Turn, Len(ops), 0>> \in PrefIds /\ <<1, 0, 0>> \in PrefIds
  BY DEF Typed, Turn, PrefIds
<1>2. \A p \in red.known \cup intent.prefs : p \in Preferences /\ p.id \in PrefIds
  BY DEF Typed, Reductions, Intents, Preferences
<1>3. CASE \E p \in red.known : o = Add(p)
  BY <1>2, <1>3 DEF Formed
<1>4. CASE \E s \in AddShapes, id \in {<<Turn, Len(ops), 0>>, <<1, 0, 0>>} :
               o = Add(WithId(s, id))
  BY <1>1, <1>4, WithIdTyped DEF Formed, Shapes
<1>5. CASE \E s \in ReplaceShapes :
               o = Replace(s.facet, <<WithId(s, <<Turn, Len(ops), 0>>)>>)
  <2>1. PICK s \in ReplaceShapes :
            o = Replace(s.facet, <<WithId(s, <<Turn, Len(ops), 0>>)>>)
    BY <1>5
  <2>2. /\ WithId(s, <<Turn, Len(ops), 0>>) \in Preferences
        /\ WithId(s, <<Turn, Len(ops), 0>>).facet = s.facet
    BY <1>1, <2>1, WithIdTyped DEF Shapes
  <2>3. s.facet \in Facets
    BY <2>1 DEF OperationValid, ReplacementValid, Replace
  <2> QED
    BY <2>1, <2>2, <2>3 DEF Formed
<1>6. CASE \E p \in red.known : o = Remove(<<p.id>>)
  BY <1>2, <1>6 DEF Formed
<1>7. CASE \E f \in ClearedFacets : o = Clear(f) \/ o = DontCare(f)
  <2>1. PICK f \in ClearedFacets : o = Clear(f) \/ o = DontCare(f)
    BY <1>7
  <2>2. f \in Facets
    BY <2>1 DEF OperationValid, Clear, DontCare
  <2> QED
    BY <2>1, <2>2 DEF Formed
<1>8. CASE \E g \in Goals : o = Switch(g, <<>>)
  <2>1. <<>> \in Seq(PrefIds)
    OBVIOUS
  <2> QED
    BY <1>8, <2>1 DEF Formed
<1>9. CASE \E g \in Goals, p \in intent.prefs : o = Switch(g, <<p.id>>)
  <2>1. \A p \in intent.prefs : <<p.id>> \in Seq(PrefIds)
    BY <1>2
  <2> QED
    BY <1>9, <2>1 DEF Formed
<1>10. o \in Additions(Len(ops)) \/ o \in Replacements(Len(ops)) \/ o \in Removals
       \/ o \in Clearings \/ o \in Switches
  BY DEF Operations
<1>11. o \in Additions(Len(ops))
       => \/ \E p \in red.known : o = Add(p)
          \/ \E s \in AddShapes, id \in {<<Turn, Len(ops), 0>>, <<1, 0, 0>>} :
                 o = Add(WithId(s, id))
  BY DEF Additions
<1>12. /\ o \in Replacements(Len(ops)) => \E s \in ReplaceShapes :
              o = Replace(s.facet, <<WithId(s, <<Turn, Len(ops), 0>>)>>)
       /\ o \in Removals => \E p \in red.known : o = Remove(<<p.id>>)
       /\ o \in Clearings => \E f \in ClearedFacets : o = Clear(f) \/ o = DontCare(f)
  BY DEF Replacements, Removals, Clearings
<1>13. o \in Switches => \/ \E g \in Goals : o = Switch(g, <<>>)
                         \/ \E g \in Goals, p \in intent.prefs : o = Switch(g, <<p.id>>)
  BY DEF Switches
<1> QED
  BY <1>3, <1>4, <1>5, <1>6, <1>7, <1>8, <1>9, <1>10, <1>11, <1>12, <1>13

LEMMA FormedTyped ==
    ASSUME NEW o, Formed(o)
    PROVE  o \in OperationRecords
<1>1. CASE \E p \in Preferences : o = Add(p)
  BY <1>1 DEF Add, OperationRecords
<1>2. CASE \E p \in Preferences : p.facet \in Facets /\ o = Replace(p.facet, <<p>>)
  BY <1>2 DEF Replace, OperationRecords
<1>3. CASE \E id \in PrefIds : o = Remove(<<id>>)
  BY <1>3 DEF Remove, OperationRecords
<1>4. CASE \E f \in Facets : o = Clear(f) \/ o = DontCare(f)
  BY <1>4 DEF Clear, DontCare, OperationRecords
<1>5. CASE \E g \in Goals, ids \in Seq(PrefIds) : o = Switch(g, ids)
  BY <1>5 DEF Switch, OperationRecords
<1> QED
  BY <1>1, <1>2, <1>3, <1>4, <1>5 DEF Formed

\* An operation introduces at most one preference, which it resolves.
LEMMA IntroducesOne ==
    ASSUME NEW o, Formed(o)
    PROVE  /\ Introduced(o) \subseteq Preferences
           /\ \A w, known, pre, turn, k :
                  \A p \in Introduced(o) :
                      /\ Introduced(o) = {p}
                      /\ Permitted(w, known, pre, o, turn, k)
                         => Resolvable(p, w.prefs, known, turn, k, 0)
<1>1. CASE \E p \in Preferences : o = Add(p)
  BY <1>1 DEF Add, Introduced, Permitted
<1>2. CASE \E p \in Preferences : p.facet \in Facets /\ o = Replace(p.facet, <<p>>)
  <2>1. PICK p \in Preferences : o = Replace(p.facet, <<p>>)
    BY <1>2
  <2>2. o.op = "replace" /\ o.prefs = <<p>> /\ DOMAIN o.prefs = {1} /\ o.prefs[1] = p
    BY <2>1 DEF Replace
  <2>3. Introduced(o) = {p}
    BY <2>2 DEF Introduced, RangeOf
  <2>4. ASSUME NEW w, NEW known, NEW pre, NEW turn, NEW k,
               Permitted(w, known, pre, o, turn, k)
        PROVE  Resolvable(p, w.prefs, known, turn, k, 0)
    <3>1. \A i \in DOMAIN o.prefs :
              Resolvable(o.prefs[i], w.prefs,
                         known \cup {o.prefs[j] : j \in 1..(i - 1)}, turn, k, i - 1)
      BY <2>2, <2>4 DEF Permitted
    <3>2. Resolvable(p, w.prefs, known \cup {o.prefs[j] : j \in 1..(1 - 1)},
                     turn, k, 1 - 1)
      BY <2>2, <3>1
    <3>3. known \cup {o.prefs[j] : j \in 1..(1 - 1)} = known
      OBVIOUS
    <3> QED
      BY <3>2, <3>3
  <2> QED
    BY <2>1, <2>3, <2>4
<1>3. CASE \E id \in PrefIds : o = Remove(<<id>>)
  BY <1>3 DEF Remove, Introduced
<1>4. CASE \E f \in Facets : o = Clear(f) \/ o = DontCare(f)
  BY <1>4 DEF Clear, DontCare, Introduced
<1>5. CASE \E g \in Goals, ids \in Seq(PrefIds) : o = Switch(g, ids)
  BY <1>5 DEF Switch, Introduced
<1> QED
  BY <1>1, <1>2, <1>3, <1>4, <1>5 DEF Formed

\* Adding a bound keeps the other preferences or drops them.
LEMMA WithPreferenceWithin ==
    ASSUME NEW prefs, NEW p
    PROVE  WithPreference(prefs, p) \subseteq prefs \cup {p}
  BY DEF WithPreference

LEMMA PartsReplaced ==
    ASSUME NEW w \in Contents, NEW P, NEW D,
           NEW z, z = [w EXCEPT !.prefs = P, !.dontCare = D]
    PROVE  z = [goal |-> w.goal, prefs |-> P, dontCare |-> D]
<1>1. w = [goal |-> w.goal, prefs |-> w.prefs, dontCare |-> w.dontCare]
  BY DEF Contents
<1> QED
  BY <1>1

\* What an operation makes of a working intent is one again, and no
\* preference comes out of it that it was not given.
LEMMA AppliedTyped ==
    ASSUME NEW w \in Contents, NEW pre \in SUBSET Preferences, NEW o, Formed(o)
    PROVE  /\ Applied(w, pre, o) \in Contents
           /\ Applied(w, pre, o).prefs \subseteq w.prefs \cup pre \cup Introduced(o)
<1>0. /\ w.prefs \subseteq Preferences /\ w.dontCare \subseteq Facets
      /\ w.goal \in Goals \cup {NoGoal}
      /\ w = [goal |-> w.goal, prefs |-> w.prefs, dontCare |-> w.dontCare]
  BY DEF Contents
<1>1. CASE \E p \in Preferences : o = Add(p)
  <2>1. PICK p \in Preferences : o = Add(p)
    BY <1>1
  <2>2. o.op = "add" /\ o.pref = p
    BY <2>1 DEF Add
  <2>3. Applied(w, pre, o) = AddPreference(w, p) /\ Introduced(o) = {p}
    BY <2>2 DEF Applied, Introduced
  <2>4. WithPreference(w.prefs, p) \subseteq w.prefs \cup {p}
    BY WithPreferenceWithin
  <2>5. \/ AddPreference(w, p) = w
        \/ AddPreference(w, p) = [goal |-> w.goal, prefs |-> WithPreference(w.prefs, p),
                                  dontCare |-> w.dontCare \ {p.facet}]
    BY <1>0 DEF AddPreference
  <2> QED
    BY <1>0, <2>3, <2>4, <2>5 DEF Contents
<1>2. CASE \E p \in Preferences : p.facet \in Facets /\ o = Replace(p.facet, <<p>>)
  <2>1. PICK p \in Preferences : o = Replace(p.facet, <<p>>)
    BY <1>2
  <2>2. o.op = "replace" /\ o.prefs = <<p>> /\ o.facet = p.facet
    BY <2>1 DEF Replace
  <2>3. RangeOf(<<p>>) = {p}
    BY DEF RangeOf
  <2>4. Applied(w, pre, o) = ReplaceFacet(w, p.facet, <<p>>) /\ Introduced(o) = {p}
    BY <2>2, <2>3 DEF Applied, Introduced
  <2>5. ReplaceFacet(w, p.facet, <<p>>)
        = [goal |-> w.goal, prefs |-> OffFacet(w.prefs, p.facet) \cup {p},
           dontCare |-> w.dontCare \ {p.facet}]
    BY <2>3, PartsReplaced DEF ReplaceFacet
  <2> QED
    BY <1>0, <2>4, <2>5 DEF Contents, OffFacet
<1>3. CASE \E id \in PrefIds : o = Remove(<<id>>)
  <2>1. o.op = "remove" /\ Applied(w, pre, o) = RemovePreferences(w, o.ids)
    BY <1>3 DEF Remove, Applied
  <2>2. RemovePreferences(w, o.ids)
        = [goal |-> w.goal, prefs |-> {p \in w.prefs : p.id \notin RangeOf(o.ids)},
           dontCare |-> w.dontCare]
    BY <1>0 DEF RemovePreferences
  <2> QED
    BY <1>0, <2>1, <2>2 DEF Contents
<1>4. CASE \E f \in Facets : o = Clear(f) \/ o = DontCare(f)
  <2>1. PICK f \in Facets : o = Clear(f) \/ o = DontCare(f)
    BY <1>4
  <2>2. ClearFacet(w, f) = [goal |-> w.goal, prefs |-> OffFacet(w.prefs, f),
                            dontCare |-> w.dontCare \ {f}]
    BY PartsReplaced DEF ClearFacet
  <2>3. SetDontCare(w, f) = [goal |-> w.goal, prefs |-> OffFacet(w.prefs, f),
                             dontCare |-> (w.dontCare \ {f}) \cup {f}]
    BY <2>2 DEF SetDontCare
  <2>4. \/ Applied(w, pre, o) = ClearFacet(w, f)
        \/ Applied(w, pre, o) = SetDontCare(w, f)
    BY <2>1 DEF Clear, DontCare, Applied
  <2> QED
    BY <1>0, <2>2, <2>3, <2>4 DEF Contents, OffFacet
<1>5. CASE \E g \in Goals, ids \in Seq(PrefIds) : o = Switch(g, ids)
  <2>1. PICK g \in Goals, ids \in Seq(PrefIds) : o = Switch(g, ids)
    BY <1>5
  <2>2. Applied(w, pre, o) = SwitchGoal(pre, g, ids)
    BY <2>1 DEF Switch, Applied
  <2> QED
    BY <2>1, <2>2 DEF SwitchGoal, Contents
<1> QED
  BY <1>1, <1>2, <1>3, <1>4, <1>5 DEF Formed

LEMMA StepTyped ==
    ASSUME NEW s \in Reductions, NEW pre \in SUBSET Preferences, NEW o, Formed(o),
           NEW turn, NEW k
    PROVE  /\ Step(s, pre, o, turn, k) \in Reductions
           /\ Step(s, pre, o, turn, k).known = s.known \cup Introduced(o)
           /\ Step(s, pre, o, turn, k).work = Applied(s.work, pre, o)
           /\ Step(s, pre, o, turn, k).work.prefs
                  \subseteq s.work.prefs \cup pre \cup Introduced(o)
           /\ Step(s, pre, o, turn, k).ok
              => /\ Permitted(s.work, s.known, pre, o, turn, k)
                 /\ ValidIntent(Applied(s.work, pre, o).prefs,
                                Applied(s.work, pre, o).dontCare)
<1>1. s.work \in Contents /\ s.known \subseteq Preferences
  BY DEF Reductions
<1>2. /\ Applied(s.work, pre, o) \in Contents
      /\ Applied(s.work, pre, o).prefs \subseteq s.work.prefs \cup pre \cup Introduced(o)
  BY <1>1, AppliedTyped
<1>3. Introduced(o) \subseteq Preferences
  BY IntroducesOne
<1>4. (/\ Permitted(s.work, s.known, pre, o, turn, k)
       /\ ValidIntent(Applied(s.work, pre, o).prefs,
                      Applied(s.work, pre, o).dontCare)) \in BOOLEAN
  OBVIOUS
<1> QED
  BY <1>1, <1>2, <1>3, <1>4 DEF Step, Reductions

LEMMA StartTyped ==
    ASSUME NEW base \in Intents
    PROVE  Start(base) \in Reductions
  BY DEF Intents, Start, Content, Reductions, Contents

LEMMA SnapshotTyped ==
    ASSUME NEW base \in Intents, NEW w \in Contents
    PROVE  Snapshot(base, w) \in Intents
  BY DEF Intents, Contents, Snapshot

LEMMA PreviewedTyped == Typed => Previewed \in Intents
  BY SnapshotTyped DEF Typed, Previewed, Reductions

LEMMA TypedInit == Init => Typed
<1> SUFFICES ASSUME Init PROVE Typed
  OBVIOUS
<1>1. EmptyIntent \in Intents
  BY DEF EmptyIntent, Intents
<1>2. Start(EmptyIntent) \in Reductions
  BY <1>1, StartTyped
<1>3. IsFiniteSet({})
  BY FS_EmptySet
<1>4. <<>> \in Seq(Turns) /\ <<>> \in Seq(OperationRecords)
  OBVIOUS
<1> QED
  BY <1>1, <1>2, <1>3, <1>4 DEF Init, Typed

LEMMA TypedBuild ==
    ASSUME Typed, NEW o \in Operations(Len(ops)), Extend(o)
    PROVE  Typed'
<1>1. Formed(o)
  BY OperationsFormed DEF Extend, Accepts
<1>2. o \in OperationRecords
  BY <1>1, FormedTyped
<1>3. red \in Reductions /\ intent.prefs \in SUBSET Preferences
  BY DEF Typed, Intents
<1>4. red' \in Reductions
  BY <1>1, <1>3, StepTyped DEF Extend
<1>5. ops' \in Seq(OperationRecords)
  BY <1>2 DEF Extend, Typed
<1> QED
  BY <1>4, <1>5 DEF Extend, Typed, committed

LEMMA TypedToken ==
    ASSUME Typed, IssueToken
    PROVE  Typed'
<1> DEFINE t == [txn |-> txn, expected |-> Previewed, used |-> FALSE,
                 belief |-> [version |-> Previewed.version, about |-> Previewed,
                             probe |-> Cardinality(tokens) + 1]]
<1>1. Cardinality(tokens) + 1 \in Nat
  BY FS_CardinalityType DEF Typed
<1>2. Previewed \in Intents /\ Previewed.version \in Nat
  BY PreviewedTyped DEF Intents
<1>3. t \in Tokens
  BY <1>1, <1>2 DEF Tokens, Attestations, Typed
<1>4. tokens' = tokens \cup {t}
  BY DEF IssueToken
<1> HIDE DEF t
<1>5. tokens' \subseteq Tokens /\ IsFiniteSet(tokens')
  BY <1>3, <1>4, FS_AddElement DEF Typed
<1> QED
  BY <1>5 DEF IssueToken, Typed, committed, building

LEMMA ConsumedTyped ==
    ASSUME Typed, NEW token \in tokens \cup {NoToken}
    PROVE  Consumed(token) \subseteq Tokens /\ IsFiniteSet(Consumed(token))
<1>1. CASE token = NoToken
  BY <1>1 DEF Consumed, Typed
<1>2. CASE token # NoToken
  <2>1. token \in Tokens /\ [token EXCEPT !.used = TRUE] \in Tokens
    BY <1>2 DEF Typed, Tokens
  <2>2. /\ IsFiniteSet(tokens \ {token})
        /\ IsFiniteSet((tokens \ {token}) \cup {[token EXCEPT !.used = TRUE]})
    BY FS_RemoveElement, FS_AddElement DEF Typed
  <2> QED
    BY <1>2, <2>1, <2>2 DEF Consumed, Typed
<1> QED
  BY <1>1, <1>2

LEMMA BatchTyped == Typed => Batch \in Batches
  BY DEF Typed, Batch, Batches, Turn, Intents

LEMMA TypedCommit ==
    ASSUME Typed, NEW b \in Beliefs, NEW token \in tokens \cup {NoToken},
           CommitAttempt(b, token)
    PROVE  Typed'
<1>1. tokens' \subseteq Tokens /\ IsFiniteSet(tokens')
  BY ConsumedTyped DEF CommitAttempt
<1>2. intent' \in Intents
  BY PreviewedTyped DEF CommitAttempt, Typed, committed
<1>3. log' \in Seq(Turns)
  <2>1. Record \in Turns
    BY BatchTyped DEF Record, Turns, Turn, Typed
  <2> QED
    BY <2>1 DEF CommitAttempt, Typed, committed
<1>4. belief' \in Attestations \cup {NoBelief}
  <2>1. \A t \in tokens : t.belief \in Attestations
    BY DEF Typed, Tokens
  <2> QED
    BY <2>1 DEF CommitAttempt, Beliefs, Typed, committed
<1>5. attempted' \in BOOLEAN
  BY DEF CommitAttempt
<1> QED
  BY <1>1, <1>2, <1>3, <1>4, <1>5 DEF CommitAttempt, Typed, building

LEMMA TypedNext == Typed /\ [Next]_vars => Typed'
<1> SUFFICES ASSUME Typed, [Next]_vars PROVE Typed'
  OBVIOUS
<1>1. Start(intent) \in Reductions /\ <<>> \in Seq(OperationRecords)
  BY StartTyped DEF Typed
<1>2. CASE Open
  <2>1. /\ opened + 1 \in Nat /\ txn' = opened + 1 /\ opened' = opened + 1
        /\ attempted' = FALSE /\ ops' = <<>> /\ red' = Start(intent)
        /\ UNCHANGED <<intent, log, belief, spent, tokens>>
    BY <1>2 DEF Open, Typed, committed
  <2> QED
    BY <1>1, <2>1 DEF Typed
<1>3. CASE Build
  BY <1>3, TypedBuild DEF Build
<1>4. CASE Discard
  BY <1>1, <1>4 DEF Discard, Typed, committed
<1>5. CASE IssueToken
  BY <1>5, TypedToken
<1>6. CASE Commit
  BY <1>6, TypedCommit DEF Commit
<1>7. CASE Exit
  BY <1>1, <1>7 DEF Exit, Typed, committed
<1>8. CASE UNCHANGED vars
  BY <1>8 DEF vars, Typed
<1> QED
  BY <1>2, <1>3, <1>4, <1>5, <1>6, <1>7, <1>8 DEF Next

\* The variables keep their types, and so a batch of the log is never taken
\* for a turn without one.
THEOREM AlwaysTyped == Spec => []Typed
<1> QED
  BY TypedInit, TypedNext, PTL DEF Spec

----------------------------------------------------------------------------
(* Identity *)

\* Every preference the batch can name was committed or introduced by one
\* of its operations, and ids and meanings denote each other in it.
Known ==
    /\ intent.prefs \subseteq red.known
    /\ red.work.prefs \subseteq red.known
    /\ \A p, q \in red.known : (p.id = q.id) <=> (LogicalKey(p) = LogicalKey(q))

\* An id of the session is of an earlier turn, or of an earlier place of
\* the batch: what allocates ids never gives one again.
Earlier(id, turn, place) == id[1] < turn \/ (id[1] = turn /\ id[2] < place)

Allocating ==
    /\ \A p \in Lifetime(log) \cup intent.prefs : p.id \in PrefIds /\ p.id[1] < Turn
    /\ txn # 0 /\ ~attempted =>
           /\ \A p \in red.known : Earlier(p.id, Turn, Len(ops))
           /\ ops = <<>> => red = Start(intent)
           /\ Introductions(Batch) \subseteq red.known

Identity ==
    /\ Known
    /\ Allocating
    /\ IdsDenoteOnePreference

LEMMA LifetimeGrows ==
    ASSUME Typed, NEW r \in Turns
    PROVE  Lifetime(Append(log, r))
           = Lifetime(log) \cup (IF r.batch = NoBatch THEN {} ELSE Introductions(r.batch))
<1> DEFINE more == Append(log, r)
           N == Len(log)
<1>1. /\ N \in Nat /\ DOMAIN log = 1..N /\ DOMAIN more = 1..(N + 1)
      /\ more[N + 1] = r /\ \A i \in 1..N : more[i] = log[i]
  BY DEF Typed
<1> HIDE DEF more
<1>2. ASSUME NEW p
      PROVE  p \in Lifetime(more) <=> \E i \in 1..(N + 1) : /\ more[i].batch # NoBatch
                                                     /\ p \in Introductions(more[i].batch)
  BY <1>1 DEF Lifetime
<1>3. ASSUME NEW p
      PROVE  p \in Lifetime(log) <=> \E i \in 1..N : /\ log[i].batch # NoBatch
                                              /\ p \in Introductions(log[i].batch)
  BY <1>1 DEF Lifetime
<1>4. ASSUME NEW p
      PROVE  p \in Lifetime(more)
             <=> p \in Lifetime(log) \/ (r.batch # NoBatch /\ p \in Introductions(r.batch))
  <2>1. ASSUME NEW i \in 1..(N + 1), more[i].batch # NoBatch,
               p \in Introductions(more[i].batch)
        PROVE  p \in Lifetime(log) \/ (r.batch # NoBatch /\ p \in Introductions(r.batch))
    BY <1>1, <1>3, <2>1
  <2>2. ASSUME NEW i \in 1..N, log[i].batch # NoBatch, p \in Introductions(log[i].batch)
        PROVE  p \in Lifetime(more)
    BY <1>1, <1>2, <2>2
  <2>3. ASSUME r.batch # NoBatch, p \in Introductions(r.batch)
        PROVE  p \in Lifetime(more)
    BY <1>1, <1>2, <2>3
  <2> QED
    BY <1>2, <1>3, <2>1, <2>2, <2>3
<1> QED
  BY <1>4 DEF more

\* A resolved preference is one of the known ones or has a new id and a new
\* meaning.
LEMMA ResolvedAgrees ==
    ASSUME Typed, Identity, txn # 0, ~attempted, NEW p,
           Resolvable(p, red.work.prefs, red.known, Turn, Len(ops), 0)
    PROVE  /\ \A q \in red.known : (p.id = q.id) <=> (LogicalKey(p) = LogicalKey(q))
           /\ \A q \in Lifetime(log) : p.id = q.id => LogicalKey(p) = LogicalKey(q)
           /\ Earlier(p.id, Turn, Len(ops) + 1)
<1>1. CASE \E e \in red.known : /\ e.id = p.id
                                /\ LogicalKey(e) = LogicalKey(p)
  <2>1. PICK e \in red.known : e.id = p.id /\ LogicalKey(e) = LogicalKey(p)
    BY <1>1
  <2>2. Earlier(e.id, Turn, Len(ops)) /\ e.id \in PrefIds
    BY <2>1 DEF Identity, Allocating, Typed, Reductions, Preferences
  <2>3. \A q \in Lifetime(log) : e.id = q.id => LogicalKey(e) = LogicalKey(q)
    BY <2>1 DEF Identity, IdsDenoteOnePreference
  <2>4. \A q \in red.known : (e.id = q.id) <=> (LogicalKey(e) = LogicalKey(q))
    BY <2>1 DEF Identity, Known
  <2>5. Earlier(p.id, Turn, Len(ops) + 1)
    BY <2>1, <2>2 DEF Earlier, PrefIds, Turn, Typed
  <2> QED
    BY <2>1, <2>3, <2>4, <2>5
<1>2. CASE /\ \A e \in red.known : e.id # p.id /\ LogicalKey(e) # LogicalKey(p)
           /\ p.id = <<Turn, Len(ops), 0>>
  <2>1. p.id[1] = Turn /\ p.id[2] = Len(ops) /\ Turn \in Nat /\ Len(ops) \in Nat
    BY <1>2 DEF Turn, Typed
  <2>2. \A q \in Lifetime(log) : q.id # p.id
    BY <2>1 DEF Identity, Allocating, PrefIds
  <2> QED
    BY <1>2, <2>1, <2>2 DEF Earlier
<1> QED
  BY <1>1, <1>2 DEF Resolvable

LEMMA IntroductionsGrow ==
    ASSUME NEW S, NEW list \in Seq(S), NEW o \in S, NEW b, NEW c,
           b.ops = list, c.ops = Append(list, o)
    PROVE  Introductions(c) = Introductions(b) \cup Introduced(o)
<1>1. /\ Len(list) \in Nat /\ DOMAIN list = 1..Len(list)
      /\ DOMAIN Append(list, o) = 1..(Len(list) + 1)
      /\ Append(list, o)[Len(list) + 1] = o
      /\ \A i \in 1..Len(list) : Append(list, o)[i] = list[i]
  OBVIOUS
<1>2. ASSUME NEW p
      PROVE  p \in Introductions(c)
             <=> \E k \in 1..(Len(list) + 1) : p \in Introduced(Append(list, o)[k])
  BY <1>1 DEF Introductions
<1>3. ASSUME NEW p
      PROVE  p \in Introductions(b) <=> \E k \in 1..Len(list) : p \in Introduced(list[k])
  BY <1>1 DEF Introductions
<1>4. ASSUME NEW p
      PROVE  p \in Introductions(c) <=> p \in Introductions(b) \/ p \in Introduced(o)
  <2>1. ASSUME NEW k \in 1..(Len(list) + 1), p \in Introduced(Append(list, o)[k])
        PROVE  p \in Introductions(b) \/ p \in Introduced(o)
    BY <1>1, <1>3, <2>1
  <2>2. ASSUME NEW k \in 1..Len(list), p \in Introduced(list[k])
        PROVE  p \in Introductions(c)
    BY <1>1, <1>2, <2>2
  <2>3. ASSUME p \in Introduced(o) PROVE p \in Introductions(c)
    BY <1>1, <1>2, <2>3
  <2> QED
    BY <1>2, <1>3, <2>1, <2>2, <2>3
<1> QED
  BY <1>4

LEMMA EmptyLifetime == Lifetime(<<>>) = {}
  BY DEF Lifetime

LEMMA EmptyIntroductions ==
    ASSUME NEW b, b.ops = <<>>
    PROVE  Introductions(b) = {}
  BY DEF Introductions

LEMMA IdentityInit == Init => Identity
<1> SUFFICES ASSUME Init PROVE Identity
  OBVIOUS
<1>1. Lifetime(log) = {} /\ intent.prefs = {} /\ red.known = {} /\ red.work.prefs = {}
  BY EmptyLifetime DEF Init, EmptyIntent, Start, Content
<1>2. txn = 0
  BY DEF Init
<1> QED
  BY <1>1, <1>2 DEF Identity, Known, Allocating, IdsDenoteOnePreference

\* Everything starts again from the committed intent.
LEMMA IdentityRestart ==
    ASSUME Typed, Identity, red' = Start(intent), ops' = <<>>, UNCHANGED committed
    PROVE  Identity'
<1>1. red'.known = intent.prefs /\ red'.work.prefs = intent.prefs
  BY DEF Start, Content
<1>2. intent' = intent /\ log' = log /\ Turn' = Turn /\ Lifetime(log') = Lifetime(log)
  BY DEF committed, Turn
<1>3. Batch'.ops = <<>>
  BY DEF Batch
<1>4. Introductions(Batch') = {}
  BY <1>3, EmptyIntroductions
<1>5. Known'
  BY <1>1, <1>2 DEF Identity, Known
<1>6. Allocating'
  <2>1. \A p \in intent.prefs : Earlier(p.id, Turn, 0)
    BY DEF Identity, Allocating, Earlier
  <2>2. Len(ops') = 0 /\ Introductions(Batch)' = {} /\ Lifetime(log)' = Lifetime(log)
    BY <1>2, <1>4
  <2>3. \A p \in red'.known : Earlier(p.id, Turn', Len(ops'))
    BY <1>1, <1>2, <2>1, <2>2
  <2> QED
    BY <1>1, <1>2, <2>2, <2>3 DEF Identity, Allocating
<1>7. IdsDenoteOnePreference'
  <2>1. Lifetime(log)' \cup red'.known \subseteq Lifetime(log) \cup red.known
    BY <1>1, <1>2 DEF Identity, Known
  <2> QED
    BY <2>1 DEF Identity, IdsDenoteOnePreference
<1> QED
  BY <1>5, <1>6, <1>7 DEF Identity

\* Neither what is committed nor the batch changes.
LEMMA IdentityQuiet ==
    ASSUME Typed, Identity, UNCHANGED <<committed, txn, ops, red>>,
           attempted' = attempted \/ attempted' = TRUE
    PROVE  Identity'
<1>1. /\ intent' = intent /\ log' = log /\ ops' = ops /\ red' = red /\ txn' = txn
      /\ Turn' = Turn /\ Lifetime(log)' = Lifetime(log)
      /\ Batch' = Batch
  BY DEF committed, Turn, Batch
<1>2. Known'
  BY <1>1 DEF Identity, Known
<1>3. IdsDenoteOnePreference'
  BY <1>1 DEF Identity, IdsDenoteOnePreference
<1>4. Introductions(Batch)' = Introductions(Batch)
  BY <1>1
<1>5. Allocating'
  BY <1>1, <1>4 DEF Identity, Allocating
<1> QED
  BY <1>2, <1>3, <1>5 DEF Identity

LEMMA IdentityBuild ==
    ASSUME Typed, Identity, NEW o \in Operations(Len(ops)), Extend(o)
    PROVE  Identity'
<1>1. Formed(o) /\ o \in OperationRecords
  BY OperationsFormed, FormedTyped DEF Extend, Accepts
<1>2. /\ txn # 0 /\ ~attempted
      /\ red' = Step(red, intent.prefs, o, Turn, Len(ops)) /\ red'.ok
      /\ ops' = Append(ops, o)
      /\ UNCHANGED <<intent, log, txn, attempted>>
  BY DEF Extend, BuildGuard, Accepts, committed
<1>3. /\ red \in Reductions /\ intent.prefs \in SUBSET Preferences
      /\ Turn \in Nat /\ Len(ops) \in Nat /\ red.known \subseteq Preferences
  BY DEF Typed, Intents, Turn, Reductions
<1>4. /\ red'.known = red.known \cup Introduced(o)
      /\ red'.work.prefs \subseteq red.work.prefs \cup intent.prefs \cup Introduced(o)
      /\ Permitted(red.work, red.known, intent.prefs, o, Turn, Len(ops))
  <2>1. /\ red'.known = red.known \cup Introduced(o)
        /\ red'.work = Applied(red.work, intent.prefs, o)
        /\ Permitted(red.work, red.known, intent.prefs, o, Turn, Len(ops))
    BY <1>2 DEF Step
  <2>2. red.work \in Contents
    BY <1>3 DEF Reductions
  <2>3. Applied(red.work, intent.prefs, o).prefs
            \subseteq red.work.prefs \cup intent.prefs \cup Introduced(o)
    BY <1>1, <1>3, <2>2, AppliedTyped
  <2> QED
    BY <2>1, <2>3
<1>5. \A p \in Introduced(o) :
          /\ Introduced(o) = {p} /\ p \in Preferences
          /\ Resolvable(p, red.work.prefs, red.known, Turn, Len(ops), 0)
  BY <1>1, <1>4, IntroducesOne
<1>6. \A p \in Introduced(o) :
          /\ \A q \in red.known : (p.id = q.id) <=> (LogicalKey(p) = LogicalKey(q))
          /\ \A q \in Lifetime(log) : p.id = q.id => LogicalKey(p) = LogicalKey(q)
          /\ Earlier(p.id, Turn, Len(ops) + 1)
  BY <1>2, <1>5, ResolvedAgrees
<1>7. /\ Turn' = Turn /\ Len(ops') = Len(ops) + 1 /\ ops' # <<>>
      /\ Lifetime(log)' = Lifetime(log)
  BY <1>1, <1>2 DEF Turn, Typed
<1>8. Known'
  <2>1. \A p, q \in red'.known : (p.id = q.id) <=> (LogicalKey(p) = LogicalKey(q))
    BY <1>4, <1>5, <1>6 DEF Identity, Known
  <2> QED
    BY <1>2, <1>4, <2>1 DEF Identity, Known
<1>9. IdsDenoteOnePreference'
  <2>1. \A p, q \in Lifetime(log) \cup red'.known :
            p.id = q.id => LogicalKey(p) = LogicalKey(q)
    BY <1>4, <1>5, <1>6 DEF Identity, IdsDenoteOnePreference
  <2> QED
    BY <1>7, <2>1 DEF IdsDenoteOnePreference
<1>10. Allocating'
  <2>1. \A p \in red.known : Earlier(p.id, Turn, Len(ops) + 1)
    BY <1>2, <1>3 DEF Identity, Allocating, Earlier, Preferences, PrefIds
  <2>2. \A p \in red'.known : Earlier(p.id, Turn', Len(ops'))
    BY <1>4, <1>6, <1>7, <2>1
  <2>3. Introductions(Batch') = Introductions(Batch) \cup Introduced(o)
    <3>1. Batch.ops = ops /\ Batch'.ops = Append(ops, o)
      BY <1>2 DEF Batch
    <3> QED
      BY <1>1, <3>1, IntroductionsGrow DEF Typed
  <2>4. Introductions(Batch)' \subseteq red'.known
    BY <1>2, <1>4, <2>3 DEF Identity, Allocating
  <2> QED
    BY <1>2, <1>7, <2>2, <2>4 DEF Identity, Allocating
<1> QED
  BY <1>8, <1>9, <1>10 DEF Identity

\* A commit moves preferences of the batch into the intent and the log.
LEMMA IdentityCommit ==
    ASSUME Typed, Identity, txn # 0, ~attempted, attempted' = TRUE,
           intent' = Previewed, log' = Append(log, Record), UNCHANGED building
    PROVE  Identity'
<1>1. Record \in Turns
  BY BatchTyped DEF Record, Turns, Turn, Typed
<1>2. Lifetime(log') \subseteq Lifetime(log) \cup red.known
  BY <1>1, LifetimeGrows DEF Record, Identity, Allocating
<1>3. intent'.prefs = red.work.prefs /\ red' = red /\ ops' = ops
  BY DEF Previewed, Snapshot, building
<1>4. Known'
  BY <1>3 DEF Identity, Known
<1>5. IdsDenoteOnePreference'
  BY <1>2, <1>3 DEF Identity, IdsDenoteOnePreference
<1>6. Turn' = Turn + 1 /\ Turn \in Nat
  BY DEF Turn, Typed
<1>7. Allocating'
  <2>1. \A p \in red.known : p.id \in PrefIds /\ p.id[1] < Turn + 1
    BY <1>6 DEF Identity, Allocating, Earlier, Typed, Reductions, Preferences, PrefIds
  <2>2. \A p \in Lifetime(log) : p.id \in PrefIds /\ p.id[1] < Turn + 1
    BY <1>6 DEF Identity, Allocating, PrefIds
  <2>3. \A p \in Lifetime(log') \cup intent'.prefs : p.id \in PrefIds /\ p.id[1] < Turn'
    BY <1>2, <1>3, <1>6, <2>1, <2>2 DEF Identity, Known
  <2> QED
    BY <2>3 DEF Allocating
<1> QED
  BY <1>4, <1>5, <1>7 DEF Identity

LEMMA IdentityNext == Typed /\ Identity /\ [Next]_vars => Identity'
<1> SUFFICES ASSUME Typed, Identity, [Next]_vars PROVE Identity'
  OBVIOUS
<1>1. CASE Open
  BY <1>1, IdentityRestart DEF Open
<1>2. CASE Build
  BY <1>2, IdentityBuild DEF Build
<1>3. CASE Discard
  BY <1>3, IdentityRestart DEF Discard
<1>4. CASE IssueToken
  BY <1>4, IdentityQuiet DEF IssueToken, building
<1>5. CASE Commit
  <2>1. PICK b \in Beliefs, token \in tokens \cup {NoToken} : CommitAttempt(b, token)
    BY <1>5 DEF Commit
  <2>2. CASE CommitPasses(b, token)
    BY <2>1, <2>2, IdentityCommit DEF CommitAttempt
  <2>3. CASE ~CommitPasses(b, token)
    BY <2>1, <2>3, IdentityQuiet DEF CommitAttempt, building
  <2> QED
    BY <2>2, <2>3
<1>6. CASE Exit
  BY <1>6, IdentityRestart DEF Exit
<1>7. CASE UNCHANGED vars
  BY <1>7, IdentityQuiet DEF vars, committed
<1> QED
  BY <1>1, <1>2, <1>3, <1>4, <1>5, <1>6, <1>7 DEF Next

\* Over a whole session an id denotes one preference, whatever was removed,
\* switched away or replaced meanwhile (reducer._resolve_identity).
THEOREM IdsKeepTheirMeaning == Spec => []IdsDenoteOnePreference
<1>1. Init => Typed /\ Identity
  BY TypedInit, IdentityInit
<1>2. Typed /\ Identity /\ [Next]_vars => (Typed /\ Identity)'
  BY TypedNext, IdentityNext
<1>3. Identity => IdsDenoteOnePreference
  BY DEF Identity
<1> QED
  BY <1>1, <1>2, <1>3, PTL DEF Spec

----------------------------------------------------------------------------
(* What a commit may change, and the belief that goes with it *)

\* An intent changes only by a commit of the previewed one.
LEMMA IntentChanges ==
    ASSUME Typed, [Next]_vars
    PROVE  \/ UNCHANGED committed
           \/ /\ txn # 0 /\ ~attempted /\ attempted' = TRUE
              /\ \E b \in Beliefs, token \in tokens \cup {NoToken} :
                     /\ CommitAttempt(b, token) /\ CommitPasses(b, token)
                     /\ intent' = Previewed /\ belief' = b
                     /\ log' = Append(log, Record)
                     /\ tokens' = Consumed(token)
                     /\ UNCHANGED <<txn, ops, red>>
<1>1. CASE Open \/ Build \/ Discard \/ IssueToken \/ Exit \/ UNCHANGED vars
  BY <1>1 DEF Open, Build, Extend, Discard, IssueToken, Exit, vars, committed
<1>2. CASE Commit
  <2>1. PICK b \in Beliefs, token \in tokens \cup {NoToken} : CommitAttempt(b, token)
    BY <1>2 DEF Commit
  <2>2. CASE CommitPasses(b, token)
    BY <2>1, <2>2 DEF CommitAttempt, building
  <2>3. CASE ~CommitPasses(b, token)
    BY <2>1, <2>3 DEF CommitAttempt
  <2> QED
    BY <2>2, <2>3
<1> QED
  BY <1>1, <1>2 DEF Next

LEMMA IntentWhole ==
    ASSUME Typed
    PROVE  /\ intent = [goal |-> intent.goal, prefs |-> intent.prefs,
                        dontCare |-> intent.dontCare, version |-> intent.version]
           /\ intent.version \in Nat
  BY DEF Typed, Intents

\* The previewed intent has the version of the committed one exactly when it
\* is the committed one.
LEMMA VersionsTell ==
    ASSUME Typed
    PROVE  /\ Previewed.version = intent.version => Previewed = intent
           /\ Previewed # intent => /\ Previewed.version = intent.version + 1
                                    /\ Content(Previewed) # Content(intent)
<1>1. red.work = [goal |-> red.work.goal, prefs |-> red.work.prefs,
                  dontCare |-> red.work.dontCare]
  BY DEF Typed, Reductions, Contents
<1>2. /\ Previewed.goal = red.work.goal /\ Previewed.prefs = red.work.prefs
      /\ Previewed.dontCare = red.work.dontCare
      /\ Previewed.version = IF red.work = Content(intent) THEN intent.version
                             ELSE intent.version + 1
  BY DEF Previewed, Snapshot
<1>3. Content(Previewed) = red.work
  BY <1>1, <1>2 DEF Content
<1>4. CASE red.work = Content(intent)
  <2>1. /\ red.work.goal = intent.goal /\ red.work.prefs = intent.prefs
        /\ red.work.dontCare = intent.dontCare
    BY <1>4 DEF Content
  <2>2. Previewed = [goal |-> intent.goal, prefs |-> intent.prefs,
                     dontCare |-> intent.dontCare, version |-> intent.version]
    BY <1>4, <2>1 DEF Previewed, Snapshot
  <2> QED
    BY <2>2, IntentWhole
<1>5. CASE red.work # Content(intent)
  BY <1>2, <1>3, <1>5, IntentWhole
<1> QED
  BY <1>4, <1>5

LEMMA DroppedStep ==
    ASSUME Typed, Identity, [Next]_vars, intent' # intent
    PROVE  /\ intent'.version = intent.version + 1
           /\ Content(intent') # Content(intent)
           /\ \A p \in intent'.prefs, q \in intent.prefs :
                  LogicalKey(p) = LogicalKey(q) => p.id = q.id
<1>1. intent' = Previewed
  BY IntentChanges DEF committed
<1>2. intent'.prefs \subseteq red.known /\ intent.prefs \subseteq red.known
  BY <1>1 DEF Previewed, Snapshot, Identity, Known
<1>3. \A p, q \in red.known : LogicalKey(p) = LogicalKey(q) => p.id = q.id
  BY DEF Identity, Known
<1> QED
  BY <1>1, <1>2, <1>3, VersionsTell

\* The version counts exactly the commits that changed the intent, and what
\* a batch drops does not come back in it under another id and with the same
\* confidence (reducer.reduce_intent).
THEOREM DroppedNeverReturns == Spec => DroppedStaysDropped
<1>1. Init => Typed /\ Identity
  BY TypedInit, IdentityInit
<1>2. Typed /\ Identity /\ [Next]_vars => (Typed /\ Identity)'
  BY TypedNext, IdentityNext
<1>3. Typed /\ Identity /\ [Next]_vars
      => [intent' # intent =>
             /\ intent'.version = intent.version + 1
             /\ Content(intent') # Content(intent)
             /\ \A p \in intent'.prefs, q \in intent.prefs :
                    LogicalKey(p) = LogicalKey(q) => p.id = q.id]_vars
  BY DroppedStep
<1> QED
  BY <1>1, <1>2, <1>3, PTL DEF Spec, DroppedStaysDropped

\* A stored belief and the belief of every token are about the intent they
\* go with, and carry its version.
Attested ==
    /\ belief # NoBelief => belief.about = intent /\ belief.version = intent.version
    /\ \A t \in tokens : /\ t.belief.about = t.expected
                         /\ t.belief.version = t.expected.version

LEMMA AttestedTokens ==
    ASSUME Typed, Attested, [Next]_vars
    PROVE  \A t \in tokens' : /\ t.belief.about = t.expected
                              /\ t.belief.version = t.expected.version
<1>1. CASE IssueToken
  BY <1>1 DEF IssueToken, Attested
<1>2. CASE Commit
  <2>1. PICK token \in tokens \cup {NoToken} : tokens' = Consumed(token)
    BY <1>2 DEF Commit, CommitAttempt
  <2>2. CASE token = NoToken
    BY <2>1, <2>2 DEF Consumed, Attested
  <2>3. CASE token # NoToken
    <3>1. token \in tokens /\ token \in Tokens
      BY <2>3 DEF Typed
    <3>2. /\ [token EXCEPT !.used = TRUE].belief = token.belief
          /\ [token EXCEPT !.used = TRUE].expected = token.expected
      BY <3>1 DEF Tokens
    <3> QED
      BY <2>1, <2>3, <3>1, <3>2 DEF Consumed, Attested
  <2> QED
    BY <2>2, <2>3
<1>3. CASE Open \/ Build \/ Discard \/ Exit \/ UNCHANGED vars
  <2>1. tokens' = tokens
    BY <1>3 DEF Open, Build, Extend, Discard, Exit, vars
  <2> QED
    BY <2>1 DEF Attested
<1> QED
  BY <1>1, <1>2, <1>3 DEF Next

LEMMA BeliefStep ==
    ASSUME Typed, Attested, [Next]_vars, belief' # NoBelief
    PROVE  /\ belief'.about = intent' /\ belief'.version = intent'.version
           /\ belief' # belief =>
                \E t \in tokens : /\ t.belief = belief'
                                  /\ t.txn = txn
                                  /\ ~t.used
                                  /\ [t EXCEPT !.used = TRUE] \in tokens'
<1>1. CASE UNCHANGED committed
  BY <1>1 DEF committed, Attested
<1>2. CASE ~UNCHANGED committed
  <2>1. PICK b \in Beliefs, token \in tokens \cup {NoToken} :
            /\ CommitPasses(b, token) /\ intent' = Previewed /\ belief' = b
            /\ tokens' = Consumed(token)
    BY <1>2, IntentChanges
  <2>2. CASE b = belief
    <3>1. Previewed.version = intent.version /\ belief.about = intent
      BY <2>1, <2>2 DEF CommitPasses, BeliefFits, Attested
    <3> QED
      BY <2>1, <2>2, <3>1, VersionsTell DEF Attested
  <2>3. CASE b # belief
    <3>1. /\ token # NoToken /\ token.txn = txn /\ ~token.used
          /\ token.expected = Previewed /\ token.belief = b
      BY <2>1, <2>3 DEF CommitPasses, ProbeAuthorized, TokenFresh
    <3>2. token \in tokens /\ [token EXCEPT !.used = TRUE] \in tokens'
      BY <2>1, <3>1 DEF Consumed
    <3> QED
      BY <2>1, <3>1, <3>2 DEF Attested
  <2> QED
    BY <2>2, <2>3
<1> QED
  BY <1>1, <1>2

\* The stored belief is one a probe gave of exactly the stored intent, and
\* it changes only to one attested in the transaction that commits it, by a
\* token not tried before (store.commit, store._consume_token).
THEOREM BeliefsStayAttested == Spec => BeliefsAreAttested
<1>1. Init => Typed /\ Attested
  BY TypedInit DEF Init, Attested
<1>2. Typed /\ Attested /\ [Next]_vars => (Typed /\ Attested)'
  BY TypedNext, AttestedTokens, BeliefStep DEF Attested
<1>3. Typed /\ Attested /\ [Next]_vars
      => [belief' # NoBelief =>
             /\ belief'.about = intent'
             /\ belief' # belief =>
                   \E t \in tokens : /\ t.belief = belief'
                                     /\ t.txn = txn
                                     /\ ~t.used
                                     /\ [t EXCEPT !.used = TRUE] \in tokens']_vars
  BY BeliefStep
<1> QED
  BY <1>1, <1>2, <1>3, PTL DEF Spec, BeliefsAreAttested

----------------------------------------------------------------------------
(* What was previewed commits, and what was committed replays *)

\* The state of the reduction is the reduction of the batch, which every
\* rule of a commit but those of its preview and its belief accepts.
Reduced ==
    txn # 0 /\ ~attempted =>
        /\ red.ok
        /\ red = Reduction(intent, ops, Turn)
        /\ \A i \in DOMAIN ops : /\ OperationValid(ops[i])
                                 /\ ops[i].op = "switch" => i = 1
        /\ ops # <<>> => ValidIntent(red.work.prefs, red.work.dontCare)
        /\ LifetimeIdsValid(intent, Batch, Lifetime(log))

Previewing ==
    /\ IntentAllowed(intent)
    /\ Reduced

LEMMA PreviewingInit == Init => Previewing
<1> SUFFICES ASSUME Init PROVE Previewing
  OBVIOUS
<1>1. intent.prefs = {} /\ intent.dontCare = {} /\ txn = 0
  BY DEF Init, EmptyIntent
<1>2. CategoricalStateValid({}) /\ NumericStateValid({})
  BY DEF CategoricalStateValid, OneSelectorEach, CategoricalOn, NumericStateValid,
         BoundsOn
<1>3. ValidIntent({}, {})
  BY <1>2 DEF ValidIntent, UniqueIds, UniqueSemantics, ActiveFacets
<1>4. CompleteIntent({}, {})
  BY DEF CompleteIntent, ReservedPreferences, ActiveFacets
<1> QED
  BY <1>1, <1>3, <1>4 DEF Previewing, IntentAllowed, Reduced

LEMMA ReducedRestart ==
    ASSUME Typed, Previewing, red' = Start(intent), ops' = <<>>, UNCHANGED committed
    PROVE  Previewing'
<1>1. intent' = intent /\ log' = log /\ Turn' = Turn
  BY DEF committed, Turn
<1>2. red' = Reduction(intent', ops', Turn') /\ red'.ok
  <2>1. Reduction(intent, <<>>, Turn) = Start(intent)
    BY ReductionStart
  <2> QED
    BY <1>1, <2>1 DEF Start
<1>3. LifetimeIdsValid(intent', Batch', Lifetime(log)')
  BY DEF LifetimeIdsValid, Batch
<1>4. DOMAIN ops' = {}
  OBVIOUS
<1> QED
  BY <1>1, <1>2, <1>3, <1>4 DEF Previewing, Reduced

LEMMA ReducedQuiet ==
    ASSUME Typed, Previewing, UNCHANGED <<committed, txn, ops, red>>,
           attempted' = attempted \/ attempted' = TRUE
    PROVE  Previewing'
<1>1. /\ intent' = intent /\ log' = log /\ ops' = ops /\ red' = red /\ txn' = txn
      /\ Turn' = Turn /\ Lifetime(log)' = Lifetime(log)
      /\ Batch' = Batch
  BY DEF committed, Turn, Batch
<1>2. LifetimeIdsValid(intent, Batch, Lifetime(log))'
      = LifetimeIdsValid(intent, Batch, Lifetime(log))
  BY <1>1
<1> QED
  BY <1>1, <1>2 DEF Previewing, Reduced

\* An operation that is accepted brings back an id only for the preference
\* that is active under it.
LEMMA AcceptedIdsLive ==
    ASSUME Typed, Identity, txn # 0, ~attempted, NEW p,
           Resolvable(p, red.work.prefs, red.known, Turn, Len(ops), 0),
           NEW e \in Lifetime(log) \cup Introductions(Batch), e.id = p.id
    PROVE  LogicalKey(e) = LogicalKey(p) /\ p.id \in Ids(red.work.prefs)
<1>1. e \in Lifetime(log) \cup red.known
  BY DEF Identity, Allocating
<1>2. LogicalKey(e) = LogicalKey(p)
  BY <1>1, ResolvedAgrees
<1>3. CASE \E a \in red.work.prefs : a.id = p.id
  BY <1>2, <1>3 DEF Ids
<1>4. CASE /\ \A q \in red.known : q.id # p.id
           /\ p.id = <<Turn, Len(ops), 0>>
  <2>1. e.id \in PrefIds /\ e.id[1] < Turn
    BY <1>1, <1>4 DEF Identity, Allocating
  <2>2. e.id[1] = Turn /\ Turn \in Nat
    BY <1>4 DEF Turn, Typed
  <2> QED
    BY <2>1, <2>2
<1> QED
  BY <1>3, <1>4 DEF Resolvable

LEMMA SubSeqKept ==
    ASSUME NEW S, NEW list \in Seq(S), NEW o \in S, NEW n \in 0..Len(list)
    PROVE  SubSeq(Append(list, o), 1, n) = SubSeq(list, 1, n)
<1>1. Append(list, o) \in Seq(S)
  OBVIOUS
<1>2. /\ SubSeq(Append(list, o), 1, n) \in Seq(S) /\ SubSeq(list, 1, n) \in Seq(S)
      /\ Len(SubSeq(Append(list, o), 1, n)) = n /\ Len(SubSeq(list, 1, n)) = n
      /\ \A i \in 1..n : /\ SubSeq(Append(list, o), 1, n)[i] = Append(list, o)[i]
                         /\ SubSeq(list, 1, n)[i] = list[i]
  BY <1>1, SubSeqProperties
<1>3. \A i \in 1..n : Append(list, o)[i] = list[i]
  OBVIOUS
<1> QED
  BY <1>2, <1>3, SeqEqual

LEMMA SubSeqAll ==
    ASSUME NEW S, NEW list \in Seq(S), NEW o \in S
    PROVE  SubSeq(Append(list, o), 1, Len(list)) = list
<1>1. SubSeq(Append(list, o), 1, Len(list)) = SubSeq(list, 1, Len(list))
  BY SubSeqKept
<1>2. SubSeq(list, 1, Len(list)) = list
  OBVIOUS
<1> QED
  BY <1>1, <1>2

LEMMA LifetimeBuild ==
    ASSUME Typed, Identity, Previewing, txn # 0, ~attempted,
           NEW o \in OperationRecords, NEW b, b.ops = Append(ops, o), b.turn = Turn,
           \A p \in Introduced(o) :
               Resolvable(p, red.work.prefs, red.known, Turn, Len(ops), 0)
    PROVE  LifetimeIdsValid(intent, b, Lifetime(log))
<1>1. /\ b.ops = Append(ops, o) /\ b.turn = Turn
      /\ Batch.ops = ops /\ Batch.turn = Turn
  BY DEF Batch
<1>2. /\ ops \in Seq(OperationRecords) /\ Len(ops) \in Nat /\ DOMAIN ops = 1..Len(ops)
      /\ DOMAIN b.ops = 1..(Len(ops) + 1) /\ b.ops[Len(ops) + 1] = o
      /\ \A i \in 1..Len(ops) : b.ops[i] = ops[i]
  BY <1>1 DEF Typed
<1> DEFINE Seen(list, k) ==
              Lifetime(log) \cup UNION {Introduced(list[j]) : j \in 1..(k - 1)}
           Before(list, k) == Reduction(intent, SubSeq(list, 1, k - 1), Turn)
           Holds(list, k) ==
              \A p \in Introduced(list[k]) : \A e \in Seen(list, k) :
                  e.id = p.id => /\ LogicalKey(e) = LogicalKey(p)
                                 /\ p.id \in Ids(Before(list, k).work.prefs)
<1>3. \A k \in 1..Len(ops) : Holds(ops, k)
  BY <1>1, <1>2 DEF Previewing, Reduced, LifetimeIdsValid
<1>4. ASSUME NEW k \in 1..Len(ops) PROVE Holds(b.ops, k)
  <2>1. k - 1 \in 0..Len(ops) /\ \A j \in 1..(k - 1) : j \in 1..Len(ops)
    BY <1>2
  <2>2. SubSeq(b.ops, 1, k - 1) = SubSeq(ops, 1, k - 1)
    BY <1>1, <1>2, <2>1, SubSeqKept
  <2>3. Seen(b.ops, k) = Seen(ops, k)
    BY <1>2, <2>1
  <2>4. b.ops[k] = ops[k] /\ Before(b.ops, k) = Before(ops, k)
    BY <1>2, <2>2
  <2> HIDE DEF Seen, Before
  <2> QED
    BY <1>3, <2>3, <2>4
<1>5. Holds(b.ops, Len(ops) + 1)
  <2>1. SubSeq(b.ops, 1, (Len(ops) + 1) - 1) = ops
    BY <1>1, <1>2, SubSeqAll
  <2>2. Before(b.ops, Len(ops) + 1) = red
    BY <2>1 DEF Previewing, Reduced
  <2>3. Seen(b.ops, Len(ops) + 1) \subseteq Lifetime(log) \cup Introductions(Batch)
    BY <1>1, <1>2 DEF Introductions
  <2> HIDE DEF Seen, Before
  <2> QED
    BY <1>2, <2>2, <2>3, AcceptedIdsLive
<1>6. \A k \in DOMAIN b.ops : Holds(b.ops, k)
  <2> HIDE DEF Holds
  <2> QED
    BY <1>2, <1>4, <1>5
<1> QED
  BY <1>1, <1>6 DEF LifetimeIdsValid

LEMMA ReducedBuild ==
    ASSUME Typed, Identity, Previewing, NEW o \in Operations(Len(ops)), Extend(o)
    PROVE  Previewing'
<1>1. Formed(o) /\ o \in OperationRecords
  BY OperationsFormed, FormedTyped DEF Extend, Accepts
<1>2. /\ txn # 0 /\ ~attempted
      /\ red' = Step(red, intent.prefs, o, Turn, Len(ops)) /\ red'.ok
      /\ ops' = Append(ops, o) /\ OperationValid(o)
      /\ o.op = "switch" => ops = <<>>
      /\ UNCHANGED <<intent, log, txn, attempted>>
  BY DEF Extend, BuildGuard, Accepts, committed
<1>3. Turn' = Turn /\ Lifetime(log)' = Lifetime(log)
  BY <1>2 DEF Turn
<1>4. red' = Reduction(intent', ops', Turn')
  <2>1. red' = Continued(red, intent.prefs, o, Turn, Len(ops))
    BY <1>2 DEF Previewing, Reduced, Continued
  <2>2. red = Reduction(intent, ops, Turn)
    BY <1>2 DEF Previewing, Reduced
  <2> QED
    BY <1>1, <1>2, <1>3, <2>1, <2>2, ReductionGrows DEF Typed
<1>5. \A i \in DOMAIN ops' : OperationValid(ops'[i]) /\ (ops'[i].op = "switch" => i = 1)
  <2>1. /\ ops \in Seq(OperationRecords) /\ DOMAIN ops = 1..Len(ops) /\ Len(ops) \in Nat
        /\ DOMAIN ops' = 1..(Len(ops) + 1) /\ ops'[Len(ops) + 1] = o
        /\ \A i \in 1..Len(ops) : ops'[i] = ops[i]
        /\ ops = <<>> => Len(ops) = 0
    BY <1>1, <1>2 DEF Typed
  <2> QED
    BY <1>2, <2>1 DEF Previewing, Reduced
<1>6. /\ red'.work = Applied(red.work, intent.prefs, o)
      /\ Permitted(red.work, red.known, intent.prefs, o, Turn, Len(ops))
      /\ ValidIntent(red'.work.prefs, red'.work.dontCare)
  BY <1>2 DEF Step
<1>7. \A p \in Introduced(o) :
          Resolvable(p, red.work.prefs, red.known, Turn, Len(ops), 0)
  BY <1>1, <1>6, IntroducesOne
<1>8. LifetimeIdsValid(intent', Batch', Lifetime(log)')
  <2>1. Batch'.ops = Append(ops, o) /\ Batch'.turn = Turn
    BY <1>2, <1>3 DEF Batch
  <2> QED
    BY <1>1, <1>2, <1>3, <1>7, <2>1, LifetimeBuild
<1> QED
  BY <1>2, <1>4, <1>5, <1>6, <1>8 DEF Previewing, Reduced

LEMMA PreviewingNext == Typed /\ Identity /\ Previewing /\ [Next]_vars => Previewing'
<1> SUFFICES ASSUME Typed, Identity, Previewing, [Next]_vars PROVE Previewing'
  OBVIOUS
<1>1. CASE Open
  BY <1>1, ReducedRestart DEF Open
<1>2. CASE Build
  BY <1>2, ReducedBuild DEF Build
<1>3. CASE Discard
  BY <1>3, ReducedRestart DEF Discard
<1>4. CASE IssueToken
  BY <1>4, ReducedQuiet DEF IssueToken, building
<1>5. CASE Commit
  <2>1. PICK b \in Beliefs, token \in tokens \cup {NoToken} : CommitAttempt(b, token)
    BY <1>5 DEF Commit
  <2>2. CASE CommitPasses(b, token)
    <3>1. intent' = Previewed /\ attempted' = TRUE /\ IntentAllowed(Previewed)
      BY <2>1, <2>2 DEF CommitAttempt, CommitPasses
    <3> QED
      BY <3>1 DEF Previewing, Reduced
  <2>3. CASE ~CommitPasses(b, token)
    BY <2>1, <2>3, ReducedQuiet DEF CommitAttempt, building
  <2> QED
    BY <2>2, <2>3
<1>6. CASE Exit
  BY <1>6, ReducedRestart DEF Exit
<1>7. CASE UNCHANGED vars
  BY <1>7, ReducedQuiet DEF vars, committed
<1> QED
  BY <1>1, <1>2, <1>3, <1>4, <1>5, <1>6, <1>7 DEF Next

LEMMA SequencesAreTuples ==
    ASSUME NEW S, NEW s \in Seq(S)
    PROVE  IsTuple(s)
<1>1. s \in [1..Len(s) -> RangeOf(s)]
  BY DEF RangeOf
<1> QED
  BY <1>1 DEF IsTuple

\* The gateway accepts the batch again, with the intent it previewed.
LEMMA PreviewAgrees ==
    ASSUME Typed, Previewing, txn # 0, ~attempted, ops # <<>>, PreviewPasses
    PROVE  Preview(intent, Batch).ok /\ Preview(intent, Batch).intent = Previewed
<1>1. Batch.turn = Turn /\ Batch.base = intent.version /\ Batch.ops = ops
  BY DEF Batch
<1>2. red = Reduction(intent, ops, Turn) /\ red.ok
  BY DEF Previewing, Reduced
<1>3. BatchValid(ops)
  <2>1. IsTuple(ops)
    BY SequencesAreTuples DEF Typed
  <2> QED
    BY <2>1 DEF Previewing, Reduced, BatchValid
<1>4. ValidIntent(intent.prefs, intent.dontCare)
  BY DEF Previewing, IntentAllowed
<1>5. ReduceIntent(intent, Batch).ok /\ ReduceIntent(intent, Batch).intent = Previewed
  BY <1>1, <1>2, <1>3, <1>4 DEF ReduceIntent, Previewed
<1>6. ReservedMatrix(intent, ops) /\ CompleteIntent(Previewed.prefs, Previewed.dontCare)
  BY DEF PreviewPasses
<1> QED
  BY <1>1, <1>5, <1>6 DEF Preview, Previewing

LEMMA PreviewCommits == Typed /\ Previewing => PreviewedBatchCommits
<1> SUFFICES ASSUME Typed, Previewing, txn # 0, ~attempted, ops # <<>>, PreviewPasses
             PROVE  CommitPasses(NoBelief, NoToken)
  BY DEF PreviewedBatchCommits
<1>1. Preview(intent, Batch).ok /\ Preview(intent, Batch).intent = Previewed
  BY PreviewAgrees
<1>2. LifetimeIdsValid(intent, Batch, Lifetime(log))
  BY DEF Previewing, Reduced
<1>3. IntentAllowed(Previewed)
  BY DEF Previewing, Reduced, PreviewPasses, IntentAllowed, Previewed, Snapshot
<1> QED
  BY <1>1, <1>2, <1>3 DEF CommitPasses, TokenFresh, BeliefFits, ProbeAuthorized

\* A batch the preview accepted is refused by no other rule of commit
\* (aggregate_validation._validate_lifetime_ids).
THEOREM PreviewedAlwaysCommits == Spec => []PreviewedBatchCommits
<1>1. Init => Typed /\ Identity /\ Previewing
  BY TypedInit, IdentityInit, PreviewingInit
<1>2. Typed /\ Identity /\ Previewing /\ [Next]_vars => (Typed /\ Identity /\ Previewing)'
  BY TypedNext, IdentityNext, PreviewingNext
<1> QED
  BY <1>1, <1>2, PreviewCommits, PTL DEF Spec

LEMMA ReplayStays ==
    ASSUME Typed, Identity, ReplayReproducesIntent, [Next]_vars
    PROVE  ReplayReproducesIntent'
<1>1. CASE UNCHANGED committed
  BY <1>1 DEF committed, ReplayReproducesIntent
<1>2. CASE ~UNCHANGED committed
  <2>1. PICK b \in Beliefs, token \in tokens \cup {NoToken} :
            /\ CommitPasses(b, token) /\ intent' = Previewed
            /\ log' = Append(log, Record) /\ txn # 0 /\ ~attempted
    BY <1>2, IntentChanges
  <2>2. Record \in Turns
    BY BatchTyped DEF Record, Turns, Turn, Typed
  <2>3. Replayed(log') = ReplayStep(Replayed(log), Record.batch)
    BY <2>1, <2>2, ReplayedGrows DEF Typed
  <2>4. CASE ops = <<>>
    <3>1. Record.batch = NoBatch
      BY <2>4 DEF Record
    <3>2. Previewed = intent
      <4>1. red.work = Content(intent)
        BY <2>1, <2>4 DEF Identity, Allocating, Start
      <4>2. Previewed.version = intent.version
        BY <4>1 DEF Previewed, Snapshot
      <4> QED
        BY <4>2, VersionsTell
    <3> QED
      BY <2>1, <2>3, <3>1, <3>2 DEF ReplayStep, ReplayReproducesIntent
  <2>5. CASE ops # <<>>
    <3>1. Record.batch = Batch /\ Batch # NoBatch
      BY <2>5, BatchTyped, SessionAssumption DEF Record
    <3>2. Preview(intent, Batch).ok /\ Preview(intent, Batch).intent = Previewed
      BY <2>1, <2>5 DEF CommitPasses
    <3> QED
      BY <2>1, <2>3, <3>1, <3>2 DEF ReplayStep, ReplayReproducesIntent
  <2> QED
    BY <2>4, <2>5
<1> QED
  BY <1>1, <1>2

\* The accepted batches replay to the committed intent: every committed
\* context can be encoded and decoded (envelope._validate_gateway_context).
THEOREM ReplayAlwaysReproduces == Spec => []ReplayReproducesIntent
<1>1. Init => Typed /\ Identity /\ ReplayReproducesIntent
  BY TypedInit, IdentityInit, ReplayedStart DEF Init, ReplayReproducesIntent
<1>2. Typed /\ Identity /\ ReplayReproducesIntent /\ [Next]_vars
      => (Typed /\ Identity /\ ReplayReproducesIntent)'
  BY TypedNext, IdentityNext, ReplayStays
<1> QED
  BY <1>1, <1>2, PTL DEF Spec

----------------------------------------------------------------------------
(* What an intent admits *)

\* A preference says what a caller of the session can say.
Says(p) == \E s \in Shapes : s.facet = p.facet /\ s.value = p.value

Sayable == \A p \in red.known : Says(p)

LEMMA OperationsSay ==
    ASSUME Typed, NEW o \in Operations(Len(ops)), NEW p \in Introduced(o)
    PROVE  p \in red.known \/ Says(p)
<1>1. CASE o \in Additions(Len(ops))
  <2>1. /\ Introduced(o) = {o.pref}
        /\ \/ \E q \in red.known : o.pref = q
           \/ \E s \in AddShapes : \E id : o.pref = WithId(s, id)
    BY <1>1 DEF Additions, Add, Introduced
  <2>2. CASE \E s \in AddShapes : \E id : o.pref = WithId(s, id)
    BY <2>1, <2>2 DEF WithId, Says, Shapes
  <2> QED
    BY <2>1, <2>2
<1>2. CASE o \in Replacements(Len(ops))
  <2>1. PICK s \in ReplaceShapes :
            o = Replace(s.facet, <<WithId(s, <<Turn, Len(ops), 0>>)>>)
    BY <1>2 DEF Replacements
  <2>2. o.op = "replace" /\ o.prefs = <<WithId(s, <<Turn, Len(ops), 0>>)>>
    BY <2>1 DEF Replace
  <2>3. Introduced(o) = RangeOf(o.prefs)
    BY <2>2 DEF Introduced
  <2>4. p = WithId(s, <<Turn, Len(ops), 0>>)
    BY <2>2, <2>3 DEF RangeOf
  <2> QED
    BY <2>1, <2>4 DEF WithId, Says, Shapes
<1>3. CASE o \in Removals \/ o \in Clearings \/ o \in Switches
  <2>1. Introduced(o) = {}
    BY <1>3 DEF Removals, Clearings, Switches, Remove, Clear, DontCare, Switch, Introduced
  <2> QED
    BY <2>1
<1> QED
  BY <1>1, <1>2, <1>3 DEF Operations

LEMMA SayableNext ==
    ASSUME Typed, Identity, Sayable, [Next]_vars
    PROVE  Sayable'
<1>1. CASE red' = Start(intent)
  <2>1. red'.known = intent.prefs
    BY <1>1 DEF Start
  <2> QED
    BY <2>1 DEF Sayable, Identity, Known
<1>2. CASE red' = red
  BY <1>2 DEF Sayable
<1>3. CASE Build
  <2>1. PICK o \in Operations(Len(ops)) : Extend(o)
    BY <1>3 DEF Build
  <2>2. red'.known = red.known \cup Introduced(o)
    BY <2>1 DEF Extend, Step
  <2>3. \A p \in Introduced(o) : p \in red.known \/ Says(p)
    BY OperationsSay
  <2> QED
    BY <2>2, <2>3 DEF Sayable
<1>4. red' = Start(intent) \/ red' = red \/ Build
  BY DEF Next, Open, Discard, IssueToken, Commit, CommitAttempt, Exit, vars, building
<1> QED
  BY <1>1, <1>2, <1>3, <1>4

\* A bound: one whole number, around which the grid is tried.
LEMMA BoundNumber ==
    ASSUME NEW p \in Preferences, Says(p), ValidPreference(p), p.facet \in NumericFacets
    PROVE  /\ NumericValue(p) \in Int
           /\ {2 * NumericValue(p) - 1, 2 * NumericValue(p), 2 * NumericValue(p) + 1}
                  \subseteq Grid
           /\ p.op \in LowerOps \cup UpperOps
<1>1. PICK s \in Shapes : s.facet = p.facet /\ s.value = p.value
  BY DEF Says
<1>2. /\ IsFiniteSet(p.value) /\ p.value \subseteq Int
      /\ \A n \in p.value : {2 * n - 1, 2 * n, 2 * n + 1} \subseteq Grid
  BY <1>1, SessionAssumption
<1>3. Cardinality(p.value) = 1
  BY DEF ValidPreference
<1>4. PICK x : p.value = {x}
  BY <1>2, <1>3, FS_Singleton
<1>5. NumericValue(p) = x
  BY <1>4 DEF NumericValue
<1>6. p.op \in LowerOps \cup UpperOps
  BY FacetsAssumption DEF ValidPreference, OperatorsOf
<1> QED
  BY <1>2, <1>4, <1>5, <1>6

LEMMA BoundSatisfied ==
    ASSUME NEW p, p.op \in LowerOps \cup UpperOps, NEW v
    PROVE  Satisfies(p, v) <=> \/ p.op = "lt" /\ v < 2 * NumericValue(p)
                               \/ p.op = "le" /\ v <= 2 * NumericValue(p)
                               \/ p.op = "gt" /\ v > 2 * NumericValue(p)
                               \/ p.op = "ge" /\ v >= 2 * NumericValue(p)
  BY DEF Satisfies, LowerOps, UpperOps

\* A stronger bound of a direction admits less, and only it does.
LEMMA StrongerAdmitsLess ==
    ASSUME NEW p, p.op \in LowerOps \cup UpperOps, NumericValue(p) \in Int,
           NEW q, q.op \in LowerOps \cup UpperOps, NumericValue(q) \in Int,
           Direction(p) = Direction(q), NEW v \in Int
    PROVE  /\ StrongerBound(p, q) /\ Satisfies(p, v) => Satisfies(q, v)
           /\ ~StrongerBound(p, q) /\ Satisfies(q, v) => Satisfies(p, v)
<1>1. \/ p.op \in {"gt", "ge"} /\ q.op \in {"gt", "ge"}
      \/ p.op \in {"lt", "le"} /\ q.op \in {"lt", "le"}
  BY DEF Direction, LowerOps, UpperOps
<1> DEFINE a == NumericValue(p)
           b == NumericValue(q)
<1>2. StrongerBound(p, q)
      <=> IF p.op \in {"gt", "ge"} THEN a > b \/ (a = b /\ p.op = "gt" /\ q.op = "ge")
          ELSE a < b \/ (a = b /\ p.op = "lt" /\ q.op = "le")
  BY DEF StrongerBound, LowerOps
<1>3. Satisfies(p, v) <=> \/ p.op = "lt" /\ v < 2 * a
                          \/ p.op = "le" /\ v <= 2 * a
                          \/ p.op = "gt" /\ v > 2 * a
                          \/ p.op = "ge" /\ v >= 2 * a
  BY BoundSatisfied
<1>4. Satisfies(q, v) <=> \/ q.op = "lt" /\ v < 2 * b
                          \/ q.op = "le" /\ v <= 2 * b
                          \/ q.op = "gt" /\ v > 2 * b
                          \/ q.op = "ge" /\ v >= 2 * b
  BY BoundSatisfied
<1> HIDE DEF a, b
<1>5. a \in Int /\ b \in Int
  BY DEF a, b
<1>6. CASE p.op \in {"gt", "ge"} /\ q.op \in {"gt", "ge"}
  BY <1>2, <1>3, <1>4, <1>5, <1>6
<1>7. CASE p.op \in {"lt", "le"} /\ q.op \in {"lt", "le"}
  BY <1>2, <1>3, <1>4, <1>5, <1>7
<1> QED
  BY <1>1, <1>6, <1>7

LEMMA AdmittedBy ==
    ASSUME NEW prefs, NEW c, NEW f, NEW v
    PROVE  v \in Admitted(Committed(prefs, c), f)
           <=> /\ v \in ValuesOf(f)
               /\ \A q \in prefs : q.commitment = c /\ q.facet = f => Satisfies(q, v)
  BY DEF Admitted, Committed

LEMMA WithPreferenceNarrows ==
    ASSUME NEW prefs \in SUBSET Preferences,
           \A q \in prefs : ValidPreference(q) /\ Says(q),
           NEW p \in Preferences, ValidPreference(p), Says(p), p.facet \in Facets,
           NEW c, NEW v \in ValuesOf(p.facet)
    PROVE  (\A q \in WithPreference(prefs, p) :
                q.commitment = c /\ q.facet = p.facet => Satisfies(q, v))
           <=> /\ \A q \in prefs : q.commitment = c /\ q.facet = p.facet => Satisfies(q, v)
               /\ p.commitment = c => Satisfies(p, v)
<1> DEFINE M == MatchingBound(prefs, p)
<1>1. \A q \in M : /\ q \in prefs /\ q.facet = p.facet /\ q.commitment = p.commitment
                   /\ Direction(q) = Direction(p)
  BY DEF MatchingBound
<1>2. CASE p.facet \in NumericFacets /\ M # {} /\ \A q \in M : StrongerBound(p, q)
  <2>1. WithPreference(prefs, p) = (prefs \ M) \cup {p}
    BY <1>2 DEF WithPreference
  <2>2. v \in Int
    BY <1>2, SessionAssumption DEF ValuesOf
  <2>3. \A q \in M : Satisfies(p, v) => Satisfies(q, v)
    BY <1>1, <1>2, <2>2, BoundNumber, StrongerAdmitsLess
  <2> HIDE DEF M
  <2> QED
    BY <1>1, <2>1, <2>3
<1>3. CASE p.facet \in NumericFacets /\ \E q \in M : ~StrongerBound(p, q)
  <2>1. WithPreference(prefs, p) = prefs
    BY <1>3 DEF WithPreference
  <2>2. v \in Int
    BY <1>3, SessionAssumption DEF ValuesOf
  <2>3. PICK q \in M : ~StrongerBound(p, q)
    BY <1>3
  <2>4. Satisfies(q, v) => Satisfies(p, v)
    BY <1>1, <1>3, <2>2, <2>3, BoundNumber, StrongerAdmitsLess
  <2> HIDE DEF M
  <2> QED
    BY <1>1, <2>1, <2>3, <2>4
<1>4. CASE ~(p.facet \in NumericFacets /\ M # {})
  <2>1. WithPreference(prefs, p) = prefs \cup {p}
    BY <1>4 DEF WithPreference
  <2> QED
    BY <2>1
<1> QED
  BY <1>2, <1>3, <1>4

Authority == Typed /\ Identity /\ Previewing /\ Sayable

LEMMA AuthorityInit == Init => Authority
<1>1. Init => Sayable
  BY DEF Init, Start, EmptyIntent, Sayable
<1> QED
  BY <1>1, TypedInit, IdentityInit, PreviewingInit DEF Authority

LEMMA AuthorityNext == Authority /\ [Next]_vars => Authority'
  BY TypedNext, IdentityNext, PreviewingNext, SayableNext DEF Authority

\* The working intent of an open batch is a valid one.
LEMMA WorkValid ==
    ASSUME Authority, txn # 0, ~attempted
    PROVE  /\ ValidIntent(red.work.prefs, red.work.dontCare)
           /\ red.work.prefs \in SUBSET Preferences
           /\ \A q \in red.work.prefs : ValidPreference(q) /\ Says(q)
<1>1. ValidIntent(red.work.prefs, red.work.dontCare)
  <2>1. CASE ops = <<>>
    <3>1. red.work.prefs = intent.prefs /\ red.work.dontCare = intent.dontCare
      BY <2>1 DEF Authority, Identity, Allocating, Start, Content
    <3> QED
      BY <3>1 DEF Authority, Previewing, IntentAllowed
  <2>2. CASE ops # <<>>
    BY <2>2 DEF Authority, Previewing, Reduced
  <2> QED
    BY <2>1, <2>2
<1>2. red.work.prefs \in SUBSET Preferences
  BY DEF Authority, Typed, Reductions, Contents
<1>3. \A q \in red.work.prefs : ValidPreference(q)
  BY <1>1 DEF ValidIntent
<1>4. \A q \in red.work.prefs : Says(q)
  BY DEF Authority, Identity, Known, Sayable
<1> QED
  BY <1>1, <1>2, <1>3, <1>4

LEMMA AddApplied ==
    ASSUME Authority, txn # 0, ~attempted, NEW p, NEW o, o = Add(p),
           o \in Operations(Len(ops)), Extend(o), p.facet \in Facets, NEW c
    PROVE  Admitted(Committed(red'.work.prefs, c), p.facet)
           = {v \in Admitted(Committed(red.work.prefs, c), p.facet) :
                 p.commitment = c => Satisfies(p, v)}
<1>1. o.op = "add" /\ o.pref = p /\ Introduced(o) = {p}
  BY DEF Add, Introduced
<1>2. /\ OperationValid(o)
      /\ red' = Step(red, intent.prefs, o, Turn, Len(ops)) /\ red'.ok
  BY DEF Extend, Accepts
<1>3. p \in Preferences /\ ValidPreference(p) /\ Says(p)
  <2>1. Formed(o)
    BY <1>2, OperationsFormed DEF Authority
  <2>2. p \in Preferences
    BY <1>1, <2>1, IntroducesOne
  <2>3. ValidPreference(p)
    BY <1>1, <1>2 DEF OperationValid
  <2>4. p \in red.known \/ Says(p)
    BY <1>1, OperationsSay DEF Authority
  <2> QED
    BY <2>2, <2>3, <2>4 DEF Authority, Sayable
<1>4. /\ red'.work = AddPreference(red.work, p)
      /\ Resolvable(p, red.work.prefs, red.known, Turn, Len(ops), 0)
  BY <1>1, <1>2 DEF Step, Applied, Permitted
<1>5. CASE \E a \in red.work.prefs : a.id = p.id
  <2>1. PICK a \in red.work.prefs : a.id = p.id
    BY <1>5
  <2>2. LogicalKey(a) = LogicalKey(p)
    BY <1>4, <2>1, ResolvedAgrees DEF Authority, Identity, Known
  <2>3. \A f \in LogicalFields : a[f] = p[f]
    BY <2>2 DEF LogicalKey
  <2>4. a.facet = p.facet /\ a.op = p.op /\ a.value = p.value /\ a.commitment = p.commitment
    BY <2>3 DEF LogicalFields
  <2>5. red'.work.prefs = red.work.prefs
    BY <1>4, <1>5 DEF AddPreference
  <2>6. \A v : Satisfies(a, v) = Satisfies(p, v)
    BY <2>4, Zenon DEF Satisfies, NumericValue
  <2>7. ASSUME NEW v, v \in Admitted(Committed(red.work.prefs, c), p.facet), p.commitment = c
        PROVE  Satisfies(p, v)
    BY <2>1, <2>4, <2>6, <2>7, AdmittedBy
  <2> QED
    BY <2>5, <2>7
<1>6. CASE ~\E a \in red.work.prefs : a.id = p.id
  <2>1. red'.work.prefs = WithPreference(red.work.prefs, p)
    BY <1>4, <1>6 DEF AddPreference, Authority, Typed, Reductions, Contents
  <2>2. ASSUME NEW v
        PROVE  v \in Admitted(Committed(red'.work.prefs, c), p.facet)
               <=> /\ v \in Admitted(Committed(red.work.prefs, c), p.facet)
                   /\ p.commitment = c => Satisfies(p, v)
    <3>1. CASE v \in ValuesOf(p.facet)
      <4> DEFINE On(prefs) == \A q \in prefs :
                                  q.commitment = c /\ q.facet = p.facet => Satisfies(q, v)
      <4>1. /\ red.work.prefs \in SUBSET Preferences
            /\ \A q \in red.work.prefs : ValidPreference(q) /\ Says(q)
        BY WorkValid
      <4>2. On(WithPreference(red.work.prefs, p))
            <=> On(red.work.prefs) /\ (p.commitment = c => Satisfies(p, v))
        BY <1>3, <3>1, <4>1, WithPreferenceNarrows
      <4>3. v \in Admitted(Committed(red'.work.prefs, c), p.facet)
            <=> On(WithPreference(red.work.prefs, p))
        BY <2>1, <3>1, AdmittedBy
      <4>4. v \in Admitted(Committed(red.work.prefs, c), p.facet) <=> On(red.work.prefs)
        BY <3>1, AdmittedBy
      <4> HIDE DEF On
      <4> QED
        BY <4>2, <4>3, <4>4
    <3>2. CASE v \notin ValuesOf(p.facet)
      BY <3>2, AdmittedBy
    <3> QED
      BY <3>1, <3>2
  <2> QED
    BY <2>2
<1> QED
  BY <1>5, <1>6

LEMMA AddStep ==
    ASSUME Authority, [Next]_vars, NEW p, ops' = Append(ops, Add(p)), p.facet \in Facets,
           NEW c
    PROVE  Admitted(Committed(red'.work.prefs, c), p.facet)
           = {v \in Admitted(Committed(red.work.prefs, c), p.facet) :
                 p.commitment = c => Satisfies(p, v)}
<1>1. /\ ops \in Seq(OperationRecords)
      /\ Append(ops, Add(p)) # ops /\ Append(ops, Add(p)) # <<>>
  <2>1. ops \in Seq(OperationRecords)
    BY DEF Authority, Typed
  <2>2. Len(Append(ops, Add(p))) = Len(ops) + 1 /\ Len(ops) \in Nat
    BY <2>1
  <2> QED
    BY <2>1, <2>2
<1>2. Build
  BY <1>1 DEF Next, Open, Discard, IssueToken, Commit, CommitAttempt, Exit, vars, building
<1>3. PICK o \in Operations(Len(ops)) : Extend(o)
  BY <1>2 DEF Build
<1>4. ops' = Append(ops, o) /\ txn # 0 /\ ~attempted
  BY <1>3 DEF Extend, BuildGuard
<1>5. o = Add(p)
  <2>1. Append(ops, o)[Len(ops) + 1] = o /\ Append(ops, Add(p))[Len(ops) + 1] = Add(p)
    BY <1>1
  <2> QED
    BY <1>4, <2>1
<1> QED
  BY <1>3, <1>4, <1>5, AddApplied

\* Adding a preference narrows its facet, at its commitment, to exactly the
\* values it allows, whichever bounds were there (reducer._add_preference).
THEOREM AddsNarrow == Spec => AddNarrows
<1>1. Authority /\ [Next]_vars
      => [\A p \in red.known \cup red'.known :
             ops' = Append(ops, Add(p)) /\ p.facet \in Facets
             => \A c \in {"hard", "soft"} :
                   Admitted(Committed(red'.work.prefs, c), p.facet)
                   = {v \in Admitted(Committed(red.work.prefs, c), p.facet) :
                         p.commitment = c => Satisfies(p, v)}]_vars
  BY AddStep
<1> QED
  BY <1>1, AuthorityInit, AuthorityNext, PTL DEF Spec, AddNarrows

\* Of the bounds of a direction, one for each commitment, none is stronger
\* than the strongest.
LEMMA StrongestBound ==
    ASSUME NEW bounds \in SUBSET Preferences, bounds # {},
           \A p \in bounds : /\ p.op \in LowerOps \cup UpperOps
                             /\ NumericValue(p) \in Int,
           \A p, q \in bounds : Direction(p) = Direction(q),
           \A p, q \in bounds : p.commitment = q.commitment => p = q
    PROVE  /\ Strongest(bounds) \in bounds
           /\ \A q \in bounds : ~StrongerBound(q, Strongest(bounds))
<1>1. \A p, q \in bounds : StrongerBound(p, q) => ~StrongerBound(q, p)
  <2> TAKE p, q \in bounds
  <2> DEFINE a == NumericValue(p)
             b == NumericValue(q)
  <2>1. a \in Int /\ b \in Int
    OBVIOUS
  <2>2. (p.op \in LowerOps) = (q.op \in LowerOps)
    BY DEF Direction, LowerOps, UpperOps
  <2>3. StrongerBound(p, q)
        <=> IF p.op \in LowerOps THEN a > b \/ (a = b /\ p.op = "gt" /\ q.op = "ge")
            ELSE a < b \/ (a = b /\ p.op = "lt" /\ q.op = "le")
    BY DEF StrongerBound
  <2>4. StrongerBound(q, p)
        <=> IF q.op \in LowerOps THEN b > a \/ (b = a /\ q.op = "gt" /\ p.op = "ge")
            ELSE b < a \/ (b = a /\ q.op = "lt" /\ p.op = "le")
    BY DEF StrongerBound
  <2> HIDE DEF a, b
  <2> QED
    BY <2>1, <2>2, <2>3, <2>4
<1>2. \A p \in bounds : p.commitment \in {"hard", "soft"}
  BY DEF Preferences
<1>3. \E p \in bounds : \A q \in bounds : ~StrongerBound(q, p)
  <2>1. PICK a \in bounds : TRUE
    OBVIOUS
  <2>2. CASE \E q \in bounds : StrongerBound(q, a)
    <3>1. PICK q \in bounds : StrongerBound(q, a)
      BY <2>2
    <3>2. q # a /\ \A r \in bounds : r = a \/ r = q
      BY <1>1, <1>2, <3>1
    <3> QED
      BY <1>1, <3>1, <3>2
  <2> QED
    BY <2>1, <2>2
<1> QED
  BY <1>3, Zenon DEF Strongest

\* Bounds that leave no empty interval admit a number of the grid.
LEMMA IntervalAdmits ==
    ASSUME NEW lo, lo.op \in {"gt", "ge"}, NumericValue(lo) \in Int,
           NEW hi, hi.op \in {"lt", "le"}, NumericValue(hi) \in Int,
           ~IntervalEmpty(lo, hi)
    PROVE  \E v \in {2 * NumericValue(lo), 2 * NumericValue(lo) + 1} :
               Satisfies(lo, v) /\ Satisfies(hi, v)
<1> DEFINE a == NumericValue(lo)
           b == NumericValue(hi)
<1>1. \A v : Satisfies(lo, v) <=> \/ lo.op = "gt" /\ v > 2 * a
                                  \/ lo.op = "ge" /\ v >= 2 * a
  BY BoundSatisfied DEF LowerOps, UpperOps
<1>2. \A v : Satisfies(hi, v) <=> \/ hi.op = "lt" /\ v < 2 * b
                                  \/ hi.op = "le" /\ v <= 2 * b
  BY BoundSatisfied DEF LowerOps, UpperOps
<1>3. a <= b /\ (a = b => lo.op = "ge" /\ hi.op = "le")
  BY DEF IntervalEmpty
<1> HIDE DEF a, b
<1>4. a \in Int /\ b \in Int
  BY DEF a, b
<1>5. CASE lo.op = "gt"
  <2>1. Satisfies(lo, 2 * a + 1) /\ Satisfies(hi, 2 * a + 1)
    BY <1>1, <1>2, <1>3, <1>4, <1>5
  <2> QED
    BY <2>1 DEF a
<1>6. CASE lo.op = "ge"
  <2>1. Satisfies(lo, 2 * a) /\ Satisfies(hi, 2 * a)
    BY <1>1, <1>2, <1>3, <1>4, <1>6
  <2> QED
    BY <2>1 DEF a
<1> QED
  BY <1>5, <1>6

LEMMA NumericAdmits ==
    ASSUME NEW prefs \in SUBSET Preferences, NEW dontCare, ValidIntent(prefs, dontCare),
           \A p \in prefs : Says(p), NEW f \in NumericFacets
    PROVE  Admitted(prefs, f) # {}
<1> DEFINE L == BoundsOn(prefs, f, LowerOps)
           U == BoundsOn(prefs, f, UpperOps)
<1>1. /\ \A p \in L : p \in prefs /\ p.facet = f /\ p.op \in {"gt", "ge"}
      /\ \A p \in U : p \in prefs /\ p.facet = f /\ p.op \in {"lt", "le"}
  BY DEF BoundsOn, LowerOps, UpperOps
<1>2. \A p \in prefs : p.facet = f
          => /\ NumericValue(p) \in Int /\ p.op \in LowerOps \cup UpperOps
             /\ {2 * NumericValue(p) - 1, 2 * NumericValue(p), 2 * NumericValue(p) + 1}
                    \subseteq Grid
  BY BoundNumber DEF ValidIntent
<1>3. \A p \in prefs : p.facet = f => p \in L \cup U
  BY <1>2 DEF BoundsOn
<1>4. /\ \A p \in L : Direction(p) = "lower"
      /\ \A p \in U : Direction(p) = "upper"
  BY <1>1 DEF Direction, LowerOps, UpperOps
<1>5. \A p, q \in prefs : /\ p.facet = f /\ q.facet = f /\ p.commitment = q.commitment
                          /\ Direction(p) = Direction(q)
                          => p = q
  BY DEF ValidIntent, NumericStateValid
<1>6. L # {} /\ U # {} => ~IntervalEmpty(Strongest(L), Strongest(U))
  BY DEF ValidIntent, NumericStateValid
<1>7. L \in SUBSET Preferences /\ U \in SUBSET Preferences
  BY DEF BoundsOn
<1>8. Grid # {} /\ Grid \subseteq Int /\ ValuesOf(f) = Grid
  BY SessionAssumption DEF ValuesOf
<1> HIDE DEF L, U
<1>9. L # {} => /\ Strongest(L) \in L
                /\ \A q \in L : ~StrongerBound(q, Strongest(L))
  BY <1>1, <1>2, <1>4, <1>5, <1>7, StrongestBound
<1>10. U # {} => /\ Strongest(U) \in U
                 /\ \A q \in U : ~StrongerBound(q, Strongest(U))
  BY <1>1, <1>2, <1>4, <1>5, <1>7, StrongestBound
\* What the strongest bound of a direction admits, all of them admit.
<1>11. ASSUME NEW v \in Int, L # {}, Satisfies(Strongest(L), v), NEW q \in L
       PROVE  Satisfies(q, v)
  <2>1. Strongest(L) \in L /\ ~StrongerBound(q, Strongest(L))
    BY <1>9, <1>11
  <2> QED
    BY <1>1, <1>2, <1>4, <1>11, <2>1, StrongerAdmitsLess
<1>12. ASSUME NEW v \in Int, U # {}, Satisfies(Strongest(U), v), NEW q \in U
       PROVE  Satisfies(q, v)
  <2>1. Strongest(U) \in U /\ ~StrongerBound(q, Strongest(U))
    BY <1>10, <1>12
  <2> QED
    BY <1>1, <1>2, <1>4, <1>12, <2>1, StrongerAdmitsLess
<1>13. \E v \in Grid : /\ L # {} => Satisfies(Strongest(L), v)
                       /\ U # {} => Satisfies(Strongest(U), v)
  <2>1. CASE L # {} /\ U # {}
    BY <1>1, <1>2, <1>6, <1>9, <1>10, <2>1, IntervalAdmits
  <2>2. CASE L # {} /\ U = {}
    <3> DEFINE lo == Strongest(L)
               a == NumericValue(lo)
    <3>1. /\ lo.op \in {"gt", "ge"} /\ a \in Int /\ lo.op \in LowerOps \cup UpperOps
          /\ {2 * a - 1, 2 * a, 2 * a + 1} \subseteq Grid
      BY <1>1, <1>2, <1>9, <2>2
    <3>2. 2 * a + 1 > 2 * a /\ 2 * a + 1 >= 2 * a
      BY <3>1
    <3>3. Satisfies(lo, 2 * a + 1)
      BY <3>1, <3>2, BoundSatisfied
    <3> QED
      BY <2>2, <3>1, <3>3
  <2>3. CASE L = {} /\ U # {}
    <3> DEFINE hi == Strongest(U)
               b == NumericValue(hi)
    <3>1. /\ hi.op \in {"lt", "le"} /\ b \in Int /\ hi.op \in LowerOps \cup UpperOps
          /\ {2 * b - 1, 2 * b, 2 * b + 1} \subseteq Grid
      BY <1>1, <1>2, <1>10, <2>3
    <3>2. 2 * b - 1 < 2 * b /\ 2 * b - 1 <= 2 * b
      BY <3>1
    <3>3. Satisfies(hi, 2 * b - 1)
      BY <3>1, <3>2, BoundSatisfied
    <3> QED
      BY <2>3, <3>1, <3>3
  <2>4. CASE L = {} /\ U = {}
    BY <1>8, <2>4
  <2> QED
    BY <2>1, <2>2, <2>3, <2>4
<1>14. PICK v \in Grid : /\ L # {} => Satisfies(Strongest(L), v)
                         /\ U # {} => Satisfies(Strongest(U), v)
  BY <1>13
<1>15. \A p \in prefs : p.facet = f => Satisfies(p, v)
  BY <1>3, <1>8, <1>11, <1>12, <1>14
<1> QED
  BY <1>8, <1>15 DEF Admitted

LEMMA CategoricalAdmits ==
    ASSUME NEW prefs \in SUBSET Preferences, NEW dontCare, ValidIntent(prefs, dontCare),
           \A p \in prefs : Says(p), NEW f \in Facets \ NumericFacets
    PROVE  Admitted(prefs, f) # {}
<1> DEFINE P == CategoricalOn(prefs, f, PositiveOps)
           N == CategoricalOn(prefs, f, NegativeOps)
<1>1. \A p \in prefs : p.facet = f => p.op \in {"in", "not_in"}
  BY FacetsAssumption DEF ValidIntent, ValidPreference, OperatorsOf, PositiveOps,
                          NegativeOps
<1>2. \A p \in prefs : p.facet = f => (p.op = "in" => p \in P) /\ (p.op = "not_in" => p \in N)
  BY DEF CategoricalOn, PositiveOps, NegativeOps
<1>3. \A p \in P : p \in prefs /\ p.facet = f
  BY DEF CategoricalOn
<1>4. P # {} => \E v \in UNION {p.value : p \in P} :
                    /\ \A p \in P : v \in p.value
                    /\ \A p \in N : v \notin p.value
  BY DEF ValidIntent, CategoricalStateValid, RemainingValues
<1>5. \A p, v : /\ p.op = "in" => (Satisfies(p, v) <=> v \in p.value)
                /\ p.op = "not_in" => (Satisfies(p, v) <=> v \notin p.value)
  BY DEF Satisfies
<1>6. ValuesOf(f) = Scalars
  BY DEF ValuesOf
<1>7. \A p \in prefs : p.facet = f => p.value \subseteq Scalars
  BY SessionAssumption DEF Says
<1> HIDE DEF P, N
<1>8. CASE P # {}
  <2>1. PICK v \in UNION {p.value : p \in P} : /\ \A p \in P : v \in p.value
                                              /\ \A p \in N : v \notin p.value
    BY <1>4, <1>8
  <2>2. v \in Scalars
    BY <1>3, <1>7, <2>1
  <2>3. \A p \in prefs : p.facet = f => Satisfies(p, v)
    BY <1>1, <1>2, <1>5, <2>1
  <2> QED
    BY <1>6, <2>2, <2>3 DEF Admitted
<1>9. CASE P = {}
  <2>1. PICK v \in Scalars : \A s \in Shapes :
            s.facet \in Facets \ NumericFacets => v \notin s.value
    BY SessionAssumption
  <2>2. \A p \in prefs : p.facet = f => v \notin p.value
    BY <2>1 DEF Says
  <2>3. \A p \in prefs : p.facet = f => Satisfies(p, v)
    BY <1>1, <1>2, <1>5, <1>9, <2>2
  <2> QED
    BY <1>6, <2>1, <2>3 DEF Admitted
<1> QED
  BY <1>8, <1>9

LEMMA ValidIntentsAdmit == Authority => CommittedIntentSatisfiable
<1> SUFFICES ASSUME Authority, NEW f \in Facets
             PROVE  /\ Admitted(intent.prefs, f) # {}
                    /\ f \in intent.dontCare => Admitted(intent.prefs, f) = ValuesOf(f)
  BY DEF CommittedIntentSatisfiable
<1>1. ValidIntent(intent.prefs, intent.dontCare) /\ intent.prefs \in SUBSET Preferences
  BY DEF Authority, Previewing, IntentAllowed, Typed, Intents
<1>2. \A p \in intent.prefs : Says(p)
  BY DEF Authority, Identity, Known, Sayable
<1>3. Admitted(intent.prefs, f) # {}
  BY <1>1, <1>2, NumericAdmits, CategoricalAdmits
<1>4. ASSUME f \in intent.dontCare PROVE Admitted(intent.prefs, f) = ValuesOf(f)
  <2>1. \A p \in intent.prefs : p.facet # f
    BY <1>1, <1>4, FacetsAssumption DEF ValidIntent, ActiveFacets
  <2> QED
    BY <2>1 DEF Admitted
<1> QED
  BY <1>3, <1>4

\* The committed preferences can be met together, facet by facet, and no
\* facet is wanted and irrelevant at once (validation.py:324,377).
THEOREM CommittedAlwaysSatisfiable == Spec => []CommittedIntentSatisfiable
<1> QED
  BY AuthorityInit, AuthorityNext, ValidIntentsAdmit, PTL DEF Spec
=============================================================================
