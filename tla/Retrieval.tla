----------------------------- MODULE Retrieval -----------------------------
(***************************************************************************)
(* The search for one compiled query: the hard mask                        *)
(* (retrieval/hard_mask.py), the three routes and their union under the    *)
(* budgets of the transparency (retrieval/controller.py, routing.py,       *)
(* lexical.py, transparency_recall.py), and the final slate                *)
(* (application/quality_ranking.py and retrieval/deepseek_ranking).        *)
(*                                                                         *)
(* Scores of embeddings, full-text search and language models are left     *)
(* out: a ranking of products by them may be any, so a list cut at k is    *)
(* any subset of that size, and routes and slates are sets.                *)
(***************************************************************************)
EXTENDS QueryCompiler

CONSTANTS Product,
          InScope,      \* [Product -> SUBSET Scopes]: {} when unassigned
          PriceOf,      \* [Product -> <<low, high>>], or NoPrice
          NoPrice,
          Evidence,     \* [Product -> values its texts are evidence of]
          PoolK,        \* candidate_pool_k
          DenseAtHigh, DenseRange,  \* dense budget at transparency 1, and
                                    \* what it gains towards 0
          LexicalAtLow, LexicalRange,
          ShortlistK,   \* cards judged by the quality ranker
          FinalK,       \* final_k of the formal slate
          TopK          \* products a turn shows

ASSUME CatalogAssumption == IsFiniteSet(Product)

ASSUME BudgetsAssumption ==
    /\ {PoolK, DenseAtHigh, LexicalAtLow, ShortlistK, FinalK, TopK} \subseteq Nat \ {0}
    /\ {DenseRange, LexicalRange} \subseteq Nat
    /\ DenseAtHigh + DenseRange + LexicalAtLow < PoolK
    /\ DenseAtHigh + LexicalAtLow + LexicalRange < PoolK
    /\ TopK <= FinalK /\ TopK <= ShortlistK /\ FinalK <= PoolK

----------------------------------------------------------------------------
(* The hard mask *)

Bound(p) == CHOOSE v \in p.value : TRUE

\* match_numeric_interval and safe_filter_keeps: only a price that lies
\* outside the bound for certain is dropped.
PriceKept(product, p) ==
    LET cost == PriceOf[product]
    IN  cost = NoPrice \/ CASE p.op = "lt" -> cost[1] < Bound(p)
                             [] p.op = "le" -> cost[1] <= Bound(p)
                             [] p.op = "gt" -> cost[2] > Bound(p)
                             [] OTHER -> cost[2] >= Bound(p)

\* _matching_products: an exclusion matches what it names.
Matching(p) ==
    {x \in Product :
        CASE p.facet = Category -> p.value \cap InScope[x] # {}
          [] p.facet \in NumericFacets -> PriceKept(x, p)
          [] OTHER -> p.value \cap Evidence[x] # {}}

Exclusion(p) == p.op \in NegativeOps
Exclusions(prefs) == {p \in HardConstraints(prefs) : Exclusion(p)}
Inclusions(prefs) == HardConstraints(prefs) \ Exclusions(prefs)

\* Mutant: the bounds on prices run first.
InOrder_PriceFirst(prefs) ==
    LET Before(p, q) ==
            \/ p.facet \in NumericFacets /\ q.facet \notin NumericFacets
            \/ (p.facet \in NumericFacets) = (q.facet \in NumericFacets)
               /\ IdLess(p.id, q.id)
    IN  [i \in 1..Cardinality(prefs) |->
            CHOOSE p \in prefs :
                Cardinality({q \in prefs : Before(q, p)}) = i - 1]

\* The preferences of an intent are sorted by id.
InOrder(prefs) ==
    [i \in 1..Cardinality(prefs) |->
        CHOOSE p \in prefs :
            Cardinality({q \in prefs : IdLess(q.id, p.id)}) = i - 1]

\* resolve: exclusions first and for good, then each inclusion that leaves
\* something.
HardMask(prefs) ==
    LET open == Product \ UNION {Matching(p) : p \in Exclusions(prefs)}
        steps == InOrder(Inclusions(prefs))
        after[i \in 0..Len(steps)] ==
            IF i = 0 THEN [eligible |-> open, relaxed |-> {}]
            ELSE LET left == after[i - 1].eligible \cap Matching(steps[i])
                 IN  IF open # {} /\ left = {}
                     THEN [after[i - 1] EXCEPT !.relaxed = @ \cup {steps[i]}]
                     ELSE [after[i - 1] EXCEPT !.eligible = left]
    IN  after[Len(steps)]

----------------------------------------------------------------------------
(* The routes *)

\* The first k of a ranking that is not modelled.
Cut(S, k) == {T \in SUBSET S : Cardinality(T) = IF k < Cardinality(S) THEN k
                                                ELSE Cardinality(S)}

\* RecallBudgets at transparency t percent, rounded half up.
Budgets(t) ==
    LET dense == DenseAtHigh + (DenseRange * (100 - t) + 50) \div 100
        lexical == LexicalAtLow + (LexicalRange * t + 50) \div 100
    IN  [dense |-> dense, lexical |-> lexical, facet |-> PoolK - dense - lexical]

\* FacetRoute: conditions on the facets looked up in product texts, from
\* ranking preferences and relaxed constraints; a product that matches one
\* positive condition is scored.  The score is scaled to whole numbers.
FacetScore(x, positive, negative) ==
    LET Hits(conditions) == Cardinality({p \in conditions : x \in Matching(p)})
        most == IF negative = {} THEN 1 ELSE Cardinality(negative)
    IN  20 * Hits(positive) * most - 7 * Hits(negative) * Cardinality(positive)

\* Mutant: the route ranks the whole catalog.
FacetHits_WholeCatalog(prefs, mask, k) ==
    LET positive == {p \in RankingPreferences(prefs) \cup mask.relaxed :
                        p.facet \in RetrievalDerived /\ ~Exclusion(p)}
    IN  Cut(UNION {Matching(p) : p \in positive}, k)

FacetHits(prefs, mask, k) ==
    LET conditions == {p \in RankingPreferences(prefs) \cup mask.relaxed :
                          p.facet \in RetrievalDerived}
        negative == {p \in conditions : Exclusion(p)}
        positive == conditions \ negative
        matched == mask.eligible \cap UNION {Matching(p) : p \in positive}
    IN  {T \in Cut(matched, k) : \A x \in T, y \in matched \ T :
            FacetScore(x, positive, negative) >= FacetScore(y, positive, negative)}

\* The lexical route ranks the eligible products its words occur in.
LexicalHits(mask, k) == {T \in SUBSET mask.eligible : Cardinality(T) <= k}

\* Mutant: what overlaps between the routes is not refilled.
Recalled_NoRefill(prefs, mask, t) ==
    LET b == Budgets(t)
    IN  UNION {{d \cup l \cup f : d \in Cut(mask.eligible, b.dense),
                                  l \in LexicalHits(mask, b.lexical)} :
               f \in FacetHits(prefs, mask, b.facet)}

\* _transparency_aware_routes and the fusion: the routes within their
\* budgets, refilled from the reserve of the dense route to PoolK.
Recalled(prefs, mask, t) ==
    LET b == Budgets(t)
        Unions(reserve) ==
            {d \cup l \cup f : d \in Cut(reserve, b.dense),
                               l \in LexicalHits(mask, b.lexical),
                               f \in FacetHits(prefs, mask, b.facet)}
        Refilled(reserve, u) ==
            IF Cardinality(u) >= PoolK THEN {u}
            ELSE {u \cup r : r \in Cut(reserve \ u, PoolK - Cardinality(u))}
    IN  UNION {UNION {Refilled(reserve, u) : u \in Unions(reserve)} :
               reserve \in Cut(mask.eligible, PoolK)}

----------------------------------------------------------------------------
(* The slate *)

\* The quality pipeline and its finalizer.
QualitySlates(candidates) ==
    UNION {Cut(shortlist, TopK) : shortlist \in Cut(candidates, ShortlistK)}

\* The cross encoder and the diversity selector, over all candidates.
FallbackSlates(candidates) == Cut(candidates, TopK)

\* The formal slate the search ended with, cut to what is shown.
FormalSlates(candidates) ==
    UNION {Cut(hits, TopK) : hits \in Cut(candidates, FinalK)}
============================================================================
