---------------------------- MODULE IntentState ----------------------------
(***************************************************************************)
(* The committed intent of a shopping session and the rules every intent   *)
(* must obey (session_context: models.py, registry.py, validation.py).     *)
(*                                                                         *)
(* A preference is a record                                                *)
(*   id      <<turn, operation index, preference index>>: p_T_O_P          *)
(*   facet   a facet of the registry, or SemanticOnly                      *)
(*   op      its operator; for a SemanticOnly preference, its polarity     *)
(*   value   the set of scalars it names ({} for a SemanticOnly one): EQ   *)
(*           and NEQ are IN and NOT_IN with one value, a bound has one     *)
(*   text    what a SemanticOnly preference, or one of a facet that is     *)
(*           looked up in product texts, says; NoText for the others       *)
(*   commitment "hard" | "soft",  source "explicit" | "inferred"           *)
(*   confidence interpretation_confidence, a number from 0 to 1            *)
(* source_turn is the turn of the id and evidence_text is left out.  The   *)
(* preferences of an intent are a tuple sorted by id with unique ids, so a *)
(* set of records stands for the tuple.                                    *)
(***************************************************************************)
EXTENDS Integers, Sequences, FiniteSets

CONSTANTS Facets,        \* the facets of the registry
          NumericFacets, \* those of kind NUMERIC
          Category,      \* the reserved facet system_product_category
          SemanticOnly,  \* the facet of a preference that has none
          Texts,         \* what semantic preferences say
          NoText,
          Confidences    \* the numbers from 0 to 1, 1 and 1.0 apart

ASSUME FacetsAssumption ==
    /\ IsFiniteSet(Facets)
    /\ NumericFacets \subseteq Facets
    /\ Category \in Facets \ NumericFacets
    /\ SemanticOnly \notin Facets
    /\ NoText \notin Texts

PositiveOps == {"in"}
NegativeOps == {"not_in"}
LowerOps == {"gt", "ge"}
UpperOps == {"lt", "le"}
Polarities == {"positive", "negative"}

LogicalFields ==
    {"facet", "op", "value", "text", "commitment", "source", "confidence"}

\* _logical_preference_key: what a preference means, and how confidently it
\* was understood.
LogicalKey(p) == [f \in LogicalFields |-> p[f]]

\* The order of ids: numerically by turn, operation and preference index.
IdLess(a, b) ==
    \/ a[1] < b[1]
    \/ a[1] = b[1] /\ a[2] < b[2]
    \/ a[1] = b[1] /\ a[2] = b[2] /\ a[3] < b[3]

\* A tuple of ids without duplicates in numeric order.
CanonicalIds(ids) == \A i, j \in DOMAIN ids : i < j => IdLess(ids[i], ids[j])

OperatorsOf(facet) ==
    IF facet = SemanticOnly THEN Polarities
    ELSE IF facet \in NumericFacets THEN LowerOps \cup UpperOps
    ELSE PositiveOps \cup NegativeOps

\* validate_preference: the operator fits the facet's kind, a shape is
\* complete, its confidence a probability, and what the system inferred is
\* never a hard requirement.
ValidPreference(p) ==
    /\ p.op \in OperatorsOf(p.facet)
    /\ p.facet = SemanticOnly => p.text # NoText
    /\ (p.value = {}) = (p.facet = SemanticOnly)
    /\ p.facet \in NumericFacets => Cardinality(p.value) = 1
    /\ p.confidence \in Confidences
    /\ p.source = "inferred" => p.commitment = "soft"

UniqueIds(prefs) == \A p, q \in prefs : p.id = q.id => p = q

UniqueSemantics(prefs) ==
    \A p, q \in prefs : LogicalKey(p) = LogicalKey(q) => p.id = q.id

----------------------------------------------------------------------------
(* Categorical facets *)

CategoricalOn(prefs, facet, ops) ==
    {p \in prefs : p.facet = facet /\ p.op \in ops}

\* At most one positive and one negative selector per facet and commitment.
OneSelectorEach(prefs) ==
    \A p, q \in prefs :
        (/\ p.facet = q.facet
         /\ p.facet \in Facets \ NumericFacets
         /\ p.commitment = q.commitment
         /\ p.op = q.op) => p = q

\* The values all positive selectors share, minus the excluded ones.
RemainingValues(prefs, facet) ==
    LET positives == CategoricalOn(prefs, facet, PositiveOps)
        negatives == CategoricalOn(prefs, facet, NegativeOps)
    IN  {v \in UNION {p.value : p \in positives} :
            /\ \A p \in positives : v \in p.value
            /\ \A p \in negatives : v \notin p.value}

CategoricalStateValid(prefs) ==
    /\ OneSelectorEach(prefs)
    /\ \A facet \in Facets \ NumericFacets :
           CategoricalOn(prefs, facet, PositiveOps) # {}
               => RemainingValues(prefs, facet) # {}

----------------------------------------------------------------------------
(* Numeric facets *)

NumericValue(p) == CHOOSE n \in p.value : TRUE

Direction(p) ==
    IF p.op \in LowerOps THEN "lower"
    ELSE IF p.op \in UpperOps THEN "upper" ELSE "none"

\* _is_stronger_numeric_bound, for two bounds of one direction.
StrongerBound(p, q) ==
    IF p.op \in LowerOps
    THEN \/ NumericValue(p) > NumericValue(q)
         \/ NumericValue(p) = NumericValue(q) /\ p.op = "gt" /\ q.op = "ge"
    ELSE \/ NumericValue(p) < NumericValue(q)
         \/ NumericValue(p) = NumericValue(q) /\ p.op = "lt" /\ q.op = "le"

Strongest(bounds) == CHOOSE p \in bounds : \A q \in bounds : ~StrongerBound(q, p)

\* Mutant: bounds that meet are compatible whether or not they are strict.
IntervalEmpty_Closed(lower, upper) == NumericValue(lower) > NumericValue(upper)

IntervalEmpty(lower, upper) ==
    \/ NumericValue(lower) > NumericValue(upper)
    \/ /\ NumericValue(lower) = NumericValue(upper)
       /\ lower.op = "gt" \/ upper.op = "lt"

BoundsOn(prefs, facet, ops) == {p \in prefs : p.facet = facet /\ p.op \in ops}

NumericStateValid(prefs) ==
    /\ \A p, q \in prefs :
           (/\ p.facet = q.facet
            /\ p.facet \in NumericFacets
            /\ p.commitment = q.commitment
            /\ Direction(p) = Direction(q)) => p = q
    /\ \A facet \in NumericFacets :
           LET lowers == BoundsOn(prefs, facet, LowerOps)
               uppers == BoundsOn(prefs, facet, UpperOps)
           IN  lowers # {} /\ uppers # {}
                   => ~IntervalEmpty(Strongest(lowers), Strongest(uppers))

----------------------------------------------------------------------------
ActiveFacets(prefs) == {p.facet : p \in prefs} \ {SemanticOnly}

\* validate_intent_state.
ValidIntent(prefs, dontCare) ==
    /\ \A p \in prefs : ValidPreference(p)
    /\ UniqueIds(prefs)
    /\ UniqueSemantics(prefs)
    /\ dontCare \subseteq Facets
    /\ CategoricalStateValid(prefs)
    /\ NumericStateValid(prefs)
    /\ ActiveFacets(prefs) \cap dontCare = {}
============================================================================
