----------------------- MODULE MCQueryUnderstanding -----------------------
(* Instances of QueryUnderstanding for TLC. *)
EXTENDS QueryUnderstanding

CONSTANTS price, color, category, none, root, shoes, crimson, azure,
          quiet, light, gift

Item(f, o, v, t, c, n) ==
    [facet |-> f, op |-> o, value |-> v, text |-> t, commitment |-> c,
     source |-> "explicit", confidence |-> n]

\* In hundredths.
MCConfidences == {50, 100}

MCFacets == {price, color, category}
MCFacetOrder == <<category, color, price>>
MCNumericFacets == {price}
MCScopes == {root, shoes}
MCCatalogFacets == {price}
MCRetrievalDerived == {color}
\* Prices are verified in the root scope only.
MCCommittable == {<<price, root>>}

\* Two open-ended wishes, each said in a turn of its own.
TwoWishes == {Item(none, "positive", {}, quiet, "soft", 100),
              Item(none, "positive", {}, light, "soft", 100)}
NoItems == {}
OnlyRelevant == {{}}
SameGoal == {[action |-> "keep", value |-> NoGoal]}
============================================================================
