------------------------- MODULE MCRecommendation -------------------------
(* Instances of Recommendation for TLC. *)
EXTENDS Recommendation, TLC

CONSTANTS price, color, category, none, root, shoes, crimson, azure,
          quiet, light, gift,
          sneaker, boot, sandal, hat, scarf, unpriced

Item(f, o, v, t, c, n) ==
    [facet |-> f, op |-> o, value |-> v, text |-> t, commitment |-> c,
     source |-> "explicit", confidence |-> n]

\* In hundredths.
MCConfidences == {50, 100}

MCFacets == {price, color, category}
MCFacetOrder == <<category, color, price>>
MCNumericFacets == {price}
MCScopes == {root, shoes}
MCCatalogFacets == {price}
MCRetrievalDerived == {color}
\* Prices are verified in the root scope only.
MCCommittable == {<<price, root>>}

MCStructuredItems ==
    {Item(category, "in", {shoes}, quiet, "hard", 100),
     Item(color, "in", {crimson}, quiet, "hard", 100),
     Item(color, "in", {azure, crimson}, light, "soft", 100),
     Item(color, "not_in", {crimson}, light, "hard", 100)}
MCPriceItems == {Item(price, "le", {2}, light, "hard", 100)}
\* The wish that the price becomes where it is not verified, but understood
\* with another confidence: neither is taken for the other.
MCSemanticItems == {Item(none, "positive", {}, light, "hard", 50)}
MCIrrelevantSets == {{}, {color, price}}
MCGoalFrames == {[action |-> "keep", value |-> NoGoal],
                 [action |-> "revise", value |-> gift],
                 [action |-> "switch", value |-> gift]}

MCProduct == {sneaker, boot, sandal, hat, scarf}
MCInScope == sneaker :> {root, shoes} @@ boot :> {root, shoes}
                 @@ sandal :> {root, shoes} @@ hat :> {root} @@ scarf :> {}
\* In the currency unit of the bounds: certain to fit, may fit, cannot fit;
\* no crimson product can, so the two requirements exclude each other.
MCPriceOf == sneaker :> <<3, 3>> @@ boot :> <<1, 4>> @@ sandal :> <<3, 4>>
                 @@ hat :> <<1, 1>> @@ scarf :> unpriced
MCEvidence == sneaker :> {crimson} @@ boot :> {azure} @@ sandal :> {crimson, azure}
                  @@ hat :> {azure} @@ scarf :> {}
MCTransparencies == {0, 100}
============================================================================
