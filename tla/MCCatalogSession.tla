------------------------- MODULE MCCatalogSession -------------------------
(* Instances of CatalogSession for TLC. *)
EXTENDS CatalogSession

CONSTANTS price, color, category, none, root, shoes, red_, green, other

Shape(f, o, v, t, c, n) ==
    [facet |-> f, op |-> o, value |-> v, text |-> t, commitment |-> c,
     source |-> "explicit", confidence |-> n]

MCFacets == {price, color, category}
MCNumericFacets == {price}
MCScopes == {root, shoes}
MCCatalogFacets == {price}
MCRetrievalDerived == {color}
\* The release lets price be committed in the root scope only.
MCCommittable == {<<price, root>>}

\* In hundredths.
MCConfidences == {50, 100}

\* A color, understood twice, its exclusion, bounds that meet at 2 and one
\* category.
MCAddShapes == {Shape(color, "in", {red_}, NoText, "hard", 100),
                Shape(color, "in", {red_}, NoText, "hard", 50),
                Shape(price, "le", {2}, NoText, "soft", 100),
                Shape(price, "lt", {2}, NoText, "soft", 100),
                Shape(price, "ge", {2}, NoText, "hard", 100)}
MCReplaceShapes == {Shape(color, "not_in", {red_}, NoText, "soft", 100),
                    Shape(category, "in", {shoes}, NoText, "hard", 100)}

MCScalars == {red_, green, other, root, shoes}
MCGrid == 1..6
============================================================================
