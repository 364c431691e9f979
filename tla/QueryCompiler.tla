--------------------------- MODULE QueryCompiler ---------------------------
(***************************************************************************)
(* The compilation of an intent into a query (query_compiler/compiler.py): *)
(* which preferences become hard constraints and which only rank.  The     *)
(* wording of the query, its trace and its directives are left out.        *)
(***************************************************************************)
EXTENDS CatalogGateway

\* _is_root_category: the root removes the restriction to a category.
Unrestricted(p) == p.facet = Category /\ p.value = {RootScope}

\* _hard_constraint_policy: what the user said, as a requirement, about a
\* facet with evidence in the catalog.
HardConstraint(p) ==
    /\ ~Unrestricted(p)
    /\ p.commitment = "hard"
    /\ p.source = "explicit"
    /\ \/ p.facet = Category
       \/ p.facet \in NumericFacets
       \/ p.facet \in RetrievalDerived

HardConstraints(prefs) == {p \in prefs : HardConstraint(p)}

RankingPreferences(prefs) ==
    {p \in prefs : ~Unrestricted(p) /\ ~HardConstraint(p)}

\* A query without a goal or a preference has nothing to search for.
SearchReady(hasGoal, prefs) == hasGoal \/ \E p \in prefs : ~Unrestricted(p)
============================================================================
