-------------------------- MODULE CatalogGateway --------------------------
(***************************************************************************)
(* The catalog's authority over intents (catalog/semantic/gateway/         *)
(* gateway.py): a batch is previewed with the reserved category facet and  *)
(* the exact facet permissions of the category it ends in.                 *)
(***************************************************************************)
EXTENDS IntentReducer

CONSTANTS Scopes,         \* the category scopes of the bound release
          RootScope,
          CatalogFacets,  \* facets the catalog verifies, the category aside
          Committable,    \* <<facet, scope>> pairs the release permits
          RetrievalDerived \* facets looked up in product texts

ASSUME ScopesAssumption ==
    /\ RootScope \in Scopes
    /\ CatalogFacets \subseteq Facets \ {Category}
    /\ RetrievalDerived \subseteq Facets \ (CatalogFacets \cup {Category})
    /\ Committable \subseteq CatalogFacets \X Scopes

ReservedPreferences(prefs) == {p \in prefs : p.facet = Category}

\* A category preference names exactly one scope of the release.
ReservedValid(p) ==
    /\ p.facet = Category
    /\ p.op = "in"
    /\ Cardinality(p.value) = 1
    /\ p.value \subseteq Scopes

\* _effective_category_scope, of an intent with at most one category.
EffectiveScope(prefs) ==
    LET reserved == ReservedPreferences(prefs)
    IN  IF reserved = {} THEN RootScope
        ELSE CHOOSE s \in (CHOOSE p \in reserved : TRUE).value : TRUE

CommittableIn(facet, scope) ==
    facet \in CatalogFacets => <<facet, scope>> \in Committable

\* _validate_complete_intent.
CompleteIntent(prefs, dontCare) ==
    LET reserved == ReservedPreferences(prefs)
    IN  /\ \A p, q \in reserved : p = q
        /\ \A p \in reserved : ReservedValid(p)
        /\ Category \notin dontCare
        /\ \A f \in (ActiveFacets(prefs) \ {Category}) \cup dontCare :
               CommittableIn(f, EffectiveScope(prefs))

\* _validate_reserved_operation_matrix: the category changes only by one
\* ReplaceFacet, right after the goal switch or first.
ReservedMatrix(intent, ops) ==
    LET OnCategory(i) == ops[i].op = "replace" /\ ops[i].facet = Category
        replacing == {i \in DOMAIN ops : OnCategory(i)}
        current == Ids(ReservedPreferences(intent.prefs))
        categoryIds == current \cup UNION
            {Ids(ReservedPreferences(RangeOf(ops[i].prefs))) : i \in replacing}
    IN  /\ \A i \in DOMAIN ops :
               CASE ops[i].op = "add" -> ops[i].pref.facet # Category
                 [] ops[i].op = "replace" ->
                        OnCategory(i) => /\ Len(ops[i].prefs) = 1
                                         /\ ReservedValid(ops[i].prefs[1])
                 [] ops[i].op = "remove" ->
                        RangeOf(ops[i].ids) \cap categoryIds = {}
                 [] ops[i].op \in {"clear", "dont_care"} ->
                        ops[i].facet # Category
                 [] OTHER -> Cardinality(RangeOf(ops[i].carry) \cap current) <= 1
        /\ Cardinality(replacing) <= 1
        /\ \A i \in replacing : i = IF ops[1].op = "switch" THEN 2 ELSE 1

\* CatalogSemanticGateway.validate_intent.
IntentAllowed(intent) ==
    /\ ValidIntent(intent.prefs, intent.dontCare)
    /\ CompleteIntent(intent.prefs, intent.dontCare)

\* CatalogSemanticGateway.preview: [ok, intent].
Preview(intent, batch) ==
    LET reduced == ReduceIntent(intent, batch)
    IN  [ok |-> /\ IntentAllowed(intent)
                /\ ReservedMatrix(intent, batch.ops)
                /\ reduced.ok
                /\ CompleteIntent(reduced.intent.prefs, reduced.intent.dontCare),
         intent |-> reduced.intent]
============================================================================
