--------------------------- MODULE IntentPlanner ---------------------------
(***************************************************************************)
(* The translation of a complete model frame into an ordered batch of      *)
(* operations (query_understanding/planner.py, IntentMaterializer), and    *)
(* its preview by the gateway.                                             *)
(*                                                                         *)
(* A frame is a record                                                     *)
(*   base        the intent version it answers                             *)
(*   noChange    its disposition is NO_CHANGE                              *)
(*   goal        [action: keep | revise | switch, value]                   *)
(*   keep        ids of the active preferences it keeps (the program's     *)
(*               refs active_N stand for ids one to one)                   *)
(*   structured, price, semantic    sequences of new items                 *)
(*   dontCare    facets it declares irrelevant                             *)
(* An item, like a candidate the planner makes of it, is a LogicalKey      *)
(* record: what a preference means before it has an id, with the           *)
(* confidence of the frame (planner._signature).  Feedback, directives,    *)
(* clarification and evidence are left out.  A value of a verified facet   *)
(* is one the catalog knows.                                               *)
(***************************************************************************)
EXTENDS CatalogGateway

CONSTANTS FacetOrder, \* the facets in the order of operations
          Certain     \* the confidence 1.0

ASSUME PlannerAssumption ==
    /\ FacetOrder \in Seq(Facets)
    /\ RangeOf(FacetOrder) = Facets
    /\ Len(FacetOrder) = Cardinality(Facets)
    /\ FacetOrder[1] = Category
    /\ Certain \in Confidences

Bounds == LowerOps \cup UpperOps

----------------------------------------------------------------------------
(* Ids as text.  sorted() compares p_10_0_0 and p_9_0_0 as strings, where   *)
(* "_" follows the digits; canonical tuples want the numeric order.        *)

Digits[n \in Nat] == IF n < 10 THEN <<n>> ELSE Append(Digits[n \div 10], n % 10)

Underscore == 10
Word(n) == Append(Digits[n], Underscore)

\* The first difference decides, and a prefix comes first.
StringLess(s, t) ==
    \E k \in 1..Len(t) :
        /\ \A j \in 1..(k - 1) : j <= Len(s) /\ s[j] = t[j]
        /\ k > Len(s) \/ s[k] < t[k]

\* No word is a prefix of another: the first that differs decides.
TextLess(a, b) ==
    \/ StringLess(Word(a[1]), Word(b[1]))
    \/ a[1] = b[1] /\ StringLess(Word(a[2]), Word(b[2]))
    \/ a[1] = b[1] /\ a[2] = b[2] /\ StringLess(Digits[a[3]], Digits[b[3]])

SortedIds(ids) ==
    [i \in 1..Cardinality(ids) |->
        CHOOSE a \in ids : Cardinality({b \in ids : TextLess(b, a)}) = i - 1]

SortedPrefs(prefs) ==
    LET ids == SortedIds(Ids(prefs))
    IN  [i \in DOMAIN ids |-> CHOOSE p \in prefs : p.id = ids[i]]

----------------------------------------------------------------------------
(* What an item of the frame means *)

InferredHard(item) == item.source = "inferred" /\ item.commitment = "hard"

PolarityOf(op) == IF op \in NegativeOps THEN "negative" ELSE "positive"

\* _semantic_candidate: the item as natural language.
SemanticOf(item) ==
    [item EXCEPT !.facet = SemanticOnly, !.value = {},
                 !.op = IF @ \in Polarities THEN @ ELSE PolarityOf(@)]

\* _structured_candidate: its text stays only where texts are searched.
StructuredOf(item) ==
    [item EXCEPT !.text = IF item.facet \in RetrievalDerived THEN @ ELSE NoText]

\* ValueGrounder.ground: the release lets this facet be committed in the
\* scope, with this operator.
Grounds(item, scope) ==
    /\ item.facet \in CatalogFacets
    /\ CommittableIn(item.facet, scope)
    /\ item.op \in OperatorsOf(item.facet)

\* _structured_preference_candidates and _price_preference_candidates.
Interpreted(item, group, scope) ==
    IF \/ group = "price" /\ Grounds(item, scope)
       \/ /\ group = "structured"
          /\ item.op \notin Bounds
          /\ item.facet \in RetrievalDerived \/ Grounds(item, scope)
    THEN StructuredOf(item)
    ELSE SemanticOf(item)

\* _categorical_conjunction_conflicts.
Conflicts(c, existing) ==
    LET positives == {e \in existing : e.facet = c.facet /\ e.op \in PositiveOps}
    IN  /\ c.facet \in Facets \ NumericFacets
        /\ c.op \in PositiveOps
        /\ positives # {}
        /\ \/ \E e \in positives : e.commitment = c.commitment
           \/ ~\E v \in c.value : \A e \in positives : v \in e.value

\* _fallback_categorical_conjunction: a second positive selector that one
\* facet cannot hold becomes natural language.
WithStructured(kept, new, item, scope) ==
    LET c == Interpreted(item, "structured", scope)
        existing == {LogicalKey(p) : p \in kept} \cup RangeOf(new)
    IN  IF c \in existing THEN new
        ELSE IF Conflicts(c, existing) THEN Append(new, SemanticOf(item))
        ELSE Append(new, c)

----------------------------------------------------------------------------
(* The target: kept preferences and candidates, in the frame's order *)

Kept(intent, frame) == {p \in intent.prefs : p.id \in frame.keep}

\* The items of s that are in S, in the order of s.
Only(s, S) ==
    LET chosen[i \in 0..Len(s)] ==
            IF i = 0 THEN <<>>
            ELSE IF s[i] \in S THEN Append(chosen[i - 1], s[i]) ELSE chosen[i - 1]
    IN  chosen[Len(s)]

OnCategory(item) == item.facet = Category

CategoryItems(frame) ==
    Only(frame.structured, {c \in RangeOf(frame.structured) : OnCategory(c)})
OtherItems(frame) ==
    Only(frame.structured, {c \in RangeOf(frame.structured) : ~OnCategory(c)})

\* _final_scope_id.
TargetScope(kept, categories) ==
    IF categories # <<>>
    THEN CHOOSE s \in categories[1].value : TRUE
    ELSE EffectiveScope(kept)

\* The candidates of the frame, the category first.
Candidates(intent, frame) ==
    LET kept == Kept(intent, frame)
        categories == CategoryItems(frame)
        others == OtherItems(frame)
        scope == TargetScope(kept, categories)
        new[i \in 0..Len(others)] ==
            IF i = 0 THEN [j \in DOMAIN categories |-> StructuredOf(categories[j])]
            ELSE WithStructured(kept, new[i - 1], others[i], scope)
    IN  new[Len(others)]
            \o [j \in DOMAIN frame.price |-> Interpreted(frame.price[j], "price", scope)]
            \o [j \in DOMAIN frame.semantic |-> SemanticOf(frame.semantic[j])]

\* _reuse_existing: a candidate that means what an active preference means,
\* as confidently, is that preference, kept or not.
Reused(prefs, candidates) == {p \in prefs : LogicalKey(p) \in RangeOf(candidates)}

Fresh(prefs, candidates) ==
    Only(candidates, RangeOf(candidates) \ {LogicalKey(p) : p \in prefs})

\* _require_unique_semantics.
UniqueTarget(kept, candidates) ==
    /\ \A i, j \in DOMAIN candidates : candidates[i] = candidates[j] => i = j
    /\ \A p \in kept : LogicalKey(p) \notin RangeOf(candidates)

NewGoal(intent, frame) ==
    IF frame.goal.action = "keep" THEN intent.goal ELSE frame.goal.value

\* Mutant: a frame that says switch changes the goal, to the same one as well.
GoalChanged_ByAction(intent, frame) == frame.goal.action # "keep"

GoalChanged(intent, frame) == NewGoal(intent, frame) # intent.goal

\* Mutant: the operations start from what the switch already dropped.
BaselinePrefs_BeforeSwitch(intent, frame, old) == intent.prefs

\* The preferences the operations start from, when those in old stay.
BaselinePrefs(intent, frame, old) ==
    IF GoalChanged(intent, frame) THEN old ELSE intent.prefs
BaselineDontCare(intent, frame) ==
    IF GoalChanged(intent, frame) THEN {} ELSE intent.dontCare

RootCategory ==
    [facet |-> Category, op |-> "in", value |-> {RootScope}, text |-> NoText,
     commitment |-> "hard", source |-> "explicit", confidence |-> Certain]

\* _represent_category_broadening: a category that nothing replaces becomes
\* the root category unless the goal is switched.
Broadened(intent, frame, target, dropped) ==
    IF \/ GoalChanged(intent, frame) /\ frame.goal.action = "switch"
       \/ ReservedPreferences(target.old \cup RangeOf(target.new)) # {}
       \/ dropped = {}
    THEN target
    ELSE IF \E p \in dropped : p.value = {RootScope}
    THEN [target EXCEPT !.old = @ \cup dropped]
    ELSE [target EXCEPT !.new = Append(@, RootCategory)]

TargetOf(intent, frame, candidates) ==
    LET old == Kept(intent, frame) \cup Reused(intent.prefs, candidates)
    IN  Broadened(intent, frame,
                  [old |-> old, new |-> Fresh(intent.prefs, candidates)],
                  ReservedPreferences(BaselinePrefs(intent, frame, old)))

\* [old, new]: the active preferences that stay and the ones to introduce.
Target(intent, frame) == TargetOf(intent, frame, Candidates(intent, frame))

\* _normalize_dont_care, minus the facets the target is about.
DesiredDontCare(frame, target) ==
    (frame.dontCare \ {Category})
        \ ActiveFacets(target.old \cup RangeOf(target.new))

----------------------------------------------------------------------------
(* The operations *)

Allocated(c, turn, k, i) ==
    [id |-> <<turn, k, i>>, facet |-> c.facet, op |-> c.op, value |-> c.value,
     text |-> c.text, commitment |-> c.commitment, source |-> c.source,
     confidence |-> c.confidence]

\* Mutant: a facet is replaced only when something new is said about it.
SaysOtherwise_OnlyNews(old, new, baseline) == new # <<>>

\* The target differs from the baseline of its facet.
SaysOtherwise(old, new, baseline) == new # <<>> \/ old # baseline

On(prefs, f) == {p \in prefs : p.facet = f}

\* One round of _append_structured_operations: what facet f goes from and to
\* and the operation for it at place k of the batch, if one is needed.
FacetOperation(f, k, turn, baseline, old, new, wasIrrelevant, irrelevant) ==
    LET replacement == SortedPrefs(old) \o
            [j \in DOMAIN new |-> Allocated(new[j], turn, k, Cardinality(old) + j - 1)]
    IN  IF irrelevant
        THEN IF ~wasIrrelevant \/ baseline # {} THEN <<DontCare(f)>> ELSE <<>>
        ELSE IF old # {} \/ new # <<>>
        THEN IF SaysOtherwise(old, new, baseline) \/ wasIrrelevant
             THEN <<Replace(f, replacement)>> ELSE <<>>
        ELSE IF baseline # {} \/ wasIrrelevant THEN <<Clear(f)>> ELSE <<>>

\* _append_semantic_operations, from place k on.
SemanticOperations(k, turn, removed, new) ==
    LET removal == IF removed = {} THEN <<>> ELSE <<Remove(SortedIds(Ids(removed)))>>
    IN  removal \o
        [j \in DOMAIN new |-> Add(Allocated(new[j], turn, k + Len(removal) + j - 1, 0))]

SwitchOperation(intent, frame, carried) ==
    IF GoalChanged(intent, frame)
    THEN <<Switch(NewGoal(intent, frame), SortedIds(Ids(carried)))>>
    ELSE <<>>

\* From the baseline to the target: the switch, each facet, the wishes.
OperationsTo(intent, frame, turn, target, baseline) ==
    LET NewOn(f) == Only(target.new, On(RangeOf(target.new), f))
        upto[i \in 0..Len(FacetOrder)] ==
            IF i = 0 THEN SwitchOperation(intent, frame, target.old)
            ELSE LET f == FacetOrder[i]
                 IN  upto[i - 1] \o
                     FacetOperation(f, Len(upto[i - 1]), turn, On(baseline, f),
                                    On(target.old, f), NewOn(f),
                                    f \in BaselineDontCare(intent, frame),
                                    f \in DesiredDontCare(frame, target))
        WithWishes(structured) ==
            structured \o SemanticOperations(Len(structured), turn,
                              On(baseline \ target.old, SemanticOnly),
                              NewOn(SemanticOnly))
    IN  WithWishes(upto[Len(FacetOrder)])

PlannedOperations(intent, frame, turn, target) ==
    OperationsTo(intent, frame, turn, target,
                 BaselinePrefs(intent, frame, target.old))

----------------------------------------------------------------------------
(* materialize *)

Items(frame) == RangeOf(frame.structured) \cup RangeOf(frame.price) \cup RangeOf(frame.semantic)

\* What refuses a frame before its operations are built, in order.
FrameError(intent, frame, candidates) ==
    LET categories == CategoryItems(frame)
        asked == RangeOf(categories)
        reserved == ReservedPreferences(Kept(intent, frame))
    IN  IF frame.base # intent.version THEN "stale_intent_version"
        ELSE IF ~(frame.keep \subseteq Ids(intent.prefs)) THEN "unknown_active_ref"
        ELSE IF Len(categories) > 1 THEN "invalid_final_state"
        ELSE IF \E c \in asked : c.op # "in" \/ Cardinality(c.value) # 1
        THEN "invalid_preference"
        ELSE IF \E c \in asked : ~(c.value \subseteq Scopes) THEN "unknown_category_ref"
        ELSE IF \E c \in asked : InferredHard(c) THEN "invalid_preference"
        ELSE IF asked # {} /\ reserved # {} THEN "invalid_final_state"
        ELSE IF \E item \in Items(frame) : InferredHard(item) THEN "invalid_preference"
        ELSE IF ~UniqueTarget(Kept(intent, frame), candidates) THEN "invalid_final_state"
        ELSE "none"

Refused(intent, error) == [error |-> error, ops |-> <<>>, final |-> intent]

\* The frame's operations against the gateway.
Previewed(intent, frame, operations, preview) ==
    IF operations = <<>> THEN Refused(intent, "none")
    ELSE IF Clear(Category) \in RangeOf(operations)
    THEN Refused(intent, "invalid_final_state")
    ELSE IF ~preview.ok THEN Refused(intent, "preview_rejected")
    ELSE IF frame.noChange THEN Refused(intent, "invalid_final_state")
    ELSE [error |-> "none", ops |-> operations, final |-> preview.intent]

Carried(intent, frame, turn, operations) ==
    Previewed(intent, frame, operations,
              Preview(intent, [turn |-> turn, base |-> intent.version,
                               ops |-> operations]))

Considered(intent, frame, turn, candidates) ==
    IF FrameError(intent, frame, candidates) # "none"
    THEN Refused(intent, FrameError(intent, frame, candidates))
    ELSE Carried(intent, frame, turn,
                 PlannedOperations(intent, frame, turn,
                                   TargetOf(intent, frame, candidates)))

\* IntentMaterializer.materialize: [error, ops, final].
Materialized(intent, frame, turn) ==
    Considered(intent, frame, turn, Candidates(intent, frame))
============================================================================
