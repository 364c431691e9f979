--------------------------- MODULE IntentReducer ---------------------------
(***************************************************************************)
(* The ordered reduction of a batch of operations on an intent             *)
(* (session_context/reducer.py, the batch rules of validation.py).         *)
(*                                                                         *)
(* A working intent is [goal, prefs, dontCare].  known is the identity     *)
(* table of the batch: the preferences of the intent it started from (pre) *)
(* and those its operations have introduced, also when a later operation   *)
(* removed them.  Preferences of an operation come with the ids the caller *)
(* chose; turn is the batch's turn and k the operation's index, from 0.    *)
(***************************************************************************)
EXTENDS IntentState

Add(p)             == [op |-> "add", pref |-> p]
Replace(f, ps)     == [op |-> "replace", facet |-> f, prefs |-> ps]
Remove(ids)        == [op |-> "remove", ids |-> ids]
Clear(f)           == [op |-> "clear", facet |-> f]
DontCare(f)        == [op |-> "dont_care", facet |-> f]
Switch(g, carried) == [op |-> "switch", goal |-> g, carry |-> carried]

RangeOf(s) == {s[i] : i \in DOMAIN s}

----------------------------------------------------------------------------
(* What validate_state_update_batch asks of each operation alone *)

\* type(...) is tuple.
IsTuple(s) == s \in Seq(RangeOf(s))

ReplacementValid(o) ==
    /\ IsTuple(o.prefs)
    /\ o.prefs # <<>>
    /\ o.facet \in Facets
    /\ \A p \in RangeOf(o.prefs) : p.facet = o.facet
    /\ CanonicalIds([i \in DOMAIN o.prefs |-> o.prefs[i].id])
    /\ ValidIntent(RangeOf(o.prefs), {})

OperationValid(o) ==
    \/ o.op = "add" /\ ValidPreference(o.pref)
    \/ o.op = "replace" /\ ReplacementValid(o)
    \/ o.op = "remove" /\ CanonicalIds(o.ids)
    \/ o.op \in {"clear", "dont_care"} /\ o.facet \in Facets
    \/ o.op = "switch" /\ CanonicalIds(o.carry)

\* A goal switch comes first, and so at most once.
BatchValid(ops) ==
    /\ IsTuple(ops)
    /\ ops # <<>>
    /\ \A i \in DOMAIN ops : ops[i].op = "switch" => i = 1
    /\ \A i \in DOMAIN ops : OperationValid(ops[i])

----------------------------------------------------------------------------
(* Identity *)

\* Mutant: a new preference keeps whatever id the caller gives it.
Resolvable_AnyId(p, active, known, turn, k, i) ==
    \/ \E e \in known : /\ e.id = p.id
                        /\ LogicalKey(e) = LogicalKey(p)
                        /\ \E a \in active : a.id = p.id
    \/ \A e \in known : e.id # p.id /\ LogicalKey(e) # LogicalKey(p)

\* Mutant: only the meanings that are still active are taken.
Resolvable_ActiveMeanings(p, active, known, turn, k, i) ==
    \/ \E e \in known : /\ e.id = p.id
                        /\ LogicalKey(e) = LogicalKey(p)
                        /\ \E a \in active : a.id = p.id
    \/ /\ \A e \in known : e.id # p.id
       /\ \A a \in active : LogicalKey(a) # LogicalKey(p)
       /\ p.id = <<turn, k, i>>

\* _resolve_identity: an active preference under its own id, or a new one
\* whose id is the one its place in the batch allocates and whose meaning
\* the batch has not seen.
Resolvable(p, active, known, turn, k, i) ==
    \/ \E e \in known : /\ e.id = p.id
                        /\ LogicalKey(e) = LogicalKey(p)
                        /\ \E a \in active : a.id = p.id
    \/ /\ \A e \in known : e.id # p.id /\ LogicalKey(e) # LogicalKey(p)
       /\ p.id = <<turn, k, i>>

----------------------------------------------------------------------------
(* The operations *)

MatchingBound(prefs, p) ==
    {q \in prefs : /\ q.facet = p.facet
                   /\ q.commitment = p.commitment
                   /\ Direction(q) = Direction(p)}

\* Mutant: the later of two bounds wins.
WithPreference_LaterWins(prefs, p) ==
    IF p.facet \in NumericFacets
    THEN (prefs \ MatchingBound(prefs, p)) \cup {p}
    ELSE prefs \cup {p}

\* A bound replaces a weaker one of its facet, commitment and direction and
\* is dropped beside a stronger one.
WithPreference(prefs, p) ==
    IF p.facet \in NumericFacets /\ MatchingBound(prefs, p) # {}
    THEN IF \A q \in MatchingBound(prefs, p) : StrongerBound(p, q)
         THEN (prefs \ MatchingBound(prefs, p)) \cup {p}
         ELSE prefs
    ELSE prefs \cup {p}

AddPreference(w, p) ==
    IF \E a \in w.prefs : a.id = p.id
    THEN w
    ELSE [w EXCEPT !.prefs = WithPreference(w.prefs, p),
                   !.dontCare = w.dontCare \ {p.facet}]

OffFacet(prefs, f) == {p \in prefs : p.facet # f}

ReplaceFacet(w, f, ps) ==
    [w EXCEPT !.prefs = OffFacet(w.prefs, f) \cup RangeOf(ps),
              !.dontCare = w.dontCare \ {f}]

RemovePreferences(w, ids) ==
    [w EXCEPT !.prefs = {p \in w.prefs : p.id \notin RangeOf(ids)}]

ClearFacet(w, f) ==
    [w EXCEPT !.prefs = OffFacet(w.prefs, f), !.dontCare = w.dontCare \ {f}]

SetDontCare(w, f) ==
    [ClearFacet(w, f) EXCEPT !.dontCare = @ \cup {f}]

SwitchGoal(pre, g, carried) ==
    [goal |-> g,
     prefs |-> {p \in pre : p.id \in RangeOf(carried)},
     dontCare |-> {}]

Ids(prefs) == {p.id : p \in prefs}

\* The operation's own errors: identity, unknown ids, invalid carry ids.
Permitted(w, known, pre, o, turn, k) ==
    CASE o.op = "add" -> Resolvable(o.pref, w.prefs, known, turn, k, 0)
      [] o.op = "replace" ->
             \A i \in DOMAIN o.prefs :
                 Resolvable(o.prefs[i], w.prefs,
                            known \cup {o.prefs[j] : j \in 1..(i - 1)},
                            turn, k, i - 1)
      [] o.op = "remove" -> RangeOf(o.ids) \subseteq Ids(w.prefs)
      [] o.op = "switch" -> RangeOf(o.carry) \subseteq Ids(pre)
      [] OTHER -> TRUE

Applied(w, pre, o) ==
    CASE o.op = "add"       -> AddPreference(w, o.pref)
      [] o.op = "replace"   -> ReplaceFacet(w, o.facet, o.prefs)
      [] o.op = "remove"    -> RemovePreferences(w, o.ids)
      [] o.op = "clear"     -> ClearFacet(w, o.facet)
      [] o.op = "dont_care" -> SetDontCare(w, o.facet)
      [] OTHER              -> SwitchGoal(pre, o.goal, o.carry)

Introduced(o) ==
    CASE o.op = "add"     -> {o.pref}
      [] o.op = "replace" -> RangeOf(o.prefs)
      [] OTHER            -> {}

----------------------------------------------------------------------------
(* One step of the reduction, and the whole of it *)

\* A step of the loop of reduce_intent: ok turns false at the first error,
\* and what the operation made must be a valid intent.
Step(s, pre, o, turn, k) ==
    LET w == Applied(s.work, pre, o)
    IN  [ok    |-> /\ Permitted(s.work, s.known, pre, o, turn, k)
                   /\ ValidIntent(w.prefs, w.dontCare),
         work  |-> w,
         known |-> s.known \cup Introduced(o)]

Content(intent) ==
    [goal |-> intent.goal, prefs |-> intent.prefs, dontCare |-> intent.dontCare]

Start(intent) == [ok |-> TRUE, work |-> Content(intent), known |-> intent.prefs]

\* The loop ends at the first error.
Continued(s, pre, o, turn, k) == IF s.ok THEN Step(s, pre, o, turn, k) ELSE s

\* The state after the first k operations, or the state that failed.
Reduction(intent, ops, turn) ==
    LET after[k \in 0..Len(ops)] ==
            IF k = 0 THEN Start(intent)
            ELSE Continued(after[k - 1], intent.prefs, ops[k], turn, k - 1)
    IN  after[Len(ops)]

\* The snapshot a finished reduction returns: the same version when nothing
\* changed, the next one otherwise.
Snapshot(intent, w) ==
    [goal |-> w.goal, prefs |-> w.prefs, dontCare |-> w.dontCare,
     version |-> IF w = Content(intent) THEN intent.version
                 ELSE intent.version + 1]

\* reduce_intent: [ok, intent].
ReduceIntent(intent, batch) ==
    LET s == Reduction(intent, batch.ops, batch.turn)
    IN  [ok |-> /\ ValidIntent(intent.prefs, intent.dontCare)
                /\ BatchValid(batch.ops)
                /\ batch.base = intent.version
                /\ s.ok,
         intent |-> Snapshot(intent, s.work)]

----------------------------------------------------------------------------
(* The lifetime of identities, which a commit checks once more *)

Introductions(batch) == UNION {Introduced(batch.ops[k]) : k \in DOMAIN batch.ops}

\* Mutant: an id must be active in the intent the batch started from.
LifetimeIdsValid_AgainstBase(base, batch, lifetime) ==
    \A k \in DOMAIN batch.ops :
        LET earlier == lifetime \cup
                UNION {Introduced(batch.ops[j]) : j \in 1..(k - 1)}
        IN  \A p \in Introduced(batch.ops[k]) : \A e \in earlier :
                e.id = p.id => /\ LogicalKey(e) = LogicalKey(p)
                               /\ p.id \in Ids(base.prefs)

\* _validate_lifetime_ids: an operation brings back an id of the session
\* only for the preference that is active under it when the operation runs.
LifetimeIdsValid(base, batch, lifetime) ==
    \A k \in DOMAIN batch.ops :
        LET before == Reduction(base, SubSeq(batch.ops, 1, k - 1), batch.turn)
            earlier == lifetime \cup
                UNION {Introduced(batch.ops[j]) : j \in 1..(k - 1)}
        IN  \A p \in Introduced(batch.ops[k]) : \A e \in earlier :
                e.id = p.id => /\ LogicalKey(e) = LogicalKey(p)
                               /\ p.id \in Ids(before.work.prefs)
============================================================================
