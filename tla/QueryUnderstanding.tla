------------------------ MODULE QueryUnderstanding ------------------------
(***************************************************************************)
(* One session of query understanding (query_understanding/service.py and  *)
(* deepseek.py over planner.py): each turn a model is asked for a complete *)
(* frame, a frame the planner refuses is repaired once, and the accepted   *)
(* plan is committed as the turn's update.  The model is an adversary that *)
(* may answer any frame over small sets of items, fail or time out.        *)
(***************************************************************************)
EXTENDS IntentPlanner

CONSTANTS StructuredItems, PriceItems, SemanticItems, \* new items of a frame
          IrrelevantSets, \* what a frame may declare irrelevant
          GoalFrames,     \* goals of a frame: [action, value]
          NoGoal, NoFrame,
          BadFrame,       \* a response that is no well-formed frame
          FirstTurn,      \* the turn the session is at, none updated before
          MaxTurn,        \* bound: the last turn that is understood
          MaxNew          \* bound: new items of one frame

ASSUME BoundsAssumption == FirstTurn \in 1..MaxTurn /\ MaxTurn < 100

\* An item on a facet the registry does not have is read like one on none
\* (_structured_preference_candidates), and such a facet is not recorded as
\* irrelevant (_normalize_dont_care).  The decoder refuses any commitment but
\* the two, a confidence that is no probability and an amount that is no
\* number.
ASSUME ItemsAssumption ==
    /\ \A item \in StructuredItems \cup PriceItems \cup SemanticItems :
           /\ item = LogicalKey(item) /\ item.facet \in Facets \cup {SemanticOnly}
           /\ item.commitment \in {"hard", "soft"}
           /\ item.confidence \in Confidences
           /\ item.facet \in NumericFacets => item.value \subseteq Int
    /\ IrrelevantSets \subseteq SUBSET Facets

VARIABLES intent,     \* the committed intent
          turn,       \* the turn being understood
          attempt,    \* provider calls that were refused in this turn
          frame,      \* the frame being judged, NoFrame before it is given
          plan        \* what the planner made of it

vars == <<intent, turn, attempt, frame, plan>>

NoPlan == [error |-> "none", ops |-> <<>>, final |-> NoFrame]

Init ==
    /\ intent = [goal |-> NoGoal, prefs |-> {}, dontCare |-> {}, version |-> 0]
    /\ turn = FirstTurn
    /\ attempt = 0
    /\ frame = NoFrame
    /\ plan = NoPlan

----------------------------------------------------------------------------
(* The provider *)

SeqsUpTo(S, n) == UNION {[1..k -> S] : k \in 0..n}

NewItems ==
    {[structured |-> s, price |-> p, semantic |-> t] :
        s \in SeqsUpTo(StructuredItems, MaxNew),
        p \in SeqsUpTo(PriceItems, MaxNew),
        t \in SeqsUpTo(SemanticItems, MaxNew)}

FewNewItems ==
    {n \in NewItems : Len(n.structured) + Len(n.price) + Len(n.semantic) <= MaxNew}

FramesOf(prefs, version) ==
    {[base |-> version, noChange |-> FALSE, goal |-> g, keep |-> k,
      structured |-> n.structured, price |-> n.price, semantic |-> n.semantic,
      dontCare |-> d] :
        k \in SUBSET Ids(prefs), g \in GoalFrames, d \in IrrelevantSets,
        n \in FewNewItems}

\* Frames that claim NO_CHANGE, answer another version, name a ref that does
\* not exist or infer a requirement, each otherwise keeping everything.
OddFrames(prefs, version, dontCare) ==
    LET all == [base |-> version, noChange |-> TRUE,
                goal |-> [action |-> "keep", value |-> NoGoal],
                keep |-> Ids(prefs), structured |-> <<>>, price |-> <<>>,
                semantic |-> <<>>, dontCare |-> dontCare]
    IN  {all, [all EXCEPT !.base = @ + 1], [all EXCEPT !.dontCare = {}],
         [all EXCEPT !.keep = @ \cup {<<turn, 0, 0>>}]}
        \cup {[all EXCEPT !.semantic =
                  <<[t EXCEPT !.source = "inferred", !.commitment = "hard"]>>] :
                  t \in SemanticItems}

Asking == turn <= MaxTurn /\ frame = NoFrame

\* reconcile returns a frame and the materializer judges it.
Answer(f) ==
    /\ Asking
    /\ frame' = f
    /\ plan' = Materialized(intent, f, turn)
    /\ UNCHANGED <<intent, turn, attempt>>

\* The call fails in a way that is never retried: no key, authorization,
\* rate limit, timeout, unavailable.
ProviderFails ==
    /\ Asking
    /\ turn' = turn + 1
    /\ attempt' = 0
    /\ UNCHANGED <<intent, frame, plan>>

\* The response is no well-formed tool call: as a refused frame.
Malformed ==
    /\ Asking
    /\ frame' = BadFrame
    /\ plan' = [NoPlan EXCEPT !.error = "invalid_frame"]
    /\ UNCHANGED <<intent, turn, attempt>>

----------------------------------------------------------------------------
(* The service *)

Forget == frame' = NoFrame /\ plan' = NoPlan

Judged == frame # NoFrame
NonRepairable == plan.error = "stale_intent_version"

\* One fresh attempt with a repair instruction.
Repair ==
    /\ Judged
    /\ plan.error # "none"
    /\ ~NonRepairable
    /\ attempt = 0
    /\ attempt' = 1
    /\ Forget
    /\ UNCHANGED <<intent, turn>>

\* resolve raises: the turn is answered without an update.
GiveUp ==
    /\ Judged
    /\ plan.error # "none"
    /\ NonRepairable \/ attempt = 1
    /\ turn' = turn + 1
    /\ attempt' = 0
    /\ Forget
    /\ UNCHANGED intent

\* resolve returns, and the turn is committed with the planned update.
Commit ==
    /\ Judged
    /\ plan.error = "none"
    /\ intent' = plan.final
    /\ turn' = turn + 1
    /\ attempt' = 0
    /\ Forget

Provide == \E f \in FramesOf(intent.prefs, intent.version)
                        \cup OddFrames(intent.prefs, intent.version, intent.dontCare) :
               Answer(f)

Next == Provide \/ Malformed \/ ProviderFails \/ Repair \/ GiveUp \/ Commit

Spec == Init /\ [][Next]_vars

----------------------------------------------------------------------------
(* What a frame asks for, without looking at how it is carried out *)

Judging == Judged /\ frame # BadFrame
Accepted == Judging /\ plan.error = "none"

\* The preference says what the item says, as a predicate or in words.
Expresses(p, item) == LogicalKey(p) \in {StructuredOf(item), SemanticOf(item)}

CategoryBroadened(p) ==
    /\ LogicalKey(p) = RootCategory \/ p.value = {RootScope}
    /\ ReservedPreferences(intent.prefs) # {}
    /\ \A q \in Kept(intent, frame) : q.facet # Category

\* The complete target with some ids, as an intent.
TargetPrefs ==
    LET t == Target(intent, frame)
    IN  t.old \cup {Allocated(t.new[i], turn, i, 0) : i \in DOMAIN t.new}

(* Properties *)

\* Type correctness.
TypeOK ==
    /\ IntentAllowed(intent)
    /\ intent.version \in 0..MaxTurn
    /\ turn \in FirstTurn..(MaxTurn + 1)
    /\ attempt \in {0, 1}
    /\ (frame = NoFrame) = (plan = NoPlan)

\* An accepted plan leads to exactly what the frame says: kept preferences
\* stay under their ids, every new item is expressed as confidently as the
\* frame says it (a wish repeated with another confidence stands beside the
\* one kept), and nothing else survives or appears but the root category in
\* place of one dropped; the irrelevant facets and the goal are the frame's,
\* and the version counts the change (planner.materialize).
FinalIsWhatTheFrameSays ==
    Accepted =>
        /\ Kept(intent, frame) \subseteq plan.final.prefs
        /\ \A item \in Items(frame) :
               \E p \in plan.final.prefs : Expresses(p, item)
        /\ \A p \in plan.final.prefs :
               \/ p \in Kept(intent, frame)
               \/ \E item \in Items(frame) : Expresses(p, item)
               \/ p.facet = Category /\ CategoryBroadened(p)
        /\ plan.final.dontCare =
               (frame.dontCare \ {Category}) \ ActiveFacets(plan.final.prefs)
        /\ plan.final.goal = NewGoal(intent, frame)
        /\ (plan.final = intent) = (plan.ops = <<>>)

\* The gateway refuses a plan only when what the frame asks for is not a
\* valid intent of the release: operations, their order and the allocated
\* ids never make a well-formed request fail (planner.materialize against
\* reducer and gateway).
RefusedOnlyIfUnsatisfiable ==
    Judging /\ plan.error = "preview_rejected" =>
        ~IntentAllowed([prefs |-> TargetPrefs,
                        dontCare |-> DesiredDontCare(frame, Target(intent, frame))])

\* As long as the goal stays, a category, once there, is only changed or
\* broadened to the root (planner._represent_category_broadening).
CategoryKept ==
    [][/\ intent'.goal = intent.goal
       /\ ReservedPreferences(intent.prefs) # {}
       => ReservedPreferences(intent'.prefs) # {}]_vars

\* What the tool description tells the model: "Keep every old active_N ref
\* that still applies; omission deletes it."  A frame that only omits is
\* accepted.
OmissionDeletes ==
    /\ Judging
    /\ Items(frame) = {}
    /\ ~frame.noChange
    /\ frame.keep \subseteq Ids(intent.prefs)
    /\ frame.dontCare = intent.dontCare
    /\ frame.goal.action = "keep"
    /\ frame.base = intent.version
    => plan.error = "none"
============================================================================
