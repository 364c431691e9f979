-------------------------- MODULE Recommendation --------------------------
(***************************************************************************)
(* A turn from the user's words to the slate that is shown: the query      *)
(* understanding of QueryUnderstanding, then the compilation, the search   *)
(* and the ranking of Retrieval, in the order of                           *)
(* FullPipelineOtherAgent.respond.  A turn that fails after it was         *)
(* understood keeps its intent and shows the slate before (AgentTurn       *)
(* follows that one); here it shows nothing new.                           *)
(***************************************************************************)
EXTENDS QueryUnderstanding, Retrieval

CONSTANT Transparencies  \* percents an estimate may yield

VARIABLES stage,  \* understanding | searching | ranking | answered | failed
          found,  \* fused candidates
          shown   \* the slate of an answered turn

turnVars == <<vars, stage, found, shown>>
search == <<stage, found, shown>>

TurnInit == Init /\ stage = "understanding" /\ found = {} /\ shown = {}

Mask == HardMask(intent.prefs)
Ready == SearchReady(intent.goal # NoGoal, intent.prefs)

\* Query understanding is asked, refused, repaired or given up.
Understand ==
    /\ stage = "understanding"
    /\ Provide \/ Malformed \/ ProviderFails \/ Repair \/ GiveUp
    /\ UNCHANGED search

\* resolve returns; the intent the turn will be recorded with is searched.
Resolve ==
    /\ stage = "understanding"
    /\ Commit
    /\ stage' = "searching"
    /\ UNCHANGED <<found, shown>>

\* RetrievalController.search.
Search ==
    /\ stage = "searching"
    /\ Ready
    /\ \E t \in Transparencies : found' \in Recalled(intent.prefs, Mask, t)
    /\ stage' = "ranking"
    /\ UNCHANGED <<vars, shown>>

\* The query is not ready, or a stage raises.
SearchFails ==
    /\ stage = "searching"
    /\ stage' = "failed"
    /\ UNCHANGED <<vars, found, shown>>

\* ApertureRankingCoordinator.rank, whichever stage of it succeeds.
Rank ==
    /\ stage = "ranking"
    /\ \/ found # {} /\ shown' \in QualitySlates(found)
       \/ found # {} /\ shown' \in FallbackSlates(found)
       \/ shown' \in FormalSlates(found)
    /\ stage' = "answered"
    /\ found' = {}
    /\ UNCHANGED vars

\* The user has read the answer.
NextMessage ==
    /\ stage \in {"answered", "failed"}
    /\ stage' = "understanding"
    /\ shown' = {}
    /\ UNCHANGED <<vars, found>>

TurnNext == Understand \/ Resolve \/ Search \/ SearchFails \/ Rank \/ NextMessage

TurnSpec == TurnInit /\ [][TurnNext]_turnVars

----------------------------------------------------------------------------
(* Properties *)

\* A slate violates nothing the user excludes, whichever route proposed a
\* product and whichever ranker placed it; and a requirement it does not
\* meet cannot be met together with those it meets ("Produce a final Top-K
\* without ever reintroducing hard-mask rejects", quality_ranking.py).
SlateHonoursIntent ==
    LET excluded == UNION {Matching(p) : p \in Exclusions(intent.prefs)}
        met == {p \in Inclusions(intent.prefs) : shown \subseteq Matching(p)}
        Meeting(prefs) == {x \in Product \ excluded : \A p \in prefs : x \in Matching(p)}
    IN  stage = "answered" /\ shown # {} =>
            /\ shown \cap excluded = {}
            /\ \A p \in Inclusions(intent.prefs) \ met : Meeting(met \cup {p}) = {}

\* The slate is as long as the products left allow: overlapping routes do
\* not shorten it, and it is empty only if exclusions empty the catalog
\* (controller._transparency_aware_routes).
FullSlate ==
    LET open == Product \ UNION {Matching(p) : p \in Exclusions(intent.prefs)}
        left == Cardinality(Mask.eligible)
    IN  stage = "answered" =>
            /\ Cardinality(shown) = IF left < TopK THEN left ELSE TopK
            /\ shown = {} => open = {}

\* A new requirement gives way to the older ones: adding preferences makes
\* no requirement of an earlier turn relaxed that was met, as long as
\* nothing more is excluded (HardMaskResolver.resolve, in the order of ids).
NewestGivesWay ==
    [][/\ intent.prefs \subseteq intent'.prefs
       /\ intent.prefs # intent'.prefs
       /\ Exclusions(intent'.prefs) = Exclusions(intent.prefs)
       => HardMask(intent'.prefs).relaxed \cap intent.prefs
              \subseteq HardMask(intent.prefs).relaxed]_turnVars
============================================================================
