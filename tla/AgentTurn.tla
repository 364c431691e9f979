----------------------------- MODULE AgentTurn -----------------------------
(***************************************************************************)
(* FullPipelineOtherAgent of                                               *)
(* scripts/simulator/evaluate_full_pipeline_other.py: sessions answered by *)
(* one thread each, stage by stage, with the local models behind one lock, *)
(* a cached answer for a repeated message that changed nothing, and a      *)
(* degraded answer when a stage raises.                                    *)
(*                                                                         *)
(* An intent is its version.  What a run of the pipeline produced, slate   *)
(* and audit, is named by the turn that ran it; the texts of answers and   *)
(* the timings are left out.                                               *)
(***************************************************************************)
EXTENDS Naturals, Sequences, FiniteSets

CONSTANTS Session,      \* the sessions, each driven by its own thread
          Message,      \* the normalized messages users send
          NoMessage,    \* None, where a message may stand
          Nobody,       \* holder of the model lock when it is free
          RetryCount,   \* qu_retry_count
          RepeatNoopCache, \* repeat_noop_cache
          MaxTurns      \* bound on the turns of a session

ASSUME AgentTurnConstants ==
          /\ NoMessage \notin Message
          /\ Nobody \notin Session
          /\ RetryCount \in Nat \ {0}
          /\ RepeatNoopCache \in BOOLEAN
          /\ MaxTurns \in Nat \ {0}

VARIABLES turns,         \* context.state.interaction.turns, with their audits
          intent,        \* context.state.intent.version
          estimated,     \* the intent version of previous_transparency, or None
          lastSlate,     \* the slate of last_response, or None
          lastPipeline,  \* the turn that computed last_pipeline, 0 for None
          reusableKey,   \* reusable_key
          reusableFrom,  \* reusable_from_turn, 0 for None
          modelLock,     \* who holds _local_model_lock
          coordinated,   \* the agent has a ranking coordinator
          at,            \* the stage each session's respond is in
          message,       \* user_message
          attempt,       \* attempt, in _resolve_with_retry
          resolved,      \* resolved: whether it updates the intent
          estimate       \* transparency is not None

\* A set of at most one number stands for an optional one.
None == {}
Some(n) == {n}

session == <<turns, intent, estimated, lastSlate, lastPipeline, reusableKey,
             reusableFrom>>
call == <<at, message, attempt, resolved, estimate>>
vars == <<session, modelLock, coordinated, call>>

NoKey == [message |-> NoMessage, version |-> 0]
Key(m, version) == [message |-> m, version |-> version]

Init == /\ turns = [s \in Session |-> <<>>]
        /\ intent = [s \in Session |-> 0]
        /\ estimated = [s \in Session |-> None]
        /\ lastSlate = [s \in Session |-> None]
        /\ lastPipeline = [s \in Session |-> 0]
        /\ reusableKey = [s \in Session |-> NoKey]
        /\ reusableFrom = [s \in Session |-> 0]
        /\ modelLock = Nobody
        /\ coordinated \in BOOLEAN
        /\ at = [s \in Session |-> "idle"]
        /\ message = [s \in Session |-> NoMessage]
        /\ attempt = [s \in Session |-> 0]
        /\ resolved = [s \in Session |-> FALSE]
        /\ estimate = [s \in Session |-> FALSE]

Goto(s, stage) == at' = [at EXCEPT ![s] = stage]
NextTurn(s) == Len(turns[s]) + 1

\* reset: a fresh _SessionRuntime replaces the session's.
Reset(s) == /\ at[s] = "idle"
            /\ turns' = [turns EXCEPT ![s] = <<>>]
            /\ intent' = [intent EXCEPT ![s] = 0]
            /\ estimated' = [estimated EXCEPT ![s] = None]
            /\ lastSlate' = [lastSlate EXCEPT ![s] = None]
            /\ lastPipeline' = [lastPipeline EXCEPT ![s] = 0]
            /\ reusableKey' = [reusableKey EXCEPT ![s] = NoKey]
            /\ reusableFrom' = [reusableFrom EXCEPT ![s] = 0]
            /\ UNCHANGED <<modelLock, coordinated, call>>

-----------------------------------------------------------------------------
(* Ending a turn.                                                          *)

\* Mutant: a failed turn records the resolved intent and loses it.
Advance_LosesIntent(s, m, updates, status, slate, pipeline, from) ==
    LET after == IF updates THEN intent[s] + 1 ELSE intent[s] IN
    /\ turns' = [turns EXCEPT ![s] =
          Append(@, [message |-> m, before |-> intent[s], after |-> after,
                     updates |-> updates, status |-> status, shown |-> slate,
                     pipeline |-> pipeline, from |-> from])]
    /\ intent' = [intent EXCEPT ![s] = IF status = "error" THEN @ ELSE after]
    /\ lastSlate' = [lastSlate EXCEPT ![s] = Some(slate)]

\* _advance_context: the turn record and, with resolved, the final intent.
Advance(s, m, updates, status, slate, pipeline, from) ==
    LET after == IF updates THEN intent[s] + 1 ELSE intent[s] IN
    /\ turns' = [turns EXCEPT ![s] =
          Append(@, [message |-> m, before |-> intent[s], after |-> after,
                     updates |-> updates, status |-> status, shown |-> slate,
                     pipeline |-> pipeline, from |-> from])]
    /\ intent' = [intent EXCEPT ![s] = after]
    /\ lastSlate' = [lastSlate EXCEPT ![s] = Some(slate)]

\* The recommendations of last_response; 0 when there are none.
PreviousSlate(s) == IF lastSlate[s] = None THEN 0
                    ELSE CHOOSE n \in lastSlate[s] : TRUE

\* The call returns and its local variables are gone.
Return(s) == /\ Goto(s, "idle")
             /\ message' = [message EXCEPT ![s] = NoMessage]
             /\ attempt' = [attempt EXCEPT ![s] = 0]
             /\ resolved' = [resolved EXCEPT ![s] = FALSE]
             /\ estimate' = [estimate EXCEPT ![s] = FALSE]

\* Mutant: a failed turn leaves the key of the cached answer.
FailedTurn_KeepsKey(s, updates) ==
    /\ Advance(s, message[s], updates, "error", PreviousSlate(s), 0, 0)
    /\ Return(s)
    /\ UNCHANGED <<estimated, lastPipeline, reusableKey, reusableFrom,
                   coordinated>>

\* _failed_turn: the previous slate again; an intent already resolved stays.
FailedTurn(s, updates) ==
    /\ Advance(s, message[s], updates, "error", PreviousSlate(s), 0, 0)
    /\ reusableKey' = [reusableKey EXCEPT ![s] = NoKey]
    /\ reusableFrom' = [reusableFrom EXCEPT ![s] = 0]
    /\ Return(s)
    /\ UNCHANGED <<estimated, lastPipeline, coordinated>>

-----------------------------------------------------------------------------
(* respond, up to query understanding.                                     *)

\* The message is the one whose answer is cached, for the intent as it is.
Reusable(s, m) == /\ RepeatNoopCache
                  /\ reusableKey[s] = Key(m, intent[s])
                  /\ lastPipeline[s] # 0
                  /\ lastSlate[s] # None

\* _reuse_noop_turn.
Reuse(s, m) ==
    /\ at[s] = "idle"
    /\ NextTurn(s) <= MaxTurns
    /\ Reusable(s, m)
    /\ Advance(s, m, FALSE, "reused", PreviousSlate(s), lastPipeline[s],
               reusableFrom[s])
    /\ UNCHANGED <<estimated, lastPipeline, reusableKey, reusableFrom,
                   modelLock, coordinated, call>>

Respond(s, m) ==
    /\ at[s] = "idle"
    /\ NextTurn(s) <= MaxTurns
    /\ ~Reusable(s, m)
    /\ message' = [message EXCEPT ![s] = m]
    /\ attempt' = [attempt EXCEPT ![s] = 1]
    /\ Goto(s, "understanding")
    /\ UNCHANGED <<session, modelLock, coordinated, resolved, estimate>>

\* A transient provider error, with attempts left.
RetryUnderstanding(s) ==
    /\ at[s] = "understanding"
    /\ attempt[s] < RetryCount
    /\ attempt' = [attempt EXCEPT ![s] = @ + 1]
    /\ UNCHANGED <<session, modelLock, coordinated, at, message, resolved,
                   estimate>>

Understand(s, updates) ==
    /\ at[s] = "understanding"
    /\ resolved' = [resolved EXCEPT ![s] = updates]
    /\ Goto(s, "compiling")
    /\ UNCHANGED <<session, modelLock, coordinated, message, attempt, estimate>>

UnderstandingFails(s) == /\ at[s] = "understanding"
                         /\ FailedTurn(s, FALSE)
                         /\ UNCHANGED modelLock

-----------------------------------------------------------------------------
(* The stages after it.                                                    *)

Compile(s) == /\ at[s] = "compiling"
              /\ Goto(s, "compiled")
              /\ UNCHANGED <<session, modelLock, coordinated, message, attempt,
                             resolved, estimate>>

CompileFails(s) == /\ at[s] = "compiling"
                   /\ FailedTurn(s, resolved[s])
                   /\ UNCHANGED modelLock

\* Mutant: the model is used without waiting for the lock.
Acquire_NoWait(s, from, to) ==
    /\ at[s] = from
    /\ modelLock' = s
    /\ Goto(s, to)
    /\ UNCHANGED <<session, coordinated, message, attempt, resolved, estimate>>

\* with self._local_model_lock.
Acquire(s, from, to) ==
    /\ at[s] = from
    /\ modelLock = Nobody
    /\ modelLock' = s
    /\ Goto(s, to)
    /\ UNCHANGED <<session, coordinated, message, attempt, resolved, estimate>>

\* Mutant: an estimate that raises leaves the lock held.
Estimated_KeepsLock(s, ok) ==
    /\ at[s] = "estimating"
    /\ modelLock' = IF ok THEN Nobody ELSE modelLock
    /\ estimate' = [estimate EXCEPT ![s] = ok]
    /\ Goto(s, "estimated")
    /\ UNCHANGED <<session, coordinated, message, attempt, resolved>>

\* estimate returns, or raises and the turn goes on without it.
Estimated(s, ok) ==
    /\ at[s] = "estimating"
    /\ modelLock' = Nobody
    /\ estimate' = [estimate EXCEPT ![s] = ok]
    /\ Goto(s, "estimated")
    /\ UNCHANGED <<session, coordinated, message, attempt, resolved>>

Searched(s) == /\ at[s] = "searching"
               /\ modelLock' = Nobody
               /\ Goto(s, "searched")
               /\ UNCHANGED <<session, coordinated, message, attempt, resolved,
                              estimate>>

SearchFails(s) == /\ at[s] = "searching"
                  /\ modelLock' = Nobody
                  /\ FailedTurn(s, resolved[s])

\* The coordinator ranks, or raises and the turn goes on as without one.
Coordinate(s) == /\ at[s] = "searched"
                 /\ coordinated
                 /\ \/ Goto(s, "ranked")
                    \/ Goto(s, "fallback")
                 /\ UNCHANGED <<session, modelLock, coordinated, message,
                                attempt, resolved, estimate>>

\* There is no reranker, or nothing to rank: the formal order.
FormalOrder(s) == /\ \/ at[s] = "searched" /\ ~coordinated
                     \/ at[s] = "fallback"
                  /\ Goto(s, "ranked")
                  /\ UNCHANGED <<session, modelLock, coordinated, message,
                                 attempt, resolved, estimate>>

AcquireReranker(s) == \/ ~coordinated /\ Acquire(s, "searched", "reranking")
                      \/ Acquire(s, "fallback", "reranking")

\* Reranked, or an exception and the formal order.
Reranked(s) == /\ at[s] = "reranking"
               /\ modelLock' = Nobody
               /\ Goto(s, "ranked")
               /\ UNCHANGED <<session, coordinated, message, attempt, resolved,
                              estimate>>

\* Mutant: previous_transparency names the version the turn started from
\* whether or not the turn has an estimate.
Finish_EstimatesAnyway(s) ==
    LET n == NextTurn(s) IN
    /\ at[s] = "ranked"
    /\ Advance(s, message[s], resolved[s], "success", n, n, 0)
    /\ estimated' = [estimated EXCEPT ![s] = Some(intent[s])]
    /\ reusableKey' = [reusableKey EXCEPT ![s] =
                         IF resolved[s] THEN NoKey
                         ELSE Key(message[s], intent[s])]
    /\ reusableFrom' = [reusableFrom EXCEPT ![s] = IF resolved[s] THEN 0 ELSE n]
    /\ lastPipeline' = [lastPipeline EXCEPT ![s] = n]
    /\ Return(s)
    /\ UNCHANGED <<modelLock, coordinated>>

\* The composer raises, outside every try block: respond raises and the
\* session is as it was.
ComposeRaises(s) == /\ at[s] = "ranked"
                    /\ Return(s)
                    /\ UNCHANGED <<session, modelLock, coordinated>>

\* The answer is composed and the turn recorded.
Finish(s) ==
    LET n == NextTurn(s) IN
    /\ at[s] = "ranked"
    /\ Advance(s, message[s], resolved[s], "success", n, n, 0)
    /\ estimated' = IF estimate[s]
                    THEN [estimated EXCEPT ![s] = Some(intent'[s])]
                    ELSE estimated
    /\ reusableKey' = [reusableKey EXCEPT ![s] =
                         IF resolved[s] THEN NoKey
                         ELSE Key(message[s], intent[s])]
    /\ reusableFrom' = [reusableFrom EXCEPT ![s] = IF resolved[s] THEN 0 ELSE n]
    /\ lastPipeline' = [lastPipeline EXCEPT ![s] = n]
    /\ Return(s)
    /\ UNCHANGED <<modelLock, coordinated>>

-----------------------------------------------------------------------------

AcquireModel(s) == \/ Acquire(s, "compiled", "estimating")
                   \/ Acquire(s, "estimated", "searching")
                   \/ AcquireReranker(s)

Understanding(s) == \/ RetryUnderstanding(s)
                    \/ UnderstandingFails(s)
                    \/ \E updates \in BOOLEAN : Understand(s, updates)

ModelReturns(s) == \/ \E ok \in BOOLEAN : Estimated(s, ok)
                   \/ Searched(s) \/ SearchFails(s) \/ Reranked(s)

Compiling(s) == Compile(s) \/ CompileFails(s)
Ranking(s) == Coordinate(s) \/ FormalOrder(s)
Answering(s) == Finish(s) \/ ComposeRaises(s)

Next == \E s \in Session :
           \/ Reset(s)
           \/ \E m \in Message : Respond(s, m) \/ Reuse(s, m)
           \/ Understanding(s) \/ Compiling(s) \/ AcquireModel(s)
           \/ ModelReturns(s) \/ Ranking(s) \/ Answering(s)

Spec == Init /\ [][Next]_vars

\* A turn under way goes on.  The model lock is a threading.Lock and serves
\* its waiters in no order, so acquiring it needs strong fairness.
Fairness == \A s \in Session : /\ WF_vars(Understanding(s))
                               /\ WF_vars(Compiling(s))
                               /\ SF_vars(AcquireModel(s))
                               /\ WF_vars(ModelReturns(s))
                               /\ WF_vars(Coordinate(s))
                               /\ WF_vars(Answering(s))

FairSpec == Spec /\ Fairness

-----------------------------------------------------------------------------
(* Properties.                                                             *)

Stage == {"idle", "understanding", "compiling", "compiled", "estimating",
          "estimated", "searching", "searched", "fallback", "reranking",
          "ranked"}
Turn == [message : Message, before : Nat, after : Nat, updates : BOOLEAN,
         status : {"success", "reused", "error"}, shown : Nat,
         pipeline : Nat, from : Nat]

\* The versions of a session's turns form a chain that ends in the current
\* intent, also through turns that failed after the intent was resolved.
VersionsChain ==
    \A s \in Session :
       LET ts == turns[s]
           version == [i \in 0..Len(ts) |-> IF i = 0 THEN 0 ELSE ts[i].after]
       IN  /\ intent[s] = version[Len(ts)]
           /\ \A i \in 1..Len(ts) :
                 /\ ts[i].before = version[i - 1]
                 /\ ts[i].after = ts[i].before + (IF ts[i].updates THEN 1 ELSE 0)

\* A cached answer is the one computed for the same message and the same
\* intent, in the turn the audit names, with no turn in between that showed,
\* failed or changed anything else.
ReuseFaithful ==
    \A s \in Session : \A i \in 1..Len(turns[s]) :
       LET ts == turns[s]
           f == ts[i].from
       IN  ts[i].status = "reused" =>
              /\ f \in 1..(i - 1)
              /\ ts[f].status = "success" /\ ~ts[f].updates
              /\ ts[f].message = ts[i].message
              /\ ts[f].after = ts[i].after
              /\ ts[f].shown = ts[i].shown
              /\ ts[f].pipeline = ts[i].pipeline
              /\ \A j \in (f + 1)..(i - 1) : ts[j].status = "reused"

\* previous_transparency belongs to a version of the intent that an answered
\* turn left behind, never to one a failed turn introduced or to a newer one.
EstimateOfATurn ==
    \A s \in Session : \A v \in estimated[s] :
       \E i \in 1..Len(turns[s]) : /\ turns[s][i].status = "success"
                                   /\ turns[s][i].after = v

\* The sessions use the estimator, the retriever and the reranker one at a
\* time ("local CUDA model calls remain serialized"); a coordinator's own
\* use of its models is not behind the lock.
ModelsSerialized ==
    \A s \in Session : at[s] \in {"estimating", "searching", "reranking"}
                          <=> modelLock = s

\* Every turn is answered or raises to its caller, whatever stage raises and whoever else waits for
\* the models.
EveryTurnAnswered == \A s \in Session : at[s] # "idle" ~> at[s] = "idle"
=============================================================================
