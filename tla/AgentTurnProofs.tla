-------------------------- MODULE AgentTurnProofs --------------------------
(***************************************************************************)
(* Proofs about AgentTurn, for any sessions, messages, retries and turns.  *)
(***************************************************************************)
EXTENDS AgentTurn, TLAPS

\* The types the arguments need.
Typed == /\ turns \in [Session -> Seq(Turn)]
         /\ intent \in [Session -> Nat]
         /\ lastSlate \in [Session -> SUBSET Nat]
         /\ \A s \in Session : lastSlate[s] = None
                                 \/ \E n \in Nat : lastSlate[s] = Some(n)
         /\ lastPipeline \in [Session -> Nat]
         /\ reusableFrom \in [Session -> Nat]
         /\ reusableKey \in [Session -> [message : Message \cup {NoMessage},
                                         version : Nat]]
         /\ at \in [Session -> Stage]
         /\ message \in [Session -> Message \cup {NoMessage}]
         /\ \A s \in Session : at[s] # "idle" => message[s] \in Message
         /\ resolved \in [Session -> BOOLEAN]

Inv == Typed /\ ModelsSerialized

InModel == {"estimating", "searching", "reranking"}

LEMMA SlateTyped ==
  ASSUME Typed, NEW s \in Session
  PROVE  PreviousSlate(s) \in Nat
  <1>1. CASE lastSlate[s] = None
    BY <1>1 DEF PreviousSlate
  <1>2. CASE lastSlate[s] # None
    <2>1. PICK n \in Nat : lastSlate[s] = {n}
      BY <1>2 DEF Typed, Some
    <2>2. (CHOOSE k \in {n} : TRUE) = n
      OBVIOUS
    <2> QED
      BY <1>2, <2>1, <2>2 DEF PreviousSlate
  <1> QED
    BY <1>1, <1>2

LEMMA AdvanceTyped ==
  ASSUME Typed, NEW s \in Session, NEW m \in Message, NEW updates \in BOOLEAN,
         NEW status \in {"success", "reused", "error"}, NEW slate \in Nat,
         NEW pipeline \in Nat, NEW from \in Nat,
         Advance(s, m, updates, status, slate, pipeline, from)
  PROVE  /\ turns' \in [Session -> Seq(Turn)]
         /\ intent' \in [Session -> Nat]
         /\ lastSlate' \in [Session -> SUBSET Nat]
         /\ \A r \in Session : lastSlate'[r] = None
                                 \/ \E n \in Nat : lastSlate'[r] = Some(n)
  <1> DEFINE after == IF updates THEN intent[s] + 1 ELSE intent[s]
             rec == [message |-> m, before |-> intent[s], after |-> after,
                     updates |-> updates, status |-> status, shown |-> slate,
                     pipeline |-> pipeline, from |-> from]
  <1>1. after \in Nat /\ intent[s] \in Nat
    BY DEF Typed
  <1>2. rec \in Turn
    BY <1>1 DEF Turn
  <1>3. turns' = [turns EXCEPT ![s] = Append(@, rec)]
    BY DEF Advance
  <1>4. intent' = [intent EXCEPT ![s] = after]
    BY DEF Advance
  <1>5. lastSlate' = [lastSlate EXCEPT ![s] = {slate}]
    BY DEF Advance, Some
  <1> HIDE DEF rec, after
  <1>6. Append(turns[s], rec) \in Seq(Turn)
    BY <1>2 DEF Typed
  <1> QED
    BY <1>1, <1>3, <1>4, <1>5, <1>6 DEF Typed, Some

LEMMA ReturnTyped ==
  ASSUME Typed, NEW s \in Session, Return(s)
  PROVE  /\ at' \in [Session -> Stage]
         /\ message' \in [Session -> Message \cup {NoMessage}]
         /\ \A r \in Session : at'[r] # "idle" => message'[r] \in Message
         /\ resolved' \in [Session -> BOOLEAN]
  BY DEF Typed, Return, Goto, Stage

LEMMA FailedTyped ==
  ASSUME Typed, NEW s \in Session, at[s] # "idle", NEW updates \in BOOLEAN,
         FailedTurn(s, updates)
  PROVE  Typed'
  <1>1. message[s] \in Message /\ PreviousSlate(s) \in Nat
    BY SlateTyped DEF Typed
  <1>2. Advance(s, message[s], updates, "error", PreviousSlate(s), 0, 0)
    BY DEF FailedTurn
  <1>3. /\ turns' \in [Session -> Seq(Turn)]
        /\ intent' \in [Session -> Nat]
        /\ lastSlate' \in [Session -> SUBSET Nat]
        /\ \A r \in Session : lastSlate'[r] = None
                                \/ \E n \in Nat : lastSlate'[r] = Some(n)
    BY <1>1, <1>2, AdvanceTyped
  <1>4. /\ at' \in [Session -> Stage]
        /\ message' \in [Session -> Message \cup {NoMessage}]
        /\ \A r \in Session : at'[r] # "idle" => message'[r] \in Message
        /\ resolved' \in [Session -> BOOLEAN]
    BY ReturnTyped DEF FailedTurn
  <1> QED
    BY <1>3, <1>4 DEF FailedTurn, Typed, NoKey

LEMMA TypedStep ==
  ASSUME Typed, [Next]_vars
  PROVE  Typed'
  <1> USE DEF session, call, Goto
  <1>1. ASSUME NEW s \in Session, Reset(s)
        PROVE  Typed'
    <2>1. turns' \in [Session -> Seq(Turn)]
      <3>1. <<>> \in Seq(Turn)
        OBVIOUS
      <3> QED
        BY <1>1, <3>1 DEF Reset, Typed
    <2>2. intent' \in [Session -> Nat]
      BY <1>1 DEF Reset, Typed
    <2>3. /\ lastSlate' \in [Session -> SUBSET Nat]
          /\ \A r \in Session : lastSlate'[r] = None
                                  \/ \E n \in Nat : lastSlate'[r] = Some(n)
      BY <1>1 DEF Reset, Typed, None
    <2>4. /\ lastPipeline' \in [Session -> Nat]
          /\ reusableFrom' \in [Session -> Nat]
          /\ reusableKey' \in [Session -> [message : Message \cup {NoMessage},
                                           version : Nat]]
      BY <1>1 DEF Reset, Typed, NoKey
    <2> QED
      BY <1>1, <2>1, <2>2, <2>3, <2>4 DEF Reset, Typed
  <1>2. ASSUME NEW s \in Session, NEW m \in Message, Respond(s, m)
        PROVE  Typed'
    BY <1>2 DEF Respond, Typed, Stage
  <1>3. ASSUME NEW s \in Session, NEW m \in Message, Reuse(s, m)
        PROVE  Typed'
    <2>1. Advance(s, m, FALSE, "reused", PreviousSlate(s), lastPipeline[s],
                  reusableFrom[s])
      BY <1>3 DEF Reuse
    <2>2. /\ PreviousSlate(s) \in Nat
          /\ lastPipeline[s] \in Nat /\ reusableFrom[s] \in Nat
      BY SlateTyped DEF Typed
    <2>3. /\ turns' \in [Session -> Seq(Turn)]
          /\ intent' \in [Session -> Nat]
          /\ lastSlate' \in [Session -> SUBSET Nat]
          /\ \A r \in Session : lastSlate'[r] = None
                                  \/ \E n \in Nat : lastSlate'[r] = Some(n)
      BY <2>1, <2>2, AdvanceTyped
    <2> QED
      BY <1>3, <2>3 DEF Reuse, Typed
  <1>4. ASSUME NEW s \in Session, Understanding(s)
        PROVE  Typed'
    <2>1. CASE RetryUnderstanding(s)
      BY <2>1 DEF RetryUnderstanding, Typed
    <2>2. CASE UnderstandingFails(s)
      BY <2>2, FailedTyped DEF UnderstandingFails
    <2>3. ASSUME NEW updates \in BOOLEAN, Understand(s, updates)
          PROVE  Typed'
      BY <2>3 DEF Understand, Typed, Stage
    <2> QED
      BY <1>4, <2>1, <2>2, <2>3 DEF Understanding
  <1>5. ASSUME NEW s \in Session, Compiling(s)
        PROVE  Typed'
    <2>1. CASE Compile(s)
      BY <2>1 DEF Compile, Typed, Stage
    <2>2. CASE CompileFails(s)
      <3>1. resolved[s] \in BOOLEAN
        BY DEF Typed
      <3> QED
        BY <2>2, <3>1, FailedTyped DEF CompileFails
    <2> QED
      BY <1>5, <2>1, <2>2 DEF Compiling
  <1>6. ASSUME NEW s \in Session, AcquireModel(s)
        PROVE  Typed'
    BY <1>6 DEF AcquireModel, AcquireReranker, Acquire, Typed, Stage
  <1>7. ASSUME NEW s \in Session, ModelReturns(s)
        PROVE  Typed'
    <2>1. CASE SearchFails(s)
      <3>1. resolved[s] \in BOOLEAN
        BY DEF Typed
      <3> QED
        BY <2>1, <3>1, FailedTyped DEF SearchFails
    <2>2. CASE (\E ok \in BOOLEAN : Estimated(s, ok)) \/ Searched(s) \/ Reranked(s)
      BY <2>2 DEF Estimated, Searched, Reranked, Typed, Stage
    <2> QED
      BY <1>7, <2>1, <2>2 DEF ModelReturns
  <1>8. ASSUME NEW s \in Session, Ranking(s)
        PROVE  Typed'
    BY <1>8 DEF Ranking, Coordinate, FormalOrder, Typed, Stage
  <1>11. ASSUME NEW s \in Session, ComposeRaises(s)
         PROVE  Typed'
    BY <1>11, ReturnTyped DEF ComposeRaises, Typed
  <1>9. ASSUME NEW s \in Session, Finish(s)
        PROVE  Typed'
    <2>1. PICK n \in Nat : n = NextTurn(s)
      BY DEF NextTurn, Typed
    <2>2. message[s] \in Message /\ resolved[s] \in BOOLEAN
      BY <1>9 DEF Finish, Typed
    <2>3. Advance(s, message[s], resolved[s], "success", n, n, 0) /\ Return(s)
      BY <1>9, <2>1 DEF Finish
    <2>4. /\ turns' \in [Session -> Seq(Turn)]
          /\ intent' \in [Session -> Nat]
          /\ lastSlate' \in [Session -> SUBSET Nat]
          /\ \A r \in Session : lastSlate'[r] = None
                                  \/ \E k \in Nat : lastSlate'[r] = Some(k)
      BY <2>1, <2>2, <2>3, AdvanceTyped
    <2>5. /\ at' \in [Session -> Stage]
          /\ message' \in [Session -> Message \cup {NoMessage}]
          /\ \A r \in Session : at'[r] # "idle" => message'[r] \in Message
          /\ resolved' \in [Session -> BOOLEAN]
      BY <2>3, ReturnTyped
    <2>6. /\ lastPipeline' \in [Session -> Nat]
          /\ reusableFrom' \in [Session -> Nat]
          /\ reusableKey' \in [Session -> [message : Message \cup {NoMessage},
                                           version : Nat]]
      BY <1>9, <2>1, <2>2 DEF Finish, Typed, NoKey, Key
    <2> QED
      BY <2>4, <2>5, <2>6 DEF Typed
  <1>10. CASE UNCHANGED vars
    BY <1>10 DEF vars, Typed
  <1> QED
    BY <1>1, <1>2, <1>3, <1>4, <1>5, <1>6, <1>7, <1>8, <1>9, <1>10, <1>11
       DEF Next, Answering

-----------------------------------------------------------------------------
(* The lock: a session is in a model exactly while it holds the lock.      *)

LEMMA StageStep ==
  ASSUME at \in [Session -> Stage], ModelsSerialized, [Next]_vars
  PROVE  ModelsSerialized'
  <1> USE DEF session, call, Goto, ModelsSerialized, Stage, FailedTurn, Return
  <1>1. ASSUME NEW s \in Session, Reset(s)
        PROVE  ModelsSerialized'
    BY <1>1 DEF Reset
  <1>2. ASSUME NEW s \in Session, NEW m \in Message, Respond(s, m) \/ Reuse(s, m)
        PROVE  ModelsSerialized'
    BY <1>2 DEF Respond, Reuse
  <1>3. ASSUME NEW s \in Session, Understanding(s)
        PROVE  ModelsSerialized'
    BY <1>3 DEF Understanding, RetryUnderstanding, UnderstandingFails,
               Understand
  <1>4. ASSUME NEW s \in Session, Compiling(s)
        PROVE  ModelsSerialized'
    BY <1>4 DEF Compiling, Compile, CompileFails
  <1>5. ASSUME NEW s \in Session, AcquireModel(s)
        PROVE  ModelsSerialized'
    <2>1. PICK from \in Stage \ InModel, to \in InModel : Acquire(s, from, to)
      BY <1>5 DEF AcquireModel, AcquireReranker, InModel
    <2> QED
      BY <2>1, AgentTurnConstants DEF Acquire, InModel
  <1>6. ASSUME NEW s \in Session, ModelReturns(s)
        PROVE  ModelsSerialized'
    <2>1. /\ at[s] \in InModel /\ modelLock' = Nobody
          /\ \E to \in Stage \ InModel : at' = [at EXCEPT ![s] = to]
      BY <1>6 DEF ModelReturns, Estimated, Searched, SearchFails, Reranked,
                 InModel
    <2> QED
      BY <2>1, AgentTurnConstants DEF InModel
  <1>7. ASSUME NEW s \in Session, Ranking(s)
        PROVE  ModelsSerialized'
    BY <1>7 DEF Ranking, Coordinate, FormalOrder
  <1>8. ASSUME NEW s \in Session, Answering(s)
        PROVE  ModelsSerialized'
    BY <1>8 DEF Answering, Finish, ComposeRaises
  <1>9. CASE UNCHANGED vars
    BY <1>9 DEF vars
  <1> QED
    BY <1>1, <1>2, <1>3, <1>4, <1>5, <1>6, <1>7, <1>8, <1>9 DEF Next

LEMMA InvInit == Init => Inv
  <1> SUFFICES ASSUME Init PROVE Inv
    OBVIOUS
  <1>1. Typed
    <2>1. turns \in [Session -> Seq(Turn)]
      <3>1. <<>> \in Seq(Turn)
        OBVIOUS
      <3> QED
        BY <3>1 DEF Init
    <2>2. reusableKey \in [Session -> [message : Message \cup {NoMessage},
                                       version : Nat]]
      BY DEF Init, NoKey
    <2> QED
      BY <2>1, <2>2 DEF Init, Typed, None, Stage
  <1>2. ModelsSerialized
    BY AgentTurnConstants DEF Init, ModelsSerialized
  <1> QED
    BY <1>1, <1>2 DEF Inv

LEMMA InvStep == Inv /\ [Next]_vars => Inv'
  <1> SUFFICES ASSUME Inv, [Next]_vars PROVE Inv'
    OBVIOUS
  <1>1. Typed'
    BY TypedStep DEF Inv
  <1>2. ModelsSerialized'
    BY StageStep DEF Inv, Typed
  <1> QED
    BY <1>1, <1>2 DEF Inv

LEMMA InvAlways == Spec => []Inv
  BY InvInit, InvStep, PTL DEF Spec

\* At most one session at a time is in an estimate, a search or a reranking,
\* the one that holds the lock: a stage that raises gives it back, and no
\* other path leaves it held (with self._local_model_lock in respond).
THEOREM ModelsUsedByOne == Spec => []ModelsSerialized
  BY InvAlways, PTL DEF Inv

-----------------------------------------------------------------------------
(* The versions of the turns.                                              *)

\* One session's part of VersionsChain.
Chain(ts, version) ==
    /\ version = IF Len(ts) = 0 THEN 0 ELSE ts[Len(ts)].after
    /\ \A i \in 1..Len(ts) :
          /\ ts[i].before = IF i = 1 THEN 0 ELSE ts[i - 1].after
          /\ ts[i].after = ts[i].before + (IF ts[i].updates THEN 1 ELSE 0)

Chains == \A s \in Session : Chain(turns[s], intent[s])

LEMMA ChainGrows ==
  ASSUME NEW ts \in Seq(Turn), NEW version \in Nat, Chain(ts, version),
         NEW rec \in Turn, rec.before = version,
         rec.after = version + (IF rec.updates THEN 1 ELSE 0)
  PROVE  Chain(Append(ts, rec), rec.after)
  <1> DEFINE n == Len(ts)
             new == Append(ts, rec)
  <1>1. /\ n \in Nat /\ Len(new) = n + 1 /\ new[n + 1] = rec
        /\ \A i \in 1..n : new[i] = ts[i]
    OBVIOUS
  <1>2. ASSUME NEW i \in 1..(n + 1)
        PROVE  /\ new[i].before = IF i = 1 THEN 0 ELSE new[i - 1].after
               /\ new[i].after = new[i].before + (IF new[i].updates THEN 1 ELSE 0)
    <2>1. CASE i \in 1..n
      <3>1. i = 1 \/ i - 1 \in 1..n
        BY <2>1, <1>1
      <3> QED
        BY <2>1, <3>1, <1>1 DEF Chain
    <2>2. CASE i = n + 1
      <3>1. n = 0 \/ n \in 1..n
        BY <1>1
      <3>2. version = IF n = 0 THEN 0 ELSE ts[n].after
        BY DEF Chain
      <3> QED
        BY <2>2, <3>1, <3>2, <1>1
    <2> QED
      BY <2>1, <2>2, <1>1
  <1> HIDE DEF new, n
  <1> QED
    BY <1>1, <1>2 DEF Chain, new

\* What a step of a session does to its turns and its intent.
LEMMA HistoryStep ==
  ASSUME Typed, [Next]_vars
  PROVE  \/ UNCHANGED <<turns, intent>>
         \/ \E s \in Session : /\ turns' = [turns EXCEPT ![s] = <<>>]
                                /\ intent' = [intent EXCEPT ![s] = 0]
         \/ \E s \in Session, m \in Message, updates \in BOOLEAN,
               status \in {"success", "reused", "error"}, slate \in Nat,
               pipeline \in Nat, from \in Nat :
                 Advance(s, m, updates, status, slate, pipeline, from)
  <1> DEFINE Advances == \E s \in Session, m \in Message, updates \in BOOLEAN,
               status \in {"success", "reused", "error"}, slate \in Nat,
               pipeline \in Nat, from \in Nat :
                 Advance(s, m, updates, status, slate, pipeline, from)
  <1>1. ASSUME NEW s \in Session, NEW updates \in BOOLEAN, at[s] # "idle",
               FailedTurn(s, updates)
        PROVE  Advances
    <2>1. message[s] \in Message /\ PreviousSlate(s) \in Nat
      BY <1>1, SlateTyped DEF Typed
    <2>2. Advance(s, message[s], updates, "error", PreviousSlate(s), 0, 0)
      BY <1>1 DEF FailedTurn
    <2> QED
      BY <2>1, <2>2
  <1>2. ASSUME NEW s \in Session, NEW m \in Message, Reuse(s, m)
        PROVE  Advances
    <2>1. /\ PreviousSlate(s) \in Nat
          /\ lastPipeline[s] \in Nat /\ reusableFrom[s] \in Nat
      BY SlateTyped DEF Typed
    <2>2. Advance(s, m, FALSE, "reused", PreviousSlate(s), lastPipeline[s],
                  reusableFrom[s])
      BY <1>2 DEF Reuse
    <2> QED
      BY <2>1, <2>2
  <1>3. ASSUME NEW s \in Session, Finish(s)
        PROVE  Advances
    <2>1. PICK n \in Nat : n = NextTurn(s)
      BY DEF NextTurn, Typed
    <2>2. message[s] \in Message /\ resolved[s] \in BOOLEAN
      BY <1>3 DEF Finish, Typed
    <2>3. Advance(s, message[s], resolved[s], "success", n, n, 0)
      BY <1>3, <2>1 DEF Finish
    <2> QED
      BY <2>2, <2>3
  <1>4. ASSUME NEW s \in Session,
               UnderstandingFails(s) \/ CompileFails(s) \/ SearchFails(s)
        PROVE  Advances
    <2>1. resolved[s] \in BOOLEAN /\ at[s] # "idle"
      BY <1>4 DEF Typed, UnderstandingFails, CompileFails, SearchFails
    <2>2. FailedTurn(s, FALSE) \/ FailedTurn(s, resolved[s])
      BY <1>4 DEF UnderstandingFails, CompileFails, SearchFails
    <2> HIDE DEF Advances
    <2> QED
      BY <1>1, <2>1, <2>2
  <1>5. ASSUME NEW s \in Session, Reset(s)
        PROVE  /\ turns' = [turns EXCEPT ![s] = <<>>]
               /\ intent' = [intent EXCEPT ![s] = 0]
    BY <1>5 DEF Reset
  <1>6. ASSUME NEW s \in Session,
               \/ \E m \in Message : Respond(s, m)
               \/ RetryUnderstanding(s)
               \/ \E updates \in BOOLEAN : Understand(s, updates)
               \/ Compile(s) \/ AcquireModel(s) \/ Ranking(s)
               \/ (\E ok \in BOOLEAN : Estimated(s, ok))
               \/ Searched(s) \/ Reranked(s) \/ ComposeRaises(s)
        PROVE  UNCHANGED <<turns, intent>>
    BY <1>6 DEF session, Respond, RetryUnderstanding, Understand, Compile,
               AcquireModel, AcquireReranker, Acquire, Ranking, Coordinate,
               FormalOrder, Estimated, Searched, Reranked, ComposeRaises
  <1>7. CASE UNCHANGED vars
    BY <1>7 DEF vars, session
  <1> HIDE DEF Advances
  <1>8. CASE Next
    <2>1. PICK s \in Session :
             \/ Reset(s)
             \/ \E m \in Message : Respond(s, m) \/ Reuse(s, m)
             \/ Understanding(s) \/ Compiling(s) \/ AcquireModel(s)
             \/ ModelReturns(s) \/ Ranking(s) \/ Answering(s)
      BY <1>8 DEF Next
    <2>2. \/ Reset(s) \/ Advances \/ UNCHANGED <<turns, intent>>
      BY <2>1, <1>2, <1>3, <1>4, <1>6
         DEF Understanding, Compiling, ModelReturns, Answering
    <2> QED
      BY <2>2, <1>5 DEF Advances
  <1> QED
    BY <1>7, <1>8 DEF Advances

LEMMA ChainsStep ==
  ASSUME Typed, Chains, [Next]_vars
  PROVE  Chains'
  <1>1. CASE UNCHANGED <<turns, intent>>
    BY <1>1 DEF Chains
  <1>2. ASSUME NEW s \in Session, turns' = [turns EXCEPT ![s] = <<>>],
               intent' = [intent EXCEPT ![s] = 0]
        PROVE  Chains'
    <2>1. Chain(<<>>, 0)
      BY DEF Chain
    <2> QED
      BY <1>2, <2>1 DEF Chains, Typed
  <1>3. ASSUME NEW s \in Session, NEW m \in Message, NEW updates \in BOOLEAN,
               NEW status \in {"success", "reused", "error"}, NEW slate \in Nat,
               NEW pipeline \in Nat, NEW from \in Nat,
               Advance(s, m, updates, status, slate, pipeline, from)
        PROVE  Chains'
    <2> DEFINE after == IF updates THEN intent[s] + 1 ELSE intent[s]
               rec == [message |-> m, before |-> intent[s], after |-> after,
                       updates |-> updates, status |-> status, shown |-> slate,
                       pipeline |-> pipeline, from |-> from]
    <2>1. after \in Nat /\ intent[s] \in Nat /\ turns[s] \in Seq(Turn)
      BY DEF Typed
    <2>2. /\ rec \in Turn /\ rec.before = intent[s] /\ rec.after = after
          /\ rec.after = intent[s] + (IF rec.updates THEN 1 ELSE 0)
      BY <2>1 DEF Turn
    <2>3. turns' = [turns EXCEPT ![s] = Append(@, rec)]
      BY <1>3 DEF Advance
    <2>4. intent' = [intent EXCEPT ![s] = after]
      BY <1>3 DEF Advance
    <2> HIDE DEF rec, after
    <2>5. Chain(Append(turns[s], rec), rec.after)
      BY <2>1, <2>2, ChainGrows DEF Chains
    <2> QED
      BY <2>2, <2>3, <2>4, <2>5 DEF Chains, Typed
  <1> QED
    BY <1>1, <1>2, <1>3, HistoryStep

\* Through every answer, repeated answer and failure the versions of a
\* session's turns form a chain without gaps that ends in the intent the next
\* turn starts from (_advance_context, _failed_turn, _reuse_noop_turn).
THEOREM VersionsOfTurnsChain == Spec => []VersionsChain
  <1>1. Init => Chains
    <2>1. Chain(<<>>, 0)
      BY DEF Chain
    <2> QED
      BY <2>1 DEF Init, Chains
  <1>2. Inv /\ Chains /\ [Next]_vars => Chains'
    BY ChainsStep DEF Inv
  <1>3. Inv /\ Chains => VersionsChain
    <2> SUFFICES ASSUME Inv, Chains, NEW s \in Session
                 PROVE  LET ts == turns[s]
                            version == [i \in 0..Len(ts) |->
                                          IF i = 0 THEN 0 ELSE ts[i].after]
                        IN  /\ intent[s] = version[Len(ts)]
                            /\ \A i \in 1..Len(ts) :
                                  /\ ts[i].before = version[i - 1]
                                  /\ ts[i].after = ts[i].before +
                                       (IF ts[i].updates THEN 1 ELSE 0)
      BY DEF VersionsChain
    <2>1. Len(turns[s]) \in Nat /\ Chain(turns[s], intent[s])
      BY DEF Inv, Typed, Chains
    <2>2. \A i \in 1..Len(turns[s]) : i - 1 \in 0..Len(turns[s])
                                       /\ (i - 1 = 0 <=> i = 1)
      BY <2>1
    <2>3. Len(turns[s]) \in 0..Len(turns[s])
      BY <2>1
    <2> QED
      BY <2>1, <2>2, <2>3 DEF Chain
  <1> QED
    BY <1>1, <1>2, <1>3, InvAlways, PTL DEF Spec

-----------------------------------------------------------------------------
(* The cached answer and the previous estimate.                            *)

\* What a step does to a session: nothing, a reset, a repeated answer, a
\* failed turn or an answered one.
Failed(s, m, updates) ==
    /\ Advance(s, m, updates, "error", PreviousSlate(s), 0, 0)
    /\ reusableKey' = [reusableKey EXCEPT ![s] = NoKey]
    /\ reusableFrom' = [reusableFrom EXCEPT ![s] = 0]
    /\ UNCHANGED <<estimated, lastPipeline>>

LEMMA SessionStep ==
  ASSUME Typed, [Next]_vars
  PROVE  \/ UNCHANGED session
         \/ \E s \in Session : Reset(s)
         \/ \E s \in Session, m \in Message : Reuse(s, m)
         \/ \E s \in Session, m \in Message, updates \in BOOLEAN :
               Failed(s, m, updates)
         \/ \E s \in Session : Finish(s)
  <1>1. ASSUME NEW s \in Session, NEW updates \in BOOLEAN, at[s] # "idle",
               FailedTurn(s, updates)
        PROVE  \E m \in Message : Failed(s, m, updates)
    BY <1>1 DEF Typed, FailedTurn, Failed
  <1>2. ASSUME NEW s \in Session,
               UnderstandingFails(s) \/ CompileFails(s) \/ SearchFails(s)
        PROVE  \E m \in Message, updates \in BOOLEAN : Failed(s, m, updates)
    <2>1. resolved[s] \in BOOLEAN /\ at[s] # "idle"
      BY <1>2 DEF Typed, UnderstandingFails, CompileFails, SearchFails
    <2>2. FailedTurn(s, FALSE) \/ FailedTurn(s, resolved[s])
      BY <1>2 DEF UnderstandingFails, CompileFails, SearchFails
    <2> QED
      BY <1>1, <2>1, <2>2
  <1>3. ASSUME NEW s \in Session,
               \/ \E m \in Message : Respond(s, m)
               \/ RetryUnderstanding(s)
               \/ \E updates \in BOOLEAN : Understand(s, updates)
               \/ Compile(s) \/ AcquireModel(s) \/ Ranking(s)
               \/ (\E ok \in BOOLEAN : Estimated(s, ok))
               \/ Searched(s) \/ Reranked(s) \/ ComposeRaises(s)
        PROVE  UNCHANGED session
    BY <1>3 DEF Respond, RetryUnderstanding, Understand, Compile,
               AcquireModel, AcquireReranker, Acquire, Ranking, Coordinate,
               FormalOrder, Estimated, Searched, Reranked, ComposeRaises
  <1>4. CASE UNCHANGED vars
    BY <1>4 DEF vars
  <1>5. CASE Next
    <2>1. PICK s \in Session :
             \/ Reset(s)
             \/ \E m \in Message : Respond(s, m) \/ Reuse(s, m)
             \/ Understanding(s) \/ Compiling(s) \/ AcquireModel(s)
             \/ ModelReturns(s) \/ Ranking(s) \/ Answering(s)
      BY <1>5 DEF Next
    <2> QED
      BY <2>1, <1>2, <1>3 DEF Understanding, Compiling, ModelReturns, Answering
  <1> QED
    BY <1>4, <1>5

\* The i-th of the turns ts repeats the answer of turn f.
Repeats(ts, i, f) == /\ f \in 1..(i - 1)
                     /\ ts[f].status = "success" /\ ~ts[f].updates
                     /\ ts[f].message = ts[i].message
                     /\ ts[f].after = ts[i].after
                     /\ ts[f].shown = ts[i].shown
                     /\ ts[f].pipeline = ts[i].pipeline
                     /\ \A j \in (f + 1)..(i - 1) : ts[j].status = "reused"
Faithful(ts) == \A i \in 1..Len(ts) :
                   ts[i].status = "reused" => Repeats(ts, i, ts[i].from)

\* While a key is kept, the turn it was made in is the last one the pipeline
\* answered, and last_response and last_pipeline are still that turn's.
Cached(ts, key, from, pipeline, slate) ==
    key.message \in Message =>
       /\ from \in 1..Len(ts)
       /\ ts[from].status = "success" /\ ~ts[from].updates
       /\ ts[from].message = key.message /\ ts[from].after = key.version
       /\ ts[from].pipeline = pipeline
       /\ slate = Some(ts[from].shown)
       /\ \A j \in (from + 1)..Len(ts) : ts[j].status = "reused"

Answered(ts, versions) ==
    \A v \in versions : \E i \in 1..Len(ts) : /\ ts[i].status = "success"
                                              /\ ts[i].after = v

Cache == /\ DOMAIN estimated = Session
         /\ \A s \in Session :
              /\ Faithful(turns[s])
              /\ Cached(turns[s], reusableKey[s], reusableFrom[s],
                        lastPipeline[s], lastSlate[s])
              /\ Answered(turns[s], estimated[s])

LEMMA FaithfulGrows ==
  ASSUME NEW ts \in Seq(Turn), Faithful(ts), NEW rec \in Turn,
         rec.status = "reused" => Repeats(Append(ts, rec), Len(ts) + 1, rec.from)
  PROVE  Faithful(Append(ts, rec))
  <1> DEFINE n == Len(ts)
             new == Append(ts, rec)
  <1>1. /\ n \in Nat /\ Len(new) = n + 1 /\ new[n + 1] = rec
        /\ \A i \in 1..n : new[i] = ts[i]
    OBVIOUS
  <1>2. ASSUME NEW i \in 1..n, ts[i].status = "reused"
        PROVE  Repeats(new, i, ts[i].from)
    <2>1. Repeats(ts, i, ts[i].from)
      BY <1>2 DEF Faithful
    <2>2. /\ ts[i].from \in 1..n
          /\ \A j \in (ts[i].from + 1)..(i - 1) : j \in 1..n
      BY <1>1, <2>1 DEF Repeats
    <2>3. /\ new[i] = ts[i] /\ new[ts[i].from] = ts[ts[i].from]
          /\ \A j \in (ts[i].from + 1)..(i - 1) : new[j] = ts[j]
      BY <1>1, <1>2, <2>2
    <2> HIDE DEF new, n
    <2> QED
      BY <2>1, <2>3 DEF Repeats
  <1>3. \A i \in 1..(n + 1) : i \in 1..n \/ i = n + 1
    BY <1>1
  <1> HIDE DEF new, n
  <1> QED
    BY <1>1, <1>2, <1>3 DEF Faithful, new, n

LEMMA AnsweredGrows ==
  ASSUME NEW ts \in Seq(Turn), NEW rec \in Turn, NEW versions, NEW more,
         Answered(ts, versions),
         \A v \in more : v \in versions \/ (rec.status = "success" /\ rec.after = v)
  PROVE  Answered(Append(ts, rec), more)
  <1> DEFINE n == Len(ts)
             new == Append(ts, rec)
  <1>1. /\ n \in Nat /\ Len(new) = n + 1 /\ new[n + 1] = rec
        /\ \A i \in 1..n : new[i] = ts[i] /\ i \in 1..(n + 1)
        /\ n + 1 \in 1..(n + 1)
    OBVIOUS
  <1> HIDE DEF new, n
  <1> QED
    BY <1>1 DEF Answered, new, n

\* A turn that answers from the cache.
LEMMA CacheReuse ==
  ASSUME Typed, Cache, NEW s \in Session, NEW m \in Message, Reuse(s, m)
  PROVE  Cache'
  <1> DEFINE ts == turns[s]
             n == Len(ts)
             f == reusableFrom[s]
             after == IF FALSE THEN intent[s] + 1 ELSE intent[s]
             rec == [message |-> m, before |-> intent[s], after |-> after,
                     updates |-> FALSE, status |-> "reused",
                     shown |-> PreviousSlate(s), pipeline |-> lastPipeline[s],
                     from |-> f]
             new == Append(ts, rec)
  <1>1. /\ ts \in Seq(Turn) /\ n \in Nat /\ intent[s] \in Nat
        /\ f \in Nat /\ lastPipeline[s] \in Nat /\ PreviousSlate(s) \in Nat
    BY SlateTyped DEF Typed
  <1>2. /\ rec \in Turn /\ rec.message = m /\ rec.after = intent[s]
        /\ rec.status = "reused" /\ rec.shown = PreviousSlate(s)
        /\ rec.pipeline = lastPipeline[s] /\ rec.from = f
    BY <1>1 DEF Turn
  <1>3. /\ turns' = [turns EXCEPT ![s] = new]
        /\ lastSlate' = [lastSlate EXCEPT ![s] = Some(PreviousSlate(s))]
        /\ UNCHANGED <<estimated, lastPipeline, reusableKey, reusableFrom>>
    BY DEF Reuse, Advance
  <1>4. reusableKey[s].message = m /\ reusableKey[s].version = intent[s]
    BY DEF Reuse, Reusable, Key
  <1>5. /\ f \in 1..n
        /\ ts[f].status = "success" /\ ~ts[f].updates
        /\ ts[f].message = m /\ ts[f].after = intent[s]
        /\ ts[f].pipeline = lastPipeline[s]
        /\ lastSlate[s] = Some(ts[f].shown)
        /\ \A j \in (f + 1)..n : ts[j].status = "reused"
    BY <1>4 DEF Cache, Cached
  <1>6. PreviousSlate(s) = ts[f].shown
    <2>1. lastSlate[s] # None
      BY <1>5 DEF Some, None
    <2>2. (CHOOSE k \in {ts[f].shown} : TRUE) = ts[f].shown
      OBVIOUS
    <2> QED
      BY <1>5, <2>1, <2>2 DEF PreviousSlate, Some
  <1>7. /\ Len(new) = n + 1 /\ new[n + 1] = rec
        /\ \A i \in 1..n : new[i] = ts[i]
    BY <1>1, <1>2
  <1> HIDE DEF new, rec, n, ts, f
  <1>8. Repeats(new, n + 1, rec.from)
    <2>1. (n + 1) - 1 = n /\ \A j \in (f + 1)..n : j \in 1..n
      BY <1>1, <1>5
    <2> QED
      BY <1>2, <1>5, <1>6, <1>7, <2>1 DEF Repeats
  <1>9. Faithful(new)
    BY <1>1, <1>2, <1>8, FaithfulGrows DEF Cache, ts, new, n
  <1>10. Cached(new, reusableKey[s], f, lastPipeline[s],
                Some(PreviousSlate(s)))
    <2>1. \A j \in (f + 1)..(n + 1) : j \in (f + 1)..n \/ j = n + 1
      BY <1>1, <1>5
    <2>2. f \in 1..(n + 1) /\ \A j \in (f + 1)..n : j \in 1..n
      BY <1>1, <1>5
    <2> QED
      BY <1>2, <1>4, <1>5, <1>6, <1>7, <2>1, <2>2 DEF Cached
  <1>11. Answered(new, estimated[s])
    BY <1>1, <1>2, AnsweredGrows DEF Cache, ts, new
  <1> QED
    BY <1>3, <1>9, <1>10, <1>11 DEF Cache, Typed, f

\* A turn that the pipeline answered, or that failed.
LEMMA CacheGrows ==
  ASSUME Typed, Cache, NEW s \in Session, NEW rec \in Turn,
         rec.status # "reused",
         turns' = [turns EXCEPT ![s] = Append(@, rec)],
         DOMAIN estimated' = Session,
         \A r \in Session \ {s} : /\ estimated'[r] = estimated[r]
                                  /\ lastSlate'[r] = lastSlate[r]
                                  /\ lastPipeline'[r] = lastPipeline[r]
                                  /\ reusableKey'[r] = reusableKey[r]
                                  /\ reusableFrom'[r] = reusableFrom[r],
         Cached(Append(turns[s], rec), reusableKey'[s], reusableFrom'[s],
                lastPipeline'[s], lastSlate'[s]),
         \A v \in estimated'[s] : \/ v \in estimated[s]
                                  \/ rec.status = "success" /\ rec.after = v
  PROVE  Cache'
  <1>1. turns[s] \in Seq(Turn)
    BY DEF Typed
  <1>2. Faithful(Append(turns[s], rec))
    BY <1>1, FaithfulGrows DEF Cache
  <1>3. Answered(Append(turns[s], rec), estimated'[s])
    BY <1>1, AnsweredGrows DEF Cache
  <1>4. /\ turns'[s] = Append(turns[s], rec)
        /\ \A r \in Session \ {s} : turns'[r] = turns[r]
    BY DEF Typed
  <1>5. ASSUME NEW r \in Session
        PROVE  /\ Faithful(turns'[r])
               /\ Cached(turns'[r], reusableKey'[r], reusableFrom'[r],
                         lastPipeline'[r], lastSlate'[r])
               /\ Answered(turns'[r], estimated'[r])
    <2>1. CASE r = s
      BY <1>2, <1>3, <1>4, <2>1
    <2>2. CASE r # s
      BY <1>4, <2>2 DEF Cache
    <2> QED
      BY <2>1, <2>2
  <1> QED
    BY <1>5 DEF Cache

LEMMA NoKeyCached ==
  ASSUME NEW ts, NEW from, NEW pipeline, NEW slate
  PROVE  Cached(ts, NoKey, from, pipeline, slate)
  BY AgentTurnConstants DEF Cached, NoKey

LEMMA CacheFailed ==
  ASSUME Typed, Cache, NEW s \in Session, NEW m \in Message,
         NEW updates \in BOOLEAN, Failed(s, m, updates)
  PROVE  Cache'
  <1> DEFINE after == IF updates THEN intent[s] + 1 ELSE intent[s]
             rec == [message |-> m, before |-> intent[s], after |-> after,
                     updates |-> updates, status |-> "error",
                     shown |-> PreviousSlate(s), pipeline |-> 0, from |-> 0]
  <1>1. rec \in Turn /\ rec.status # "reused"
    <2>1. intent[s] \in Nat /\ after \in Nat /\ PreviousSlate(s) \in Nat
      BY SlateTyped DEF Typed
    <2> QED
      BY <2>1 DEF Turn
  <1>2. /\ turns' = [turns EXCEPT ![s] = Append(@, rec)]
        /\ lastSlate' = [lastSlate EXCEPT ![s] = Some(PreviousSlate(s))]
        /\ reusableKey' = [reusableKey EXCEPT ![s] = NoKey]
        /\ reusableFrom' = [reusableFrom EXCEPT ![s] = 0]
        /\ UNCHANGED <<estimated, lastPipeline>>
    BY DEF Failed, Advance
  <1> HIDE DEF rec, after
  <1>3. reusableKey'[s] = NoKey
    BY <1>2 DEF Typed
  <1>4. Cached(Append(turns[s], rec), reusableKey'[s], reusableFrom'[s],
               lastPipeline'[s], lastSlate'[s])
    BY <1>3, NoKeyCached
  <1>5. /\ DOMAIN estimated' = Session
        /\ \A v \in estimated'[s] : v \in estimated[s]
        /\ \A r \in Session \ {s} : /\ estimated'[r] = estimated[r]
                                    /\ lastSlate'[r] = lastSlate[r]
                                    /\ lastPipeline'[r] = lastPipeline[r]
                                    /\ reusableKey'[r] = reusableKey[r]
                                    /\ reusableFrom'[r] = reusableFrom[r]
    BY <1>2 DEF Cache, Typed
  <1>6. turns' = [turns EXCEPT ![s] = Append(@, rec)]
    BY <1>2
  <1> QED
    BY <1>1, <1>4, <1>5, <1>6, CacheGrows

LEMMA CacheFinish ==
  ASSUME Typed, Cache, NEW s \in Session, Finish(s)
  PROVE  Cache'
  <1> DEFINE n == Len(turns[s]) + 1
             after == IF resolved[s] THEN intent[s] + 1 ELSE intent[s]
             rec == [message |-> message[s], before |-> intent[s],
                     after |-> after, updates |-> resolved[s],
                     status |-> "success", shown |-> n, pipeline |-> n,
                     from |-> 0]
             new == Append(turns[s], rec)
  <1>1. /\ turns[s] \in Seq(Turn) /\ n \in Nat /\ intent[s] \in Nat
        /\ message[s] \in Message /\ resolved[s] \in BOOLEAN /\ after \in Nat
        /\ resolved[s] = FALSE => after = intent[s]
    BY DEF Finish, Typed
  <1>2. /\ rec \in Turn /\ rec.status = "success" /\ rec.after = after
        /\ rec.message = message[s] /\ rec.updates = resolved[s]
        /\ rec.shown = n /\ rec.pipeline = n
    BY <1>1 DEF Turn
  <1>3. /\ turns' = [turns EXCEPT ![s] = new]
        /\ intent' = [intent EXCEPT ![s] = after]
        /\ lastSlate' = [lastSlate EXCEPT ![s] = Some(n)]
    BY DEF Finish, Advance, NextTurn
  <1>4. /\ reusableKey' = [reusableKey EXCEPT ![s] =
                             IF resolved[s] THEN NoKey
                             ELSE Key(message[s], intent[s])]
        /\ reusableFrom' = [reusableFrom EXCEPT ![s] =
                              IF resolved[s] THEN 0 ELSE n]
        /\ lastPipeline' = [lastPipeline EXCEPT ![s] = n]
        /\ \/ estimated' = [estimated EXCEPT ![s] = Some(intent'[s])]
           \/ estimated' = estimated
    BY DEF Finish, NextTurn
  <1>5. Len(new) = n /\ new[n] = rec
    BY <1>1, <1>2
  <1> HIDE DEF new, rec, after, n
  <1>6. Cached(new, reusableKey'[s], reusableFrom'[s], lastPipeline'[s],
               lastSlate'[s])
    <2>1. CASE resolved[s]
      <3>1. reusableKey'[s] = NoKey
        BY <1>4, <2>1 DEF Typed
      <3> QED
        BY <3>1, NoKeyCached
    <2>2. CASE ~resolved[s]
      <3>1. /\ reusableKey'[s] = Key(message[s], intent[s])
            /\ reusableFrom'[s] = n /\ lastPipeline'[s] = n
            /\ lastSlate'[s] = Some(n)
        BY <1>3, <1>4, <2>2 DEF Typed
      <3>2. n \in 1..n /\ \A j \in (n + 1)..n : FALSE
        BY <1>1 DEF n
      <3> QED
        BY <1>1, <1>2, <1>5, <2>2, <3>1, <3>2 DEF Cached, Key
    <2> QED
      BY <2>1, <2>2
  <1>7. \A v \in estimated'[s] : v \in estimated[s] \/ rec.after = v
    BY <1>2, <1>3, <1>4 DEF Cache, Typed, Some
  <1>8. turns' = [turns EXCEPT ![s] = Append(@, rec)]
    BY <1>3 DEF new
  <1>9. DOMAIN estimated' = Session
    BY <1>4 DEF Cache
  <1>10. Cached(Append(turns[s], rec), reusableKey'[s], reusableFrom'[s],
                lastPipeline'[s], lastSlate'[s])
    BY <1>6 DEF new
  <1>11. \A r \in Session \ {s} : /\ estimated'[r] = estimated[r]
                                  /\ lastSlate'[r] = lastSlate[r]
                                  /\ lastPipeline'[r] = lastPipeline[r]
                                  /\ reusableKey'[r] = reusableKey[r]
                                  /\ reusableFrom'[r] = reusableFrom[r]
    BY <1>3, <1>4 DEF Cache, Typed
  <1> QED
    BY <1>2, <1>7, <1>8, <1>9, <1>10, <1>11, CacheGrows

LEMMA CacheReset ==
  ASSUME Typed, Cache, NEW s \in Session, Reset(s)
  PROVE  Cache'
  <1>1. Faithful(<<>>) /\ Answered(<<>>, None)
    BY DEF Faithful, Answered, None
  <1>2. /\ turns'[s] = <<>> /\ estimated'[s] = None /\ reusableKey'[s] = NoKey
        /\ DOMAIN estimated' = Session
        /\ \A r \in Session \ {s} : /\ turns'[r] = turns[r]
                                    /\ estimated'[r] = estimated[r]
                                    /\ lastSlate'[r] = lastSlate[r]
                                    /\ lastPipeline'[r] = lastPipeline[r]
                                    /\ reusableKey'[r] = reusableKey[r]
                                    /\ reusableFrom'[r] = reusableFrom[r]
    BY DEF Reset, Typed, Cache
  <1>3. Cached(turns'[s], reusableKey'[s], reusableFrom'[s], lastPipeline'[s],
               lastSlate'[s])
    BY <1>2, NoKeyCached
  <1>4. ASSUME NEW r \in Session
        PROVE  /\ Faithful(turns'[r])
               /\ Cached(turns'[r], reusableKey'[r], reusableFrom'[r],
                         lastPipeline'[r], lastSlate'[r])
               /\ Answered(turns'[r], estimated'[r])
    <2>1. CASE r = s
      BY <1>1, <1>2, <1>3, <2>1
    <2>2. CASE r # s
      BY <1>2, <2>2 DEF Cache
    <2> QED
      BY <2>1, <2>2
  <1> QED
    BY <1>2, <1>4 DEF Cache

LEMMA CacheStep == Inv /\ Cache /\ [Next]_vars => Cache'
  <1> SUFFICES ASSUME Inv, Cache, [Next]_vars PROVE Cache'
    OBVIOUS
  <1>1. Typed
    BY DEF Inv
  <1>2. CASE UNCHANGED session
    BY <1>2 DEF session, Cache
  <1> QED
    BY <1>1, <1>2, SessionStep, CacheReset, CacheReuse, CacheFailed, CacheFinish

LEMMA CacheAlways == Spec => [](Inv /\ Cache)
  <1>1. Init => Cache
    <2>1. Faithful(<<>>) /\ Answered(<<>>, None)
      BY DEF Faithful, Answered, None
    <2> QED
      BY <2>1, NoKeyCached DEF Init, Cache
  <1> QED
    BY <1>1, CacheStep, InvAlways, PTL DEF Spec

\* A repeated answer is that of the same message under the same intent, and
\* every turn between the two only repeated it: a failure, an update or
\* another message drops the key (_reuse_noop_turn, _failed_turn).
THEOREM RepeatedAnswersFaithful == Spec => []ReuseFaithful
  <1>1. Inv /\ Cache => ReuseFaithful
    BY DEF Cache, Faithful, Repeats, ReuseFaithful
  <1> QED
    BY <1>1, CacheAlways, PTL

\* The estimate the next turn compares with is that of an answered turn, for
\* the intent version that turn left.
THEOREM EstimatesAreOfTurns == Spec => []EstimateOfATurn
  <1>1. Inv /\ Cache => EstimateOfATurn
    BY DEF Cache, Answered, EstimateOfATurn
  <1> QED
    BY <1>1, CacheAlways, PTL
=============================================================================
