-------------------------- MODULE CatalogSession --------------------------
(***************************************************************************)
(* One session of the catalog-bound store (catalog/semantic/gateway/       *)
(* store.py and envelope.py over session_context): a transaction captures  *)
(* the committed context under the session's lock, previews a batch that   *)
(* its caller builds operation by operation, may have a probe of the       *)
(* previewed intent attested by a token, and commits once.                 *)
(*                                                                         *)
(* The lock makes the transactions of a session follow each other, so one  *)
(* open transaction at a time is the whole concurrency of this component   *)
(* (SessionStore models the lock itself).  A transaction that was left     *)
(* without a commit leaves its tokens behind.                              *)
(***************************************************************************)
EXTENDS CatalogGateway

CONSTANTS AddShapes,     \* meanings a caller adds: LogicalKey records
          ReplaceShapes, \* meanings a caller replaces a facet with
          ClearedFacets, \* facets a caller clears or declares irrelevant
          Goals, NoGoal,
          NoBatch, NoBelief, NoToken,
          Scalars,   \* scalars of categorical facets, one that no shape names
          Grid,      \* twice the numbers a numeric facet is tried with
          MaxTxns,   \* bound: transactions opened in a session
          MaxOps,    \* bound: operations of one batch
          OpBudget,  \* bound: operations tried in a session
          MaxProbes, \* bound: tokens issued in a session
          ProbeTxns  \* bound: transactions that may issue one

----------------------------------------------------------------------------
(* The data of a session *)

Shapes == AddShapes \cup ReplaceShapes
Names == UNION {s.value : s \in Shapes}

Operators == PositiveOps \cup NegativeOps \cup LowerOps \cup UpperOps \cup Polarities

Meanings ==
    [facet : Facets \cup {SemanticOnly}, op : Operators, value : SUBSET Names,
     text : Texts \cup {NoText}, commitment : {"hard", "soft"},
     source : {"explicit", "inferred"}, confidence : Confidences]

\* A preference id: turn, operation index, preference index.
PrefIds == Nat \X Nat \X Nat

Preferences ==
    [id : PrefIds, facet : Facets \cup {SemanticOnly}, op : Operators,
     value : SUBSET Names, text : Texts \cup {NoText},
     commitment : {"hard", "soft"}, source : {"explicit", "inferred"},
     confidence : Confidences]

OperationRecords ==
    [op : {"add"}, pref : Preferences]
    \cup [op : {"replace"}, facet : Facets, prefs : Seq(Preferences)]
    \cup [op : {"remove"}, ids : Seq(PrefIds)]
    \cup [op : {"clear", "dont_care"}, facet : Facets]
    \cup [op : {"switch"}, goal : Goals, carry : Seq(PrefIds)]

Batches == [turn : Nat, base : Nat, ops : Seq(OperationRecords)]

\* Bounds are whole numbers.  What tells a satisfiable intent from another
\* is tried: around each bound, and a scalar that nothing names.
ASSUME SessionAssumption ==
    /\ Shapes \subseteq Meanings
    /\ \A s \in Shapes : IsFiniteSet(s.value)
    /\ NoBatch \notin Batches
    /\ Grid # {} /\ Grid \subseteq Int
    /\ \A s \in Shapes : s.facet \in NumericFacets =>
           /\ s.value \subseteq Int
           /\ \A n \in s.value : {2 * n - 1, 2 * n, 2 * n + 1} \subseteq Grid
    /\ \A s \in Shapes : s.facet \in Facets \ NumericFacets => s.value \subseteq Scalars
    /\ \E v \in Scalars : \A s \in Shapes :
           s.facet \in Facets \ NumericFacets => v \notin s.value

VARIABLES intent,    \* the committed intent
          log,       \* the committed turns: [turn, batch]
          belief,    \* the committed search belief
          txn,       \* the number of the open transaction, 0 for none
          opened,    \* transactions opened so far
          attempted, \* the open transaction has tried to commit
          ops,       \* the operations of the batch being built
          spent,     \* operations tried so far
          red,       \* the reduction of these operations: [ok, work, known]
          tokens     \* the probe tokens issued so far

committed == <<intent, log, belief>>
building == <<ops, red, spent>>
vars == <<intent, log, belief, txn, opened, attempted, ops, red, spent, tokens>>

EmptyIntent == [goal |-> NoGoal, prefs |-> {}, dontCare |-> {}, version |-> 0]

Turn == Len(log) + 1

Batch == [turn |-> Turn, base |-> intent.version, ops |-> ops]

Init ==
    /\ intent = EmptyIntent
    /\ log = <<>>
    /\ belief = NoBelief
    /\ txn = 0
    /\ opened = 0
    /\ attempted = FALSE
    /\ ops = <<>>
    /\ red = Start(EmptyIntent)
    /\ spent = 0
    /\ tokens = {}

----------------------------------------------------------------------------
(* A transaction and the batch its caller builds *)

\* __enter__: the context is captured under the lock.
Open ==
    /\ txn = 0
    /\ opened < MaxTxns
    /\ txn' = opened + 1
    /\ opened' = opened + 1
    /\ attempted' = FALSE
    /\ ops' = <<>>
    /\ red' = Start(intent)
    /\ UNCHANGED <<committed, spent, tokens>>

WithId(s, id) ==
    [id |-> id, facet |-> s.facet, op |-> s.op, value |-> s.value,
     text |-> s.text, commitment |-> s.commitment, source |-> s.source,
     confidence |-> s.confidence]

\* The operations a caller may put at place k of its batch.  It adds a known
\* preference, also one removed meanwhile, a new one under the id of its
\* place, or a new one under an id that an earlier turn may have allocated.
Additions(k) ==
    {Add(p) : p \in red.known}
    \cup {Add(WithId(s, id)) : s \in AddShapes, id \in {<<Turn, k, 0>>, <<1, 0, 0>>}}

Replacements(k) ==
    {Replace(s.facet, <<WithId(s, <<Turn, k, 0>>)>>) : s \in ReplaceShapes}

Removals == {Remove(<<p.id>>) : p \in red.known}

Clearings == {Clear(f) : f \in ClearedFacets} \cup {DontCare(f) : f \in ClearedFacets}

Switches ==
    {Switch(g, <<>>) : g \in Goals}
    \cup {Switch(g, <<p.id>>) : g \in Goals, p \in intent.prefs}

Operations(k) ==
    Additions(k) \cup Replacements(k) \cup Removals \cup Clearings \cup Switches

BuildGuard ==
    /\ txn # 0
    /\ ~attempted
    /\ Len(ops) < MaxOps
    /\ spent < OpBudget

Accepts(o) ==
    /\ OperationValid(o)
    /\ o.op = "switch" => ops = <<>>
    /\ Step(red, intent.prefs, o, Turn, Len(ops)).ok

\* One operation joins the batch.
Extend(o) ==
    /\ BuildGuard
    /\ Accepts(o)
    /\ ops' = Append(ops, o)
    /\ red' = Step(red, intent.prefs, o, Turn, Len(ops))
    /\ spent' = spent + 1
    /\ UNCHANGED <<committed, txn, opened, attempted, tokens>>

\* The caller drops its batch, because an operation or the preview was
\* refused or to ask for something else, and may build another.
Discard ==
    /\ txn # 0
    /\ ops # <<>>
    /\ ~attempted
    /\ ops' = <<>>
    /\ red' = Start(intent)
    /\ UNCHANGED <<committed, spent, txn, opened, attempted, tokens>>

Build == \E o \in Operations(Len(ops)) : Extend(o)

\* The intent preview_update returns for the batch, and whether it returns.
Previewed == Snapshot(intent, red.work)
PreviewPasses ==
    \/ ops = <<>>
    \/ /\ ReservedMatrix(intent, ops)
       /\ CompleteIntent(Previewed.prefs, Previewed.dontCare)

\* _CatalogProbeProducer.issue_token, for a probe of the previewed intent.
IssueToken ==
    /\ txn # 0
    /\ ~attempted
    /\ txn <= ProbeTxns
    /\ Cardinality(tokens) < MaxProbes
    /\ PreviewPasses
    /\ tokens' = tokens \cup
           {[txn |-> txn, expected |-> Previewed, used |-> FALSE,
             belief |-> [version |-> Previewed.version, about |-> Previewed,
                         probe |-> Cardinality(tokens) + 1]]}
    /\ UNCHANGED <<committed, txn, opened, attempted, building>>

----------------------------------------------------------------------------
(* Commit *)

\* Every preference an accepted operation of the log has introduced.
Lifetime(turns) ==
    UNION {Introductions(turns[i].batch) :
              i \in {j \in DOMAIN turns : turns[j].batch # NoBatch}}

\* The replay of the accepted batches through the gateway that encoding,
\* decoding and every raw commit go through.
ReplayStep(r, batch) ==
    IF batch = NoBatch \/ ~r.ok THEN r ELSE Preview(r.intent, batch)

Replayed(turns) ==
    LET after[i \in 0..Len(turns)] ==
            IF i = 0 THEN [ok |-> TRUE, intent |-> EmptyIntent]
            ELSE ReplayStep(after[i - 1], turns[i].batch)
    IN  after[Len(turns)]

BeliefFits(b) == b # NoBelief => b.version = Previewed.version

\* Mutant: a token serves any transaction that commits its intent.
ProbeAuthorized_AnyTransaction(b, token) ==
    IF b # NoBelief /\ b # belief
    THEN /\ token # NoToken
         /\ token.expected = Previewed
         /\ token.belief = b
    ELSE token = NoToken

\* _validate_probe_authority, of a token that was not used before.
ProbeAuthorized(b, token) ==
    IF b # NoBelief /\ b # belief
    THEN /\ token # NoToken
         /\ token.txn = txn
         /\ token.expected = Previewed
         /\ token.belief = b
    ELSE token = NoToken

TokenFresh(token) == token # NoToken => ~token.used

\* Mutant: a turn without operations records an empty batch.
Record_KeepsEmptyBatch == [turn |-> Turn, batch |-> Batch]

Record == [turn |-> Turn, batch |-> IF ops = <<>> THEN NoBatch ELSE Batch]

\* What commit checks of the context it is given: the captured one with the
\* turn's record, the previewed intent and the belief b.
CommitPasses(b, token) ==
    /\ TokenFresh(token)
    /\ ops # <<>> => /\ Preview(intent, Batch).ok
                     /\ Preview(intent, Batch).intent = Previewed
                     /\ LifetimeIdsValid(intent, Batch, Lifetime(log))
    /\ IntentAllowed(Previewed)
    /\ BeliefFits(b)
    /\ ProbeAuthorized(b, token)

Consumed(token) ==
    IF token = NoToken THEN tokens
    ELSE (tokens \ {token}) \cup {[token EXCEPT !.used = TRUE]}

\* The beliefs a caller may put into the next context.
Beliefs == {NoBelief, belief} \cup {t.belief : t \in tokens}

CommitAttempt(b, token) ==
    /\ txn # 0
    /\ ~attempted
    /\ attempted' = TRUE
    /\ tokens' = Consumed(token)
    /\ IF CommitPasses(b, token)
       THEN /\ intent' = Previewed
            /\ log' = Append(log, Record)
            /\ belief' = b
       ELSE UNCHANGED committed
    /\ UNCHANGED <<txn, opened, building>>

Commit == \E b \in Beliefs, t \in tokens \cup {NoToken} : CommitAttempt(b, t)

\* __exit__: the lock is released, with or without a commit.
Exit ==
    /\ txn # 0
    /\ txn' = 0
    /\ ops' = <<>>
    /\ red' = Start(intent)
    /\ UNCHANGED <<committed, spent, opened, attempted, tokens>>

Next == Open \/ Build \/ Discard \/ IssueToken \/ Commit \/ Exit

Spec == Init /\ [][Next]_vars

----------------------------------------------------------------------------
(* What an intent admits: the reference the validators are compared with *)

Satisfies(p, v) ==
    CASE p.op = "in"     -> v \in p.value
      [] p.op = "not_in" -> v \notin p.value
      [] p.op = "lt"     -> v < 2 * NumericValue(p)
      [] p.op = "le"     -> v <= 2 * NumericValue(p)
      [] p.op = "gt"     -> v > 2 * NumericValue(p)
      [] OTHER           -> v >= 2 * NumericValue(p)

ValuesOf(facet) == IF facet \in NumericFacets THEN Grid ELSE Scalars

Admitted(prefs, facet) ==
    {v \in ValuesOf(facet) : \A p \in prefs : p.facet = facet => Satisfies(p, v)}

Committed(prefs, c) == {p \in prefs : p.commitment = c}

----------------------------------------------------------------------------
(* Properties *)

\* The committed preferences can be met together: some value of every facet
\* satisfies all of them, hard and soft, and no facet is both wanted and
\* declared irrelevant (reducer.reduce_intent, validation.py:324,377).
CommittedIntentSatisfiable ==
    \A f \in Facets :
        /\ Admitted(intent.prefs, f) # {}
        /\ f \in intent.dontCare => Admitted(intent.prefs, f) = ValuesOf(f)

\* Over a whole session, up to the batch being built, an id denotes one
\* preference, however often it was removed, switched away or replaced
\* (reducer._resolve_identity).
IdsDenoteOnePreference ==
    \A p, q \in Lifetime(log) \cup red.known :
        p.id = q.id => LogicalKey(p) = LogicalKey(q)

\* The accepted batches replay to the committed intent, so that the
\* envelope of every committed context can be encoded and decoded
\* (envelope._validate_gateway_context).
ReplayReproducesIntent ==
    Replayed(log).ok /\ Replayed(log).intent = intent

\* A batch the preview has accepted is refused by no other rule of commit:
\* the lifetime rule of the raw store agrees with the identity rule of the
\* reducer (aggregate_validation._validate_lifetime_ids).
PreviewedBatchCommits ==
    txn # 0 /\ ~attempted /\ ops # <<>> /\ PreviewPasses
        => CommitPasses(NoBelief, NoToken)

\* Adding a preference narrows its facet, at its commitment, to exactly the
\* values it allows, whichever bounds were there (reducer._add_preference).
AddNarrows ==
    [][\A p \in red.known \cup red'.known :
          ops' = Append(ops, Add(p)) /\ p.facet \in Facets
          => \A c \in {"hard", "soft"} :
                Admitted(Committed(red'.work.prefs, c), p.facet)
                = {v \in Admitted(Committed(red.work.prefs, c), p.facet) :
                      p.commitment = c => Satisfies(p, v)}]_vars

\* What a committed batch drops, by a removal or by a goal switch, does not
\* come back in the same batch under another id, unless it is understood with
\* another confidence, and the version counts exactly the commits that changed
\* something (reducer.reduce_intent, validation._logical_preference_key).
DroppedStaysDropped ==
    [][intent' # intent =>
          /\ intent'.version = intent.version + 1
          /\ Content(intent') # Content(intent)
          /\ \A p \in intent'.prefs, q \in intent.prefs :
                 LogicalKey(p) = LogicalKey(q) => p.id = q.id]_vars

\* The stored belief is one a probe gave of exactly the stored intent, not
\* of another preview with the same version; and it changes only to one
\* attested in the transaction that commits it, by a token no earlier
\* commit has tried (store.commit, store._consume_token).
BeliefsAreAttested ==
    [][belief' # NoBelief =>
          /\ belief'.about = intent'
          /\ belief' # belief =>
                \E t \in tokens : /\ t.belief = belief'
                                  /\ t.txn = txn
                                  /\ ~t.used
                                  /\ [t EXCEPT !.used = TRUE] \in tokens']_vars
============================================================================
