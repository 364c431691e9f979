--------------------------- MODULE EvaluationRun ---------------------------
(***************************************************************************)
(* main and _run_session of scripts/simulator/evaluate_full_pipeline_other *)
(* .py: a pool of workers runs one simulated conversation per sample and   *)
(* appends a line per turn to turns.jsonl, the main thread appends a line  *)
(* per finished conversation to sessions.jsonl and reports at the end, and *)
(* --resume starts again from what sessions.jsonl holds.                   *)
(*                                                                         *)
(* The agent's answer is the rank it gives the target, 0 for none.  A      *)
(* worker shares nothing with the others but the two files, so respond and *)
(* the append under turn_log_lock are one step.  The lines of a file are   *)
(* kept per sample, in file order.                                         *)
(***************************************************************************)
EXTENDS Naturals, Sequences, FiniteSets

CONSTANTS Sample,           \* the samples of the dataset
          OverrideSample,   \* those whose scenario is intent_override
          OverrideTurn,     \* the turn that brings the override
          MaxTurns,         \* --max-turns
          MaxRank,          \* the ranks an answer may give the target: 0..MaxRank
          Workers,          \* --workers
          MaxRuns,          \* bound on the times the script is started
          MaxErrors         \* bound on the conversations that raise

ASSUME EvaluationRunConstants ==
          /\ OverrideSample \subseteq Sample
          /\ MaxTurns \in Nat \ {0} /\ Workers \in Nat \ {0}
          /\ OverrideTurn \in Nat /\ MaxRank \in Nat
          /\ MaxRuns \in Nat /\ MaxErrors \in Nat

VARIABLES turnLog,     \* the lines of turns.jsonl, per sample
          sessionLog,  \* the lines of sessions.jsonl, per sample
          summary,     \* the rows summary.json reports, per sample
          main,        \* where the script is
          completed,   \* completed_rows, read from sessions.jsonl
          continueAfterHit, \* --continue-after-hit, of this start
          new,         \* new_session_rows
          future,      \* each sample's future
          turn,        \* the conversation's turn
          override,    \* override_applied
          hitTurn,     \* hit_turn, 0 for None
          bestRank,    \* best_rank, 0 for None
          runs, errors \* counted for the bounds

files == <<turnLog, sessionLog, summary>>
started == <<completed, continueAfterHit>>
conversations == <<turn, override, hitTurn, bestRank>>
vars == <<files, main, started, new, future, conversations, runs, errors>>

Row == [hit : Nat, best : Nat, turns : Nat]
NoRows == [s \in Sample |-> <<>>]

Init == /\ turnLog = NoRows
        /\ sessionLog = NoRows
        /\ summary = NoRows
        /\ main = "off"
        /\ completed = NoRows
        /\ continueAfterHit = FALSE
        /\ new = NoRows
        /\ future = [s \in Sample |-> "none"]
        /\ turn = [s \in Sample |-> 0]
        /\ override = [s \in Sample |-> FALSE]
        /\ hitTurn = [s \in Sample |-> 0]
        /\ bestRank = [s \in Sample |-> 0]
        /\ runs = 0 /\ errors = 0

-----------------------------------------------------------------------------
(* main up to the pool.                                                    *)

\* Mutant: --resume does not leave out what sessions.jsonl holds.
Unfinished_All == Sample

\* The samples without a row in sessions.jsonl.
Unfinished == {s \in Sample : sessionLog[s] = <<>>}

\* The script is started, with --resume if there are logs, and with or
\* without --continue-after-hit, whatever the start before had; it exits at
\* once when no sample is left.
Start == /\ main \in {"off", "failed"}
         /\ runs < MaxRuns
         /\ Unfinished # {}
         /\ runs' = runs + 1
         /\ main' = "collecting"
         /\ completed' = sessionLog
         /\ continueAfterHit' \in BOOLEAN
         /\ new' = NoRows
         /\ future' = [s \in Sample |->
                         IF s \in Unfinished THEN "queued" ELSE "none"]
         /\ UNCHANGED <<files, conversations, errors>>

-----------------------------------------------------------------------------
(* _run_session.                                                           *)

Running == {s \in Sample : future[s] = "running"}

\* Mutant: the pool takes no queued work once the main thread leaves it.
Begin_WhileCollecting(s) ==
    /\ future[s] = "queued"
    /\ main = "collecting"
    /\ Cardinality(Running) < Workers
    /\ future' = [future EXCEPT ![s] = "running"]
    /\ turn' = [turn EXCEPT ![s] = 1]
    /\ override' = [override EXCEPT ![s] = s \notin OverrideSample]
    /\ hitTurn' = [hitTurn EXCEPT ![s] = 0]
    /\ bestRank' = [bestRank EXCEPT ![s] = 0]
    /\ UNCHANGED <<files, main, started, new, runs, errors>>

\* A worker takes the sample: reset and the initial message.
Begin(s) == /\ future[s] = "queued"
            /\ Cardinality(Running) < Workers
            /\ future' = [future EXCEPT ![s] = "running"]
            /\ turn' = [turn EXCEPT ![s] = 1]
            /\ override' = [override EXCEPT ![s] = s \notin OverrideSample]
            /\ hitTurn' = [hitTurn EXCEPT ![s] = 0]
            /\ bestRank' = [bestRank EXCEPT ![s] = 0]
            /\ UNCHANGED <<files, main, started, new, runs, errors>>

\* scored_hit: a rank counts only after the override.
Scored(s, rank) == override[s] /\ rank > 0

\* Mutant: best_rank is the last rank.
Better_Last(best, rank) == rank

Better(best, rank) == IF best = 0 \/ rank < best THEN rank ELSE best

Ends(s, hit) == turn[s] = MaxTurns \/ (hit /\ ~continueAfterHit)

\* One round of the loop: answer, line, outcome, next message.
Turn(s, rank) ==
    LET hit == Scored(s, rank) IN
    /\ future[s] = "running"
    /\ turnLog' = [turnLog EXCEPT
                     ![s] = Append(@, [turn |-> turn[s], rank |-> rank])]
    /\ bestRank' = IF hit THEN [bestRank EXCEPT ![s] = Better(@, rank)]
                          ELSE bestRank
    /\ hitTurn' = IF hit /\ hitTurn[s] = 0
                  THEN [hitTurn EXCEPT ![s] = turn[s]] ELSE hitTurn
    /\ IF Ends(s, hit)
       THEN /\ future' = [future EXCEPT ![s] = "done"]
            /\ UNCHANGED <<turn, override>>
       ELSE /\ turn' = [turn EXCEPT ![s] = @ + 1]
            /\ override' = [override EXCEPT ![s] = @ \/ turn[s] + 1 = OverrideTurn]
            /\ UNCHANGED future
    /\ UNCHANGED <<sessionLog, summary, main, started, new, runs, errors>>

\* The agent or the surface realizer raises; the future holds the exception.
Raise(s) == /\ future[s] = "running"
            /\ errors < MaxErrors
            /\ errors' = errors + 1
            /\ future' = [future EXCEPT ![s] = "raised"]
            /\ UNCHANGED <<files, main, started, new, conversations, runs>>

-----------------------------------------------------------------------------
(* The main thread's as_completed loop, and what follows it.               *)

RowOf(s) == [hit |-> hitTurn[s], best |-> bestRank[s], turns |-> turn[s]]

Collect(s) == /\ main = "collecting"
              /\ future[s] = "done"
              /\ future' = [future EXCEPT ![s] = "collected"]
              /\ new' = [new EXCEPT ![s] = Append(@, RowOf(s))]
              /\ sessionLog' = [sessionLog EXCEPT ![s] = Append(@, RowOf(s))]
              /\ UNCHANGED <<turnLog, summary, main, started, conversations,
                             runs, errors>>

\* result() raises: the main thread leaves the pool's with block.
Leave(s) == /\ main = "collecting"
            /\ future[s] = "raised"
            /\ main' = "leaving"
            /\ UNCHANGED <<files, started, new, future, conversations, runs,
                           errors>>

\* The pool waits for every future, the queued ones too.
Fail == /\ main = "leaving"
        /\ \A s \in Sample : future[s] \notin {"queued", "running"}
        /\ main' = "failed"
        /\ UNCHANGED <<files, started, new, future, conversations, runs,
                       errors>>

\* Mutant: the summary reports the new rows only.
Reported_New == new

\* all_session_rows.
Reported == [s \in Sample |-> completed[s] \o new[s]]

Report == /\ main = "collecting"
          /\ \A s \in Sample : future[s] \in {"none", "collected"}
          /\ summary' = Reported
          /\ main' = "reported"
          /\ UNCHANGED <<turnLog, sessionLog, started, new, future,
                         conversations, runs, errors>>

\* The process dies; only the files remain.
Crash == /\ main \in {"collecting", "leaving"}
         /\ main' = "off"
         /\ completed' = NoRows
         /\ continueAfterHit' = FALSE
         /\ new' = NoRows
         /\ future' = [s \in Sample |-> "none"]
         /\ turn' = [s \in Sample |-> 0]
         /\ override' = [s \in Sample |-> FALSE]
         /\ hitTurn' = [s \in Sample |-> 0]
         /\ bestRank' = [s \in Sample |-> 0]
         /\ UNCHANGED <<files, runs, errors>>

-----------------------------------------------------------------------------

Converse(s) == \E rank \in 0..MaxRank : Turn(s, rank)

Next == \/ Start
        \/ \E s \in Sample : \/ Begin(s) \/ Converse(s) \/ Raise(s)
                             \/ Collect(s) \/ Leave(s)
        \/ Fail \/ Report \/ Crash

Spec == Init /\ [][Next]_vars

\* Workers and the main thread keep running; nobody has to start the script
\* again, and nothing has to fail.
Fairness == /\ \A s \in Sample : /\ WF_vars(Begin(s))
                                 /\ WF_vars(Converse(s))
                                 /\ WF_vars(Collect(s))
                                 /\ WF_vars(Leave(s))
            /\ WF_vars(Fail)
            /\ WF_vars(Report)

FairSpec == Spec /\ Fairness

-----------------------------------------------------------------------------
(* Properties.                                                             *)

\* However often the script dies and is resumed, a sample is counted once in
\* sessions.jsonl, hence in the metrics of every later summary.
OneRowPerSample == \A s \in Sample : Len(sessionLog[s]) <= 1

\* A row tells what the log of turns says happened in the conversation that
\* produced it: turns numbered from 1, the first hit and the best rank after
\* the override, also when an earlier, interrupted attempt logged turns too.
\* An override due in the first turn or before never comes: it is looked for
\* after a turn, for the next one.
Counts(s, line) ==
    /\ line.rank > 0
    /\ s \in OverrideSample => OverrideTurn > 1 /\ line.turn >= OverrideTurn
Agrees(s, row, lines) ==
    LET hits == {i \in 1..Len(lines) : Counts(s, lines[i])}
    IN  /\ \A i \in 1..Len(lines) : lines[i].turn = i
        /\ \/ hits = {} /\ row.hit = 0 /\ row.best = 0
           \/ /\ row.hit \in hits /\ \A i \in hits : row.hit <= i
              /\ \A i \in hits : row.best <= lines[i].rank
              /\ \E i \in hits : row.best = lines[i].rank
RowsMatchTurns ==
    \A s \in Sample : sessionLog[s] # <<>> =>
       LET row == sessionLog[s][1]
           n == Len(turnLog[s])
       IN  /\ row.turns <= n
           /\ Agrees(s, row, SubSeq(turnLog[s], n - row.turns + 1, n))

\* The summary of a run, resumed or not, reports every sample exactly once,
\* with the row sessions.jsonl has for it.
SummaryComplete ==
    main = "reported" => \A s \in Sample : /\ Len(summary[s]) = 1
                                           /\ summary[s] = sessionLog[s]

\* A run that is not killed ends, also when a conversation raises while
\* others run or wait for a worker.
RunEnds == main \in {"collecting", "leaving"} ~>
              main \in {"off", "failed", "reported"}

\* "Every turn and completed session is appended to JSONL" (README.md:241):
\* a script that ended by itself left no finished conversation without row.
CompletedSessionsAppended ==
    main = "failed" => \A s \in Sample : future[s] # "done"
=============================================================================
