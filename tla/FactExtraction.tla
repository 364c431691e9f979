--------------------------- MODULE FactExtraction ---------------------------
(***************************************************************************)
(* scripts/catalog_semantic/extract_product_fact_cards.py: a pool of       *)
(* workers asks a model for the facts of catalog rows and keeps one card   *)
(* file per product, the main thread feeds the pool through a window of    *)
(* pending futures and at the end assembles product-facts.jsonl and two    *)
(* reports.  A killed run is started again; cards that match are reused.   *)
(*                                                                         *)
(* A row is the revision its hash (source_id) names, an extractor stands   *)
(* for model, prompt version and facet language version together, and what *)
(* a card says is left out.  Lines hold different products, and one        *)
(* process at a time works on an output directory.                         *)
(***************************************************************************)
EXTENDS Naturals, FiniteSets

CONSTANTS Line,        \* the line numbers of the catalog
          Row,         \* the revisions of a row
          FirstRow,    \* the one every row starts with
          Extractor,   \* model, prompt version and language version
          LegacyLine,  \* lines that may have a card from before warnings
          MaxWorkers,  \* bound on --workers
          Retries,     \* --retries
          MaxRuns,     \* bound on the times the script is started
          MaxEdits     \* bound on the edits of the catalog

ASSUME FactExtractionConstants ==
          /\ Line \subseteq Nat /\ IsFiniteSet(Line)
          /\ FirstRow \in Row
          /\ LegacyLine \subseteq Line
          /\ {MaxWorkers, Retries, MaxRuns, MaxEdits} \subseteq Nat

VARIABLES catalog,     \* the revision of each row
          cards,       \* cards/<parent_asin>.json, per line
          temps,       \* cards/<parent_asin>.json.tmp, per line
          sidecar,     \* product-facts.jsonl
          failures,    \* failures.json
          report,      \* run.json
          args,        \* the arguments of the run and the rows it reads
          main,        \* where the main thread is
          todo,        \* the lines the iterator has not given yet
          job,         \* the future of each line
          attempt,     \* attempt, in _extract_one
          batch,       \* done
          succeeded,   \* successes
          skipped,     \* those of them that are skipped
          failed,      \* the failures
          saved,       \* history: what the last saved answer of a line was for
          runs, edits  \* counted for the bounds

files == <<cards, temps>>
outputs == <<sidecar, failures, report>>
counts == <<succeeded, skipped, failed>>
process == <<args, main, todo, job, attempt, batch, counts>>
bounds == <<runs, edits>>
vars == <<catalog, files, outputs, process, saved, bounds>>

Key(row, extractor) == [row |-> row, extractor |-> extractor]
NoKey == [row |-> 0]

\* The states of a card file.  A card from before warnings were recorded is
\* legacy.
Missing == [kind |-> "missing"]
Torn == [kind |-> "torn"]
Card(row, extractor, legacy) ==
    [kind |-> "card", key |-> Key(row, extractor), legacy |-> legacy]

NoArgs == [extractor |-> "none"]
Idle == [l \in Line |-> "none"]
Unwritten == [run |-> 0]

-----------------------------------------------------------------------------

Init ==
    /\ catalog = [l \in Line |-> FirstRow]
    /\ \E legacy \in SUBSET LegacyLine, e \in Extractor :
         /\ cards = [l \in Line |-> IF l \in legacy THEN Card(FirstRow, e, TRUE)
                                                    ELSE Missing]
         /\ saved = [l \in Line |-> IF l \in legacy THEN Key(FirstRow, e)
                                                    ELSE NoKey]
    /\ temps = [l \in Line |-> Missing]
    /\ sidecar = Unwritten /\ failures = Unwritten /\ report = Unwritten
    /\ args = NoArgs /\ main = "off"
    /\ todo = {} /\ batch = {}
    /\ job = Idle /\ attempt = [l \in Line |-> 0]
    /\ succeeded = {} /\ skipped = {} /\ failed = {}
    /\ runs = 0 /\ edits = 0

\* The script is started for some lines.  A selection that is empty ends the
\* run before it writes anything and is left out.
Start(selection, extractor, resume, workers) ==
    /\ main = "off" /\ runs < MaxRuns
    /\ runs' = runs + 1
    /\ args' = [extractor |-> extractor, resume |-> resume,
                workers |-> workers, selection |-> selection,
                rows |-> [l \in selection |-> catalog[l]]]
    /\ main' = "filling"
    /\ todo' = selection
    /\ UNCHANGED <<catalog, files, outputs, job, attempt, batch, counts,
                   saved, edits>>

-----------------------------------------------------------------------------
(* _execute: the main thread and its window of futures.                    *)

Pending == {l \in Line : job[l] # "none"}
Finished == {l \in Line : job[l] \in {"written", "skipped", "failed", "raised"}}

\* Twice as many futures as workers.
Room == Cardinality(Pending) < 2 * args.workers

\* The iterator gives the next line.
Submit(l) ==
    /\ main = "filling" /\ Room
    /\ l \in todo /\ \A k \in todo : l <= k
    /\ todo' = todo \ {l}
    /\ job' = [job EXCEPT ![l] = "queued"]
    /\ UNCHANGED <<catalog, files, outputs, args, main, attempt, batch, counts,
                   saved, bounds>>

\* A row that cannot be parsed, or a catalog that cannot be read further.
IteratorRaises ==
    /\ main = "filling" /\ Room /\ todo # {}
    /\ main' = "raising"
    /\ UNCHANGED <<catalog, files, outputs, args, todo, job, attempt, batch,
                   counts, saved, bounds>>

\* Mutant: the report is written before what it counts.
Outputs_ReportFirst == <<"report", "sidecar", "failures">>

\* The order in which main writes its three files.
Outputs == <<"sidecar", "failures", "report">>

\* Filled: wait for what is pending, or go on to the files.
Filled ==
    /\ main = "filling" /\ (Room => todo = {})
    /\ main' = IF Pending = {} THEN Outputs[1] ELSE "waiting"
    /\ UNCHANGED <<catalog, files, outputs, args, todo, job, attempt, batch,
                   counts, saved, bounds>>

\* wait(..., return_when=FIRST_COMPLETED) returns all that are done.
Wait ==
    /\ main = "waiting" /\ Finished # {}
    /\ batch' = Finished
    /\ main' = "collecting"
    /\ UNCHANGED <<catalog, files, outputs, args, todo, job, attempt, counts,
                   saved, bounds>>

\* One iteration of "for future in done"; future.result() may raise.
Collect(l) ==
    /\ main = "collecting" /\ l \in batch
    /\ batch' = batch \ {l}
    /\ job' = [job EXCEPT ![l] = "none"]
    /\ succeeded' = IF job[l] \in {"written", "skipped"} THEN succeeded \union {l}
                                                       ELSE succeeded
    /\ skipped' = IF job[l] = "skipped" THEN skipped \union {l} ELSE skipped
    /\ failed' = IF job[l] = "failed" THEN failed \union {l} ELSE failed
    /\ main' = IF job[l] = "raised" THEN "raising"
               ELSE IF batch' = {} THEN "filling" ELSE "collecting"
    /\ UNCHANGED <<catalog, files, outputs, args, todo, attempt, saved, bounds>>

\* What is gone when the process is.
End ==
    /\ args' = NoArgs /\ main' = "off"
    /\ todo' = {} /\ batch' = {}
    /\ job' = Idle /\ attempt' = [l \in Line |-> 0]
    /\ succeeded' = {} /\ skipped' = {} /\ failed' = {}

\* An exception leaves the with block, which waits for every future, the
\* queued ones too; no file is written.
Leave ==
    /\ main = "raising" /\ Pending = Finished
    /\ End
    /\ UNCHANGED <<catalog, files, outputs, saved, bounds>>

\* The process is killed, or an exception while it writes its three files
\* ends it.  Temporary files stay as they are.
Kill ==
    /\ main # "off"
    /\ End
    /\ UNCHANGED <<catalog, files, outputs, saved, bounds>>

-----------------------------------------------------------------------------
(* _extract_one: a worker.                                                 *)

Working == Pending \ (Finished \union {l \in Line : job[l] = "queued"})
Wanted(l) == Key(args.rows[l], args.extractor)

\* Mutant: the hash of the row is not compared.
Matches_AnyRow(l) == /\ cards[l].kind = "card"
                     /\ cards[l].key.extractor = args.extractor

\* _matching_existing.
Matches(l) == cards[l].kind = "card" /\ cards[l].key = Wanted(l)

\* Mutant: a card is written in place.
Open_InPlace(l) == /\ cards' = [cards EXCEPT ![l] = Torn]
                   /\ UNCHANGED temps

\* _write_json up to the replace: the temporary file is there in part.
Open(l) == /\ temps' = [temps EXCEPT ![l] = Torn]
           /\ UNCHANGED cards

\* The replace.
Write(l) == /\ cards' = [cards EXCEPT ![l] = Card(args.rows[l], args.extractor, FALSE)]
            /\ temps' = [temps EXCEPT ![l] = Missing]

\* A worker takes the next future of the queue and looks for a card.
Take(l) ==
    /\ job[l] = "queued"
    /\ \A k \in Line : job[k] = "queued" => l <= k
    /\ Cardinality(Working) < args.workers
    /\ \/ /\ args.resume /\ Matches(l)
          /\ IF cards[l].legacy
             THEN Open(l) /\ job' = [job EXCEPT ![l] = "migrating"]
             ELSE UNCHANGED files /\ job' = [job EXCEPT ![l] = "skipped"]
          /\ UNCHANGED attempt
       \/ /\ ~(args.resume /\ Matches(l))
          /\ job' = [job EXCEPT ![l] = "requesting"]
          /\ attempt' = [attempt EXCEPT ![l] = 1]
          /\ UNCHANGED files
    /\ UNCHANGED <<catalog, outputs, args, main, todo, batch, counts, saved,
                   bounds>>

\* The legacy card is written again, or cannot be: nothing catches that.
Migrate(l) ==
    /\ job[l] = "migrating"
    /\ \/ Write(l) /\ job' = [job EXCEPT ![l] = "skipped"]
       \/ UNCHANGED files /\ job' = [job EXCEPT ![l] = "raised"]
    /\ UNCHANGED <<catalog, outputs, args, main, todo, attempt, batch, counts,
                   saved, bounds>>

\* The provider answers with a valid card.
Answer(l) ==
    /\ job[l] = "requesting"
    /\ Open(l)
    /\ job' = [job EXCEPT ![l] = "writing"]
    /\ UNCHANGED <<catalog, outputs, args, main, todo, attempt, batch, counts,
                   saved, bounds>>

Save(l) ==
    /\ job[l] = "writing"
    /\ Write(l)
    /\ job' = [job EXCEPT ![l] = "written"]
    /\ saved' = [saved EXCEPT ![l] = Wanted(l)]
    /\ UNCHANGED <<catalog, outputs, args, main, todo, attempt, batch, counts,
                   bounds>>

\* Mutant: failed attempts are not counted.
Retry_Forever(l) == /\ job' = [job EXCEPT ![l] = "requesting"]
                    /\ UNCHANGED attempt

\* The next attempt, or the failure after the last.
Retry(l) == IF attempt[l] <= Retries
            THEN /\ job' = [job EXCEPT ![l] = "requesting"]
                 /\ attempt' = [attempt EXCEPT ![l] = @ + 1]
            ELSE /\ job' = [job EXCEPT ![l] = "failed"]
                 /\ UNCHANGED attempt

\* The request fails or its answer is refused: a ProductFactError.
RequestFails(l) ==
    /\ job[l] = "requesting"
    /\ Retry(l)
    /\ UNCHANGED <<catalog, files, outputs, args, main, todo, batch, counts,
                   saved, bounds>>

\* The card cannot be saved: an OSError, and the answer is asked for again.
SaveFails(l) ==
    /\ job[l] = "writing"
    /\ Retry(l)
    /\ UNCHANGED <<catalog, files, outputs, args, main, todo, batch, counts,
                   saved, bounds>>

\* The request raises what nothing catches: a body that ends early is no
\* OSError.
Escape(l) ==
    /\ job[l] = "requesting"
    /\ job' = [job EXCEPT ![l] = "raised"]
    /\ UNCHANGED <<catalog, files, outputs, args, main, todo, attempt, batch,
                   counts, saved, bounds>>

-----------------------------------------------------------------------------
(* The end of main.                                                        *)

\* main after it wrote f.
Following(f) ==
    LET i == CHOOSE i \in DOMAIN Outputs : Outputs[i] = f
    IN  IF i = 3 THEN "off" ELSE Outputs[i + 1]

\* What ends with the last file.
Written(f) ==
    /\ IF Following(f) = "off" THEN End
       ELSE /\ main' = Following(f)
            /\ UNCHANGED <<args, todo, job, attempt, batch, counts>>
    /\ UNCHANGED <<catalog, files, saved, bounds>>

\* product-facts.jsonl holds the cards of the successes, read from their
\* files; the rows and the extractor of the run are history.
WriteSidecar ==
    /\ main = "sidecar"
    /\ sidecar' = [run |-> runs, cards |-> [l \in succeeded |-> cards[l]],
                   rows |-> [l \in succeeded |-> args.rows[l]],
                   extractor |-> args.extractor, selection |-> args.selection]
    /\ Written("sidecar")
    /\ UNCHANGED <<failures, report>>

WriteFailures ==
    /\ main = "failures"
    /\ failures' = [run |-> runs, lines |-> failed]
    /\ Written("failures")
    /\ UNCHANGED <<sidecar, report>>

\* selected_count counts what was submitted.
WriteReport ==
    /\ main = "report"
    /\ report' = [run |-> runs,
                  selected |-> Cardinality(args.selection \ todo),
                  succeeded |-> Cardinality(succeeded),
                  failed |-> Cardinality(failed),
                  skipped |-> Cardinality(skipped)]
    /\ Written("report")
    /\ UNCHANGED <<sidecar, failures>>

-----------------------------------------------------------------------------

\* Someone replaces the catalog; a running script keeps the file it opened.
Edit(l, row) ==
    /\ edits < MaxEdits /\ row # catalog[l]
    /\ edits' = edits + 1
    /\ catalog' = [catalog EXCEPT ![l] = row]
    /\ UNCHANGED <<files, outputs, process, saved, runs>>

Main == \/ \E l \in Line : Submit(l) \/ Collect(l)
        \/ IteratorRaises \/ Filled \/ Wait
        \/ Leave \/ WriteSidecar \/ WriteFailures \/ WriteReport

Work(l) == \/ Take(l) \/ Migrate(l)
           \/ Answer(l) \/ RequestFails(l) \/ Escape(l)
           \/ Save(l) \/ SaveFails(l)

Environment ==
    \/ \E selection \in SUBSET Line \ {{}}, e \in Extractor,
          resume \in BOOLEAN, w \in 1..MaxWorkers :
         Start(selection, e, resume, w)
    \/ \E l \in Line, row \in Row : Edit(l, row)
    \/ Kill

Next == Environment \/ Main \/ \E l \in Line : Work(l)

Spec == Init /\ [][Next]_vars
FairSpec == Spec /\ WF_vars(Main) /\ \A l \in Line : WF_vars(Work(l))

-----------------------------------------------------------------------------

\* Whatever was killed, retried, edited or extracted with another model in
\* between, product-facts.jsonl can be loaded with the catalog it was made
\* from: every line is a whole card of the row as that catalog has it, from
\* the extractor of the run that wrote it, with its warnings recorded
\* (load_product_fact_sidecar refuses a stale source_id).
SidecarLoads ==
    sidecar.run # 0 =>
        /\ DOMAIN sidecar.cards \subseteq sidecar.selection
        /\ \A l \in DOMAIN sidecar.cards :
             sidecar.cards[l] = Card(sidecar.rows[l], sidecar.extractor, FALSE)

\* A crash between the three files may leave a report older than the cards it
\* stands beside, never a newer one, and a report of the same run counts
\* exactly what the other two files hold: every selected product once.
ReportDescribesFiles ==
    /\ report.run <= failures.run /\ failures.run <= sidecar.run
    /\ report.run # 0 /\ report.run = sidecar.run =>
          /\ DOMAIN sidecar.cards \union failures.lines = sidecar.selection
          /\ DOMAIN sidecar.cards \intersect failures.lines = {}
          /\ report.succeeded = Cardinality(DOMAIN sidecar.cards)
          /\ report.failed = Cardinality(failures.lines)
          /\ report.selected = report.succeeded + report.failed
          /\ report.skipped <= report.succeeded

\* The three files say what the run that wrote them did.
OutputsFaithful == SidecarLoads /\ ReportDescribesFiles

\* A saved answer is not paid for again: with --resume no request is made for
\* a product whose last saved answer was for the same row and extractor, also
\* after crashes, failures and runs without --resume.
SavedIsNotAskedAgain ==
    [][\A l \in Line :
         job[l] = "queued" /\ job'[l] = "requesting" /\ args.resume
            => saved[l] # Wanted(l)]_vars

\* A run ends: neither failing attempts nor a raising worker keeps it for ever,
\* whatever order the workers finish in.
RunEnds == main # "off" ~> main = "off"

=============================================================================
