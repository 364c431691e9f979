------------------------ MODULE FactExtractionProofs ------------------------
(***************************************************************************)
(* Proofs about FactExtraction, for any catalog, extractors, workers,      *)
(* retries and runs.                                                       *)
(***************************************************************************)
EXTENDS FactExtraction, FiniteSetTheorems, TLAPS

\* The card a run wants for a line.
Done(l) == Card(args.rows[l], args.extractor, FALSE)

\* What is known of a line while a process works on it.
LineOK(l) ==
    /\ l \in todo => job[l] = "none" /\ l \notin succeeded
    /\ job[l] # "none" => l \in args.selection /\ l \notin succeeded
    /\ l \in succeeded => l \in args.selection
    /\ job[l] \in {"written", "skipped"} \/ l \in succeeded => cards[l] = Done(l)
    /\ job[l] = "migrating" => /\ cards[l].kind = "card"
                               /\ cards[l].key = Wanted(l)

\* The last saved answer is in the card file, and card files have the fields
\* of a card.
Kept(l) == /\ saved[l] # NoKey => /\ cards[l].kind = "card"
                                  /\ cards[l].key = saved[l]
           /\ cards[l].kind = "card"
                => /\ cards[l].legacy \in BOOLEAN
                   /\ cards[l] = [kind |-> "card", key |-> cards[l].key,
                                  legacy |-> cards[l].legacy]

Stage == {"none", "queued", "migrating", "requesting", "writing", "written",
          "skipped", "failed", "raised"}

Inv == /\ catalog \in [Line -> Row]
       /\ \A l \in Line : LineOK(l) /\ Kept(l)
       /\ job \in [Line -> Stage]
       /\ DOMAIN cards = Line /\ DOMAIN saved = Line
       /\ todo \subseteq Line /\ succeeded \subseteq Line
       /\ main # "off" => /\ todo \subseteq args.selection
                          /\ args.rows \in [args.selection -> Row]
                          /\ args.selection \subseteq Line
       /\ main = "off" => /\ todo = {} /\ job = Idle
                        /\ succeeded = {} /\ failed = {} /\ skipped = {}

LEMMA InitInv == Init => Inv
<1> SUFFICES ASSUME Init PROVE Inv
  OBVIOUS
<1>1. PICK legacy \in SUBSET LegacyLine, e \in Extractor :
         /\ cards = [l \in Line |-> IF l \in legacy THEN Card(FirstRow, e, TRUE)
                                                    ELSE Missing]
         /\ saved = [l \in Line |-> IF l \in legacy THEN Key(FirstRow, e)
                                                    ELSE NoKey]
  BY DEF Init
<1>2. \A l \in Line : Kept(l)
  <2> TAKE l \in Line
  <2>1. CASE l \in legacy
    <3>1. cards[l] = Card(FirstRow, e, TRUE) /\ saved[l] = Key(FirstRow, e)
      BY <1>1, <2>1
    <3>2. /\ cards[l].kind = "card" /\ cards[l].key = Key(FirstRow, e)
          /\ cards[l].legacy = TRUE
          /\ cards[l] = [kind |-> "card", key |-> Key(FirstRow, e), legacy |-> TRUE]
      BY <3>1 DEF Card
    <3> QED BY <3>1, <3>2 DEF Kept
  <2>2. CASE l \notin legacy
    BY <1>1, <2>2 DEF Kept, Missing
  <2> QED BY <2>1, <2>2
<1>3. /\ job = Idle /\ todo = {} /\ main = "off"
      /\ succeeded = {} /\ failed = {} /\ skipped = {}
  BY DEF Init
<1>4. \A l \in Line : LineOK(l)
  BY <1>3 DEF LineOK, Idle
<1> QED
  BY <1>1, <1>2, <1>3, <1>4, FactExtractionConstants DEF Inv, Idle, Stage, Init

\* Steps that leave the cards alone and end or have no process.
LEMMA EndInv ==
  ASSUME Inv, End, UNCHANGED <<catalog, files, saved>>
  PROVE  Inv'
<1>1. /\ job' = Idle /\ todo' = {} /\ main' = "off"
      /\ succeeded' = {} /\ failed' = {} /\ skipped' = {}
  BY DEF End
<1>2. \A l \in Line : LineOK(l)'
  BY <1>1 DEF LineOK, Idle
<1>3. \A l \in Line : Kept(l)'
  BY DEF Inv, Kept, files
<1> QED
  BY <1>1, <1>2, <1>3 DEF Inv, Idle, Stage, files

LEMMA StartInv ==
  ASSUME Inv, NEW sel \in SUBSET Line \ {{}}, NEW e \in Extractor,
         NEW r \in BOOLEAN, NEW w, Start(sel, e, r, w)
  PROVE  Inv'
<1>1. /\ job = Idle /\ succeeded = {}
      /\ UNCHANGED <<job, succeeded, cards, saved>> /\ todo' = sel
      /\ args'.selection = sel
      /\ args'.rows = [l \in sel |-> catalog[l]]
  BY DEF Start, Inv, counts, files
<1>2. \A l \in Line : LineOK(l)'
  BY <1>1 DEF LineOK, Idle
<1>3. \A l \in Line : Kept(l)'
  BY <1>1 DEF Inv, Kept
<1>4. args'.rows \in [sel -> Row]
  BY <1>1 DEF Inv
<1>5. main' = "filling" /\ UNCHANGED catalog
  BY DEF Start
<1> QED
  BY <1>1, <1>2, <1>3, <1>4, <1>5 DEF Inv, Idle, Stage

\* A step of one line: its future moves, its card may be written, and nothing
\* else that the invariant is about changes.
LEMMA LineInv ==
  ASSUME Inv, NEW l \in Line, NEW st \in Stage,
         main # "off", UNCHANGED <<catalog, args, main, todo, succeeded>>,
         job[l] # "none",
         job' = [job EXCEPT ![l] = st],
         DOMAIN cards' = Line, DOMAIN saved' = Line,
         \A k \in Line \ {l} : cards'[k] = cards[k] /\ saved'[k] = saved[k],
         LineOK(l)', Kept(l)'
  PROVE  Inv'
<1>1. \A k \in Line : LineOK(k)'
  <2> SUFFICES ASSUME NEW k \in Line \ {l} PROVE LineOK(k)'
    OBVIOUS
  <2>1. job'[k] = job[k]
    BY DEF Inv
  <2> QED
    BY <2>1 DEF Inv, LineOK, Done, Wanted
<1>2. \A k \in Line : Kept(k)'
  BY DEF Inv, Kept
<1>3. job' \in [Line -> Stage]
  BY DEF Inv
<1> QED
  BY <1>1, <1>2, <1>3 DEF Inv

LEMMA WriteSets ==
  ASSUME Inv, NEW l \in Line, Write(l)
  PROVE  /\ cards'[l] = Done(l)
         /\ cards'[l].kind = "card" /\ cards'[l].key = Wanted(l)
         /\ cards'[l].legacy = FALSE
         /\ cards'[l] = [kind |-> "card", key |-> cards'[l].key,
                         legacy |-> cards'[l].legacy]
         /\ DOMAIN cards' = Line
         /\ \A k \in Line \ {l} : cards'[k] = cards[k]
<1>1. cards'[l] = Done(l) /\ DOMAIN cards' = Line
  BY DEF Write, Inv, Done
<1>2. /\ Done(l).kind = "card" /\ Done(l).key = Wanted(l)
      /\ Done(l).legacy = FALSE
      /\ Done(l) = [kind |-> "card", key |-> Wanted(l), legacy |-> FALSE]
  BY DEF Done, Card, Wanted
<1> QED
  BY <1>1, <1>2 DEF Write, Inv

\* A worker's steps.
LEMMA WorkInv ==
  ASSUME Inv, NEW l \in Line, Work(l)
  PROVE  Inv'
<1>1. job[l] # "none" /\ main # "off"
  BY DEF Work, Take, Migrate, Answer, RequestFails, Escape, Save, SaveFails,
         Inv, Idle
<1>2. UNCHANGED <<catalog, args, main, todo, succeeded>>
  BY DEF Work, Take, Migrate, Answer, RequestFails, Escape, Save, SaveFails,
         counts
<1>3. LineOK(l) /\ Kept(l) /\ job[l] \in Stage /\ DOMAIN cards = Line
      /\ DOMAIN saved = Line /\ l \notin todo /\ l \notin succeeded
      /\ l \in args.selection
  BY <1>1 DEF Inv, LineOK
<1>4. \A st : job' = [job EXCEPT ![l] = st] => job'[l] = st
  BY DEF Inv
<1>5. CASE Take(l)
  <2>1. UNCHANGED <<cards, saved>>
    BY <1>5 DEF Take, Open, files
  <2>2. Kept(l)'
    BY <1>3, <2>1 DEF Kept
  <2>3. CASE args.resume /\ Matches(l) /\ cards[l].legacy
    <3>1. job' = [job EXCEPT ![l] = "migrating"]
      BY <1>5, <2>3 DEF Take
    <3>2. LineOK(l)'
      BY <1>2, <1>3, <1>4, <2>1, <2>3, <3>1 DEF LineOK, Matches, Wanted
    <3> QED
      BY <1>1, <1>2, <1>3, <2>1, <2>2, <3>1, <3>2, LineInv DEF Stage
  <2>4. CASE args.resume /\ Matches(l) /\ ~cards[l].legacy
    <3>1. job' = [job EXCEPT ![l] = "skipped"]
      BY <1>5, <2>4 DEF Take
    <3>2. cards[l] = Done(l)
      <4>1. cards[l] = [kind |-> "card", key |-> cards[l].key,
                        legacy |-> cards[l].legacy]
            /\ cards[l].legacy \in BOOLEAN
        BY <1>3, <2>4 DEF Kept, Matches
      <4>2. cards[l].key = Wanted(l) /\ cards[l].legacy = FALSE
        BY <2>4, <4>1 DEF Matches
      <4> QED BY <4>1, <4>2 DEF Done, Card, Wanted
    <3>3. LineOK(l)'
      BY <1>2, <1>3, <1>4, <2>1, <3>1, <3>2 DEF LineOK, Done
    <3> QED
      BY <1>1, <1>2, <1>3, <2>1, <2>2, <3>1, <3>3, LineInv DEF Stage
  <2>5. CASE ~(args.resume /\ Matches(l))
    <3>1. job' = [job EXCEPT ![l] = "requesting"]
      BY <1>5, <2>5 DEF Take
    <3>2. LineOK(l)'
      BY <1>2, <1>3, <1>4, <2>1, <3>1 DEF LineOK
    <3> QED
      BY <1>1, <1>2, <1>3, <2>1, <2>2, <3>1, <3>2, LineInv DEF Stage
  <2> QED BY <2>3, <2>4, <2>5
<1>6. CASE Migrate(l)
  <2>1. job[l] = "migrating" /\ cards[l].key = Wanted(l) /\ UNCHANGED saved
    BY <1>3, <1>6 DEF Migrate, LineOK
  <2>2. CASE Write(l) /\ job' = [job EXCEPT ![l] = "skipped"]
    <3>1. Kept(l)'
      BY <1>3, <2>1, <2>2, WriteSets DEF Kept
    <3>2. LineOK(l)'
      BY <1>2, <1>3, <1>4, <2>2, WriteSets DEF LineOK, Done
    <3> QED
      BY <1>1, <1>2, <1>3, <2>1, <2>2, <3>1, <3>2, WriteSets, LineInv
         DEF Stage
  <2>3. CASE UNCHANGED files /\ job' = [job EXCEPT ![l] = "raised"]
    <3>1. Kept(l)'
      BY <1>3, <2>1, <2>3 DEF Kept, files
    <3>2. LineOK(l)'
      BY <1>2, <1>3, <1>4, <2>3 DEF LineOK
    <3> QED
      BY <1>1, <1>2, <1>3, <2>1, <2>3, <3>1, <3>2, LineInv DEF Stage, files
  <2> QED BY <1>6, <2>2, <2>3 DEF Migrate
<1>7. CASE Save(l)
  <2>1. /\ Write(l) /\ job' = [job EXCEPT ![l] = "written"]
        /\ saved' = [saved EXCEPT ![l] = Wanted(l)]
    BY <1>7 DEF Save
  <2>2. Kept(l)'
    BY <1>3, <2>1, WriteSets DEF Kept
  <2>3. LineOK(l)'
    BY <1>2, <1>3, <1>4, <2>1, WriteSets DEF LineOK, Done
  <2> QED
    BY <1>1, <1>2, <1>3, <2>1, <2>2, <2>3, WriteSets, LineInv DEF Stage
<1>8. CASE Answer(l) \/ RequestFails(l) \/ Escape(l) \/ SaveFails(l)
  <2>1. UNCHANGED <<cards, saved>>
    BY <1>8 DEF Answer, RequestFails, Escape, SaveFails, Open, files
  <2>2. PICK st \in {"writing", "requesting", "failed", "raised"} :
           job' = [job EXCEPT ![l] = st]
    BY <1>8 DEF Answer, RequestFails, Escape, SaveFails, Retry
  <2>3. Kept(l)'
    BY <1>3, <2>1 DEF Kept
  <2>4. LineOK(l)'
    BY <1>2, <1>3, <1>4, <2>2 DEF LineOK
  <2> QED
    BY <1>1, <1>2, <1>3, <2>1, <2>2, <2>3, <2>4, LineInv DEF Stage
<1> QED
  BY <1>5, <1>6, <1>7, <1>8 DEF Work


LEMMA MainInv ==
  ASSUME Inv, Main
  PROVE  Inv'
<1>1. CASE \E l \in Line : Submit(l)
  <2> PICK l \in Line : Submit(l)
    BY <1>1
  <2>1. /\ job' = [job EXCEPT ![l] = "queued"] /\ todo' = todo \ {l}
        /\ l \in todo /\ main = "filling"
        /\ UNCHANGED <<catalog, args, main, succeeded, cards, saved>>
    BY DEF Submit, files, counts
  <2>2. l \in args.selection /\ l \notin succeeded /\ job[l] = "none"
    BY <2>1 DEF Inv, LineOK
  <2>3. \A k \in Line : job'[k] = IF k = l THEN "queued" ELSE job[k]
    BY <2>1 DEF Inv
  <2>4. \A k \in Line : LineOK(k)'
    BY <2>1, <2>2, <2>3 DEF Inv, LineOK, Done, Wanted
  <2>5. \A k \in Line : Kept(k)'
    BY <2>1 DEF Inv, Kept
  <2>6. job' \in [Line -> Stage]
    BY <2>1 DEF Inv, Stage
  <2> QED
    BY <2>1, <2>4, <2>5, <2>6 DEF Inv
<1>2. CASE \E l \in Line : Collect(l)
  <2> PICK l \in Line : Collect(l)
    BY <1>2
  <2>1. /\ job' = [job EXCEPT ![l] = "none"] /\ main = "collecting"
        /\ main' \in {"raising", "filling", "collecting"}
        /\ succeeded' = IF job[l] \in {"written", "skipped"}
                          THEN succeeded \union {l} ELSE succeeded
        /\ UNCHANGED <<catalog, args, todo, cards, saved>>
    BY DEF Collect, files
  <2>2. job[l] # "none" \/ l \in batch
    BY DEF Collect
  <2>3. \A k \in Line : job'[k] = IF k = l THEN "none" ELSE job[k]
    BY <2>1 DEF Inv
  <2>4. \A k \in Line : LineOK(k)'
    <3> SUFFICES ASSUME NEW k \in Line PROVE LineOK(k)'
      OBVIOUS
    <3>1. CASE k = l
      BY <2>1, <2>3, <3>1 DEF Inv, LineOK, Done, Wanted
    <3>2. CASE k # l
      BY <2>1, <2>3, <3>2 DEF Inv, LineOK, Done, Wanted
    <3> QED BY <3>1, <3>2
  <2>5. \A k \in Line : Kept(k)'
    BY <2>1 DEF Inv, Kept
  <2>6. job' \in [Line -> Stage] /\ succeeded' \subseteq Line
    BY <2>1 DEF Inv, Stage
  <2> QED
    BY <2>1, <2>4, <2>5, <2>6 DEF Inv
<1>3. CASE Leave
  BY <1>3, EndInv DEF Leave
<1>4. CASE WriteSidecar \/ WriteFailures \/ WriteReport
  <2>1. UNCHANGED <<catalog, files, saved>>
    BY <1>4 DEF WriteSidecar, WriteFailures, WriteReport, Written
  <2>2. CASE End
    BY <2>1, <2>2, EndInv
  <2>3. CASE ~End
    <3>1. UNCHANGED <<args, todo, job, succeeded>>
      BY <1>4, <2>3 DEF WriteSidecar, WriteFailures, WriteReport, Written, counts
    <3>2. main # "off" /\ main' # "off"
      BY <1>4, <2>3 DEF WriteSidecar, WriteFailures, WriteReport, Written
    <3> QED
      BY <2>1, <3>1, <3>2 DEF Inv, LineOK, Kept, Done, Wanted, files
  <2> QED BY <2>2, <2>3
<1>5. CASE IteratorRaises \/ Filled \/ Wait
  <2>1. UNCHANGED <<catalog, files, saved, args, todo, job, succeeded>>
    BY <1>5 DEF IteratorRaises, Filled, Wait, counts
  <2>2. main # "off" /\ main' # "off"
    BY <1>5 DEF IteratorRaises, Filled, Wait, Outputs
  <2> QED
    BY <2>1, <2>2 DEF Inv, LineOK, Kept, Done, Wanted, files
<1> QED
  BY <1>1, <1>2, <1>3, <1>4, <1>5 DEF Main

LEMMA NextInv == Inv /\ [Next]_vars => Inv'
<1> SUFFICES ASSUME Inv, [Next]_vars PROVE Inv'
  OBVIOUS
<1>1. CASE Main
  BY <1>1, MainInv
<1>2. CASE \E l \in Line : Work(l)
  BY <1>2, WorkInv
<1>3. CASE \E sel \in SUBSET Line \ {{}}, e \in Extractor,
              r \in BOOLEAN, w \in 1..MaxWorkers : Start(sel, e, r, w)
  BY <1>3, StartInv
<1>4. CASE \E l \in Line, row \in Row : Edit(l, row)
  <2>1. /\ UNCHANGED <<files, saved, args, main, todo, job, counts>>
        /\ catalog' \in [Line -> Row]
    BY <1>4 DEF Edit, process, counts, Inv
  <2> QED
    BY <2>1 DEF Inv, LineOK, Kept, Done, Wanted, files, counts
<1>5. CASE Kill
  BY <1>5, EndInv DEF Kill
<1>6. CASE UNCHANGED vars
  <2>1. UNCHANGED <<catalog, files, saved, args, main, todo, job, counts>>
    BY <1>6 DEF vars, process, counts
  <2> QED
    BY <2>1 DEF Inv, LineOK, Kept, Done, Wanted, files, counts
<1> QED
  BY <1>1, <1>2, <1>3, <1>4, <1>5, <1>6 DEF Next, Environment

\* With --resume no request is made for a product whose last saved answer was
\* for the same row and extractor (_extract_one, _matching_existing): the
\* saved card is still there, whole, because a card file is replaced and never
\* written in place.
THEOREM NothingSavedAskedAgain == Spec => SavedIsNotAskedAgain
<1> DEFINE Asked == \A l \in Line :
                      job[l] = "queued" /\ job'[l] = "requesting" /\ args.resume
                         => saved[l] # Wanted(l)
<1>1. ASSUME Inv, [Next]_vars, NEW l \in Line,
             job[l] = "queued", job'[l] = "requesting", args.resume
      PROVE  saved[l] # Wanted(l)
  <2>1. Take(l)
    <3>1. CASE \E k \in Line : Work(k)
      <4> PICK k \in Line : Work(k)
        BY <3>1
      <4>1. k = l
        BY <1>1 DEF Work, Take, Migrate, Answer, RequestFails, Escape, Save,
                    SaveFails, Retry, Inv
      <4> QED
        BY <1>1, <4>1 DEF Work, Migrate, Answer, RequestFails, Escape, Save,
                          SaveFails
    <3>2. CASE Main \/ Environment \/ UNCHANGED vars
      <4>1. job' = job \/ job' = Idle
            \/ \E k \in Line : \/ job' = [job EXCEPT ![k] = "queued"]
                               \/ job' = [job EXCEPT ![k] = "none"]
        BY <3>2 DEF Main, Environment, Submit, Collect, IteratorRaises, Filled,
                    Wait, Leave, WriteSidecar, WriteFailures, WriteReport,
                    Written, End, Start, Edit, Kill, vars, process
      <4> QED
        BY <1>1, <4>1 DEF Idle, Inv
    <3> QED BY <1>1, <3>1, <3>2 DEF Next
  <2>2. ~Matches(l)
    BY <1>1, <2>1 DEF Take, Inv
  <2>3. saved[l] = Wanted(l) => Matches(l)
    <3>1. Wanted(l) # NoKey
      BY DEF Wanted, Key, NoKey
    <3> QED BY <1>1, <3>1 DEF Inv, Kept, Matches
  <2> QED BY <2>2, <2>3
<1>2. Inv /\ [Next]_vars => [Asked]_vars
  BY <1>1
<1> QED
  BY <1>2, InitInv, NextInv, PTL DEF Spec, SavedIsNotAskedAgain

-----------------------------------------------------------------------------
(* What the three files say.  While the main thread feeds the pool every   *)
(* selected line is either still to come, in a future, or counted once; the *)
(* files are dated by the run that wrote them.                              *)

Feeding == {"filling", "waiting", "collecting"}
Writing == {"sidecar", "failures", "report"}

Ended(l) == job[l] \in {"written", "skipped", "failed", "raised"}

\* A selected line is accounted for, once.
Counted(l) == /\ l \in todo \/ job[l] # "none" \/ l \in succeeded \/ l \in failed
              /\ l \in failed => l \notin succeeded /\ l \notin todo /\ job[l] = "none"

Accounted ==
    main \in Feeding \union Writing =>
        /\ \A l \in args.selection : Counted(l)
        /\ main \in Writing => todo = {} /\ \A l \in Line : job[l] = "none"
        /\ main = "collecting" => \A l \in batch : Ended(l)
        /\ failed \subseteq args.selection /\ skipped \subseteq succeeded
        /\ args.workers \in Nat \ {0}

\* sidecar is of the running process.
Current == /\ sidecar.run = runs
           /\ DOMAIN sidecar.cards = succeeded
           /\ sidecar.selection = args.selection

Dated ==
    /\ {runs, sidecar.run, failures.run, report.run} \subseteq Nat
    /\ report.run <= failures.run /\ failures.run <= sidecar.run
    /\ sidecar.run <= runs
    /\ main \in Feeding \union {"sidecar"} => sidecar.run < runs
    /\ main = "failures" => Current /\ failures.run < runs
    /\ main = "report" => /\ Current /\ report.run < runs
                          /\ failures.run = runs /\ failures.lines = failed
    /\ main \in {"off", "raising"} \union Feeding \union Writing

BookInv == Accounted /\ Dated /\ OutputsFaithful

LEMMA InitBook == Init => BookInv
  BY DEF Init, BookInv, Accounted, Dated, OutputsFaithful, SidecarLoads,
         ReportDescribesFiles, Unwritten, Feeding, Writing

\* Steps after which no process runs, or one that writes no file.
LEMMA QuietBook ==
  ASSUME BookInv, UNCHANGED <<outputs, runs>>, main' \in {"off", "raising"}
  PROVE  BookInv'
  BY DEF BookInv, Accounted, Dated, OutputsFaithful, SidecarLoads,
         ReportDescribesFiles, Feeding, Writing, outputs

\* Steps of the main thread and the workers before the files are written.
LEMMA FeedBook ==
  ASSUME BookInv, UNCHANGED <<outputs, runs>>, Accounted',
         main \in Feeding, main' \in Feeding \union {"sidecar"}
  PROVE  BookInv'
  BY DEF BookInv, Dated, OutputsFaithful, SidecarLoads, ReportDescribesFiles,
         Feeding, Writing, outputs

LEMMA WorkBook ==
  ASSUME Inv, BookInv, NEW l \in Line, Work(l)
  PROVE  BookInv'
<1>1. UNCHANGED <<outputs, runs, main, args, todo, batch, counts>>
  BY DEF Work, Take, Migrate, Answer, RequestFails, Escape, Save, SaveFails,
         bounds
<1>2. PICK st \in Stage \ {"none"} : job' = [job EXCEPT ![l] = st]
  BY DEF Work, Take, Migrate, Answer, RequestFails, Escape, Save, SaveFails,
         Retry, Stage
<1>3. job[l] # "none" /\ ~Ended(l)
  BY DEF Work, Take, Migrate, Answer, RequestFails, Escape, Save, SaveFails,
         Ended
<1>4. \A k \in Line : job'[k] = IF k = l THEN st ELSE job[k]
  BY <1>2 DEF Inv
<1>5. Accounted'
  <2> SUFFICES ASSUME main \in Feeding \union Writing PROVE Accounted'
    BY <1>1 DEF Accounted
  <2>1. args.selection \subseteq Line
    BY DEF Inv, Feeding, Writing
  <2>2. \A k \in args.selection : Counted(k)'
    BY <1>1, <1>3, <1>4, <2>1 DEF BookInv, Accounted, Counted, counts
  <2>3. main \notin Writing
    BY <1>3 DEF BookInv, Accounted
  <2>4. main = "collecting" => \A k \in batch : Ended(k)'
    BY <1>2, <1>3 DEF BookInv, Accounted, Ended, Inv
  <2> QED
    BY <1>1, <2>2, <2>3, <2>4 DEF BookInv, Accounted, counts, Ended
<1>6. UNCHANGED <<sidecar, failures, report, runs, main, args, succeeded, failed>>
  BY <1>1 DEF outputs, counts
<1> QED
  BY <1>5, <1>6 DEF BookInv, Dated, Current, OutputsFaithful, SidecarLoads,
                    ReportDescribesFiles

LEMMA StartBook ==
  ASSUME Inv, BookInv, NEW sel \in SUBSET Line \ {{}}, NEW e \in Extractor,
         NEW r \in BOOLEAN, NEW w \in 1..MaxWorkers, Start(sel, e, r, w)
  PROVE  BookInv'
<1>1. /\ runs' = runs + 1 /\ main' = "filling" /\ main = "off"
      /\ args'.selection = sel /\ args'.workers = w /\ todo' = sel
      /\ UNCHANGED <<sidecar, failures, report, failed, succeeded, skipped>>
  BY DEF Start, outputs, counts
<1>2. Accounted'
  <2>1. failed = {} /\ succeeded = {} /\ skipped = {}
    BY <1>1 DEF Inv
  <2>2. w \in Nat \ {0}
    BY FactExtractionConstants
  <2> QED
    BY <1>1, <2>1, <2>2 DEF Accounted, Counted, Writing
<1>3. Dated'
  BY <1>1 DEF BookInv, Dated, Feeding
<1> QED
  BY <1>1, <1>2, <1>3 DEF BookInv, OutputsFaithful, SidecarLoads,
                          ReportDescribesFiles

LEMMA Order == /\ Following("sidecar") = "failures"
               /\ Following("failures") = "report"
               /\ Following("report") = "off"
<1>1. DOMAIN Outputs = {1, 2, 3} /\ Outputs[1] = "sidecar"
      /\ Outputs[2] = "failures" /\ Outputs[3] = "report"
  BY DEF Outputs
<1>2. /\ (CHOOSE i \in DOMAIN Outputs : Outputs[i] = "sidecar") = 1
      /\ (CHOOSE i \in DOMAIN Outputs : Outputs[i] = "failures") = 2
      /\ (CHOOSE i \in DOMAIN Outputs : Outputs[i] = "report") = 3
  BY <1>1
<1> QED
  BY <1>1, <1>2 DEF Following

LEMMA FilesBook ==
  ASSUME Inv, BookInv, WriteSidecar \/ WriteFailures \/ WriteReport
  PROVE  BookInv'
<1>1. CASE WriteSidecar
  <2>1. /\ main = "sidecar" /\ main' = "failures"
        /\ sidecar'.run = runs /\ DOMAIN sidecar'.cards = succeeded
        /\ sidecar'.cards = [l \in succeeded |-> cards[l]]
        /\ sidecar'.rows = [l \in succeeded |-> args.rows[l]]
        /\ sidecar'.extractor = args.extractor
        /\ sidecar'.selection = args.selection
        /\ UNCHANGED <<failures, report, runs, args, todo, job, counts>>
    BY <1>1, Order DEF WriteSidecar, Written, bounds
  <2>2. Accounted'
    BY <2>1 DEF BookInv, Accounted, Counted, Feeding, Writing, counts
  <2>3. Dated'
    BY <2>1 DEF BookInv, Dated, Feeding, Writing, Current, counts
  <2>4. SidecarLoads'
    <3> SUFFICES ASSUME NEW l \in succeeded
                 PROVE  /\ l \in args.selection
                        /\ cards[l] = Card(args.rows[l], args.extractor, FALSE)
      BY <2>1 DEF SidecarLoads
    <3> QED BY DEF Inv, LineOK, Done
  <2>5. ReportDescribesFiles'
    BY <2>1 DEF BookInv, Dated, Feeding, ReportDescribesFiles
  <2> QED
    BY <2>2, <2>3, <2>4, <2>5 DEF BookInv, OutputsFaithful
<1>2. CASE WriteFailures
  <2>1. /\ main = "failures" /\ main' = "report"
        /\ failures' = [run |-> runs, lines |-> failed]
        /\ UNCHANGED <<sidecar, report, runs, args, todo, job, counts>>
    BY <1>2, Order DEF WriteFailures, Written, bounds
  <2>2. Accounted'
    BY <2>1 DEF BookInv, Accounted, Counted, Feeding, Writing, counts
  <2>3. Dated'
    BY <2>1 DEF BookInv, Dated, Feeding, Writing, Current, counts
  <2>4. SidecarLoads'
    BY <2>1 DEF BookInv, OutputsFaithful, SidecarLoads
  <2>5. ReportDescribesFiles'
    <3>1. /\ {runs, report.run, failures.run} \subseteq Nat
          /\ report.run <= failures.run /\ failures.run < runs
          /\ sidecar.run = runs
      BY <2>1 DEF BookInv, Dated, Current
    <3>2. report.run < runs /\ report.run <= runs
      BY <3>1
    <3>3. failures'.run = runs
      BY <2>1
    <3> QED
      BY <2>1, <3>1, <3>2, <3>3 DEF ReportDescribesFiles
  <2> QED
    BY <2>2, <2>3, <2>4, <2>5 DEF BookInv, OutputsFaithful
<1>3. CASE WriteReport
  <2>1. /\ main = "report" /\ main' = "off"
        /\ report'.run = runs
        /\ report'.selected = Cardinality(args.selection \ todo)
        /\ report'.succeeded = Cardinality(succeeded)
        /\ report'.failed = Cardinality(failed)
        /\ report'.skipped = Cardinality(skipped)
        /\ UNCHANGED <<sidecar, failures, runs>>
    BY <1>3, Order DEF WriteReport, Written, bounds, End
  <2>2. /\ Current /\ failures.run = runs /\ failures.lines = failed
        /\ \A l \in args.selection : Counted(l)
        /\ todo = {} /\ \A l \in Line : job[l] = "none"
        /\ failed \subseteq args.selection /\ skipped \subseteq succeeded
        /\ args.selection \subseteq Line
    BY <2>1 DEF BookInv, Dated, Accounted, Writing, Inv
  <2>3. succeeded \subseteq args.selection
    BY DEF Inv, LineOK
  <2>4. /\ succeeded \union failed = args.selection
        /\ succeeded \intersect failed = {}
    BY <2>2, <2>3 DEF Counted
  <2>5. /\ IsFiniteSet(succeeded) /\ IsFiniteSet(failed)
        /\ Cardinality(skipped) <= Cardinality(succeeded)
    BY <2>2, <2>3, FS_Subset, FactExtractionConstants
  <2>6. Cardinality(args.selection) = Cardinality(succeeded) + Cardinality(failed)
    <3>1. Cardinality(succeeded) \in Nat /\ Cardinality(failed) \in Nat
      BY <2>5, FS_CardinalityType
    <3>2. Cardinality(succeeded \intersect failed) = 0
      BY <2>4, FS_EmptySet
    <3>3. Cardinality(succeeded \union failed)
          = Cardinality(succeeded) + Cardinality(failed)
              - Cardinality(succeeded \intersect failed)
      BY <2>5, FS_Union
    <3>4. Cardinality(args.selection)
          = Cardinality(succeeded) + Cardinality(failed) - 0
      BY <2>4, <3>2, <3>3
    <3> QED BY <3>1, <3>4
  <2>7. args.selection \ todo = args.selection
    BY <2>2
  <2>8. ReportDescribesFiles'
    BY <2>1, <2>2, <2>4, <2>5, <2>6, <2>7
       DEF BookInv, Dated, Current, ReportDescribesFiles
  <2>9. Dated' /\ Accounted'
    BY <2>1, <2>2 DEF BookInv, Dated, Current, Accounted, Feeding, Writing
  <2> QED
    BY <2>1, <2>8, <2>9 DEF BookInv, OutputsFaithful, SidecarLoads
<1> QED BY <1>1, <1>2, <1>3

LEMMA MainBook ==
  ASSUME Inv, BookInv, Main
  PROVE  BookInv'
<1>1. CASE \E l \in Line : Submit(l)
  <2> PICK l \in Line : Submit(l)
    BY <1>1
  <2>1. /\ job' = [job EXCEPT ![l] = "queued"] /\ todo' = todo \ {l}
        /\ main = "filling" /\ main' = "filling"
        /\ UNCHANGED <<outputs, runs, args, failed, succeeded, skipped, batch>>
        /\ l \in todo
    BY DEF Submit, counts, bounds
  <2>2. \A k \in Line : job'[k] = IF k = l THEN "queued" ELSE job[k]
    BY <2>1 DEF Inv
  <2>3. args.selection \subseteq Line
    BY <2>1 DEF Inv
  <2>4. \A k \in args.selection : Counted(k)'
    BY <2>1, <2>2, <2>3 DEF BookInv, Accounted, Counted, Feeding
  <2>5. Accounted'
    BY <2>1, <2>4 DEF BookInv, Accounted, Feeding, Writing
  <2> QED
    BY <2>1, <2>5, FeedBook DEF Feeding
<1>2. CASE \E l \in Line : Collect(l)
  <2> PICK l \in Line : Collect(l)
    BY <1>2
  <2>1. CASE job[l] = "raised"
    <3>1. main' = "raising" /\ UNCHANGED <<outputs, runs>>
      BY <2>1 DEF Collect, bounds
    <3> QED BY <3>1, QuietBook
  <2>2. CASE job[l] # "raised"
    <3>1. /\ job' = [job EXCEPT ![l] = "none"] /\ main = "collecting"
          /\ main' \in {"filling", "collecting"}
          /\ batch' = batch \ {l} /\ l \in batch
          /\ succeeded' = IF job[l] \in {"written", "skipped"}
                            THEN succeeded \union {l} ELSE succeeded
          /\ failed' = IF job[l] = "failed" THEN failed \union {l} ELSE failed
          /\ skipped' = IF job[l] = "skipped" THEN skipped \union {l} ELSE skipped
          /\ UNCHANGED <<outputs, runs, args, todo>>
      BY <2>2 DEF Collect, bounds
    <3>2. \A k \in Line : job'[k] = IF k = l THEN "none" ELSE job[k]
      BY <3>1 DEF Inv
    <3>3. args.selection \subseteq Line /\ l \in args.selection
          /\ job[l] \in {"written", "skipped", "failed"}
      BY <2>2, <3>1 DEF Inv, LineOK, BookInv, Accounted, Feeding, Ended
    <3>4. \A k \in args.selection : Counted(k) /\ LineOK(k)
      BY <3>1, <3>3 DEF Inv, BookInv, Accounted, Feeding
    <3>5. \A k \in args.selection : Counted(k)'
      <4> SUFFICES ASSUME NEW k \in args.selection PROVE Counted(k)'
        BY <3>1
      <4>1. CASE k = l
        BY <3>1, <3>2, <3>3, <3>4, <4>1 DEF Counted, LineOK
      <4>2. CASE k # l
        BY <3>1, <3>2, <3>3, <3>4, <4>2 DEF Counted
      <4> QED BY <4>1, <4>2
    <3>6. \A k \in batch' : Ended(k)'
      BY <3>1 DEF BookInv, Accounted, Feeding, Ended, Inv
    <3>7. failed' \subseteq args.selection /\ skipped' \subseteq succeeded'
      BY <3>1, <3>3 DEF BookInv, Accounted, Feeding
    <3>8. Accounted'
      BY <3>1, <3>5, <3>6, <3>7 DEF BookInv, Accounted, Feeding, Writing
    <3> QED
      BY <3>1, <3>8, FeedBook DEF Feeding
  <2> QED BY <2>1, <2>2
<1>3. CASE Leave
  <2>1. main' = "off" /\ UNCHANGED <<outputs, runs>>
    BY <1>3 DEF Leave, End, bounds
  <2> QED BY <2>1, QuietBook
<1>4. CASE IteratorRaises
  <2>1. main' = "raising" /\ UNCHANGED <<outputs, runs>>
    BY <1>4 DEF IteratorRaises, bounds
  <2> QED BY <2>1, QuietBook
<1>5. CASE Filled
  <2>1. /\ main = "filling"
        /\ main' = IF Pending = {} THEN "sidecar" ELSE "waiting"
        /\ Room => todo = {}
        /\ UNCHANGED <<outputs, runs, args, todo, job, failed, succeeded,
                       skipped, batch>>
    BY <1>5 DEF Filled, Outputs, counts, bounds
  <2>2. Pending = {} => Room
    BY <2>1, FS_EmptySet DEF BookInv, Accounted, Feeding, Room
  <2>3. Pending = {} => \A l \in Line : job[l] = "none"
    BY DEF Pending
  <2>4. Accounted'
    BY <2>1, <2>2, <2>3 DEF BookInv, Accounted, Counted, Feeding, Writing
  <2> QED
    BY <2>1, <2>4, FeedBook DEF Feeding
<1>6. CASE Wait
  <2>1. /\ main = "waiting" /\ main' = "collecting" /\ batch' = Finished
        /\ UNCHANGED <<outputs, runs, args, todo, job, failed, succeeded, skipped>>
    BY <1>6 DEF Wait, counts, bounds
  <2>2. Accounted'
    BY <2>1 DEF BookInv, Accounted, Counted, Feeding, Writing, Finished, Ended
  <2> QED
    BY <2>1, <2>2, FeedBook DEF Feeding
<1>7. CASE WriteSidecar \/ WriteFailures \/ WriteReport
  BY <1>7, FilesBook
<1> QED
  BY <1>1, <1>2, <1>3, <1>4, <1>5, <1>6, <1>7 DEF Main

LEMMA NextBook == Inv /\ BookInv /\ [Next]_vars => BookInv'
<1> SUFFICES ASSUME Inv, BookInv, [Next]_vars PROVE BookInv'
  OBVIOUS
<1>1. CASE Main
  BY <1>1, MainBook
<1>2. CASE \E l \in Line : Work(l)
  BY <1>2, WorkBook
<1>3. CASE \E sel \in SUBSET Line \ {{}}, e \in Extractor,
              r \in BOOLEAN, w \in 1..MaxWorkers : Start(sel, e, r, w)
  BY <1>3, StartBook
<1>4. CASE Kill
  <2>1. main' = "off" /\ UNCHANGED <<outputs, runs>>
    BY <1>4 DEF Kill, End, bounds
  <2> QED BY <2>1, QuietBook
<1>5. CASE UNCHANGED vars \/ \E l \in Line, row \in Row : Edit(l, row)
  <2>1. UNCHANGED <<sidecar, failures, report, runs, main, args, todo, job,
                    batch, succeeded, skipped, failed>>
    BY <1>5 DEF Edit, vars, process, outputs, counts, bounds
  <2> QED
    BY <2>1 DEF BookInv, Accounted, Counted, Ended, Dated, Current,
                OutputsFaithful, SidecarLoads, ReportDescribesFiles
<1> QED
  BY <1>1, <1>2, <1>3, <1>4, <1>5 DEF Next, Environment

\* product-facts.jsonl, failures.json and run.json describe the run that wrote
\* them, whatever was killed or edited before (_execute, main): the cards are
\* those of the rows read and of the extractor, and a report counts every
\* selected product once.
THEOREM OutputsDescribeTheirRun == Spec => []OutputsFaithful
<1>1. Init => Inv /\ BookInv
  BY InitInv, InitBook
<1>2. Inv /\ BookInv /\ [Next]_vars => (Inv /\ BookInv)'
  BY NextInv, NextBook
<1>3. BookInv => OutputsFaithful
  BY DEF BookInv
<1> QED
  BY <1>1, <1>2, <1>3, PTL DEF Spec

-----------------------------------------------------------------------------
(* The window of futures.  A run of the checker has two lines and never      *)
(* fills it with lines left; here there are any number.                      *)

\* The main thread never holds more futures than the window has places, never
\* waits without a future to wait for, and writes its files only when every
\* line was submitted and every future collected.
WindowHolds ==
    /\ main # "off" => Cardinality(Pending) <= 2 * args.workers
    /\ main = "waiting" => Pending # {}
    /\ main = "collecting" => batch # {} /\ batch \subseteq Pending
    /\ main \in {"sidecar", "failures", "report"} => todo = {} /\ Pending = {}

Window == /\ WindowHolds
          /\ main # "off" => args.workers \in Nat \ {0}

LEMMA PendingFinite == IsFiniteSet(Pending) /\ Cardinality(Pending) \in Nat
<1>1. Pending \subseteq Line
  BY DEF Pending
<1> QED
  BY <1>1, FactExtractionConstants, FS_Subset, FS_CardinalityType

\* Steps that leave the window and the main thread alone.
LEMMA QuietWindow ==
  ASSUME Window, UNCHANGED <<main, args, todo, batch>>, Pending' = Pending
  PROVE  Window'
  BY DEF Window, WindowHolds

\* A worker's step neither adds nor takes a future.
LEMMA WorkWindow ==
  ASSUME Inv, Window, NEW l \in Line, Work(l)
  PROVE  Window'
<1>1. UNCHANGED <<main, args, todo, batch>>
  BY DEF Work, Take, Migrate, Answer, RequestFails, Escape, Save, SaveFails
<1>2. PICK st : /\ job[l] # "none" /\ st # "none"
                /\ job' = [job EXCEPT ![l] = st]
  BY DEF Work, Take, Migrate, Answer, RequestFails, Escape, Save, SaveFails, Retry
<1>3. Pending' = Pending
  BY <1>2 DEF Pending, Inv
<1> QED
  BY <1>1, <1>3, QuietWindow

LEMMA SubmitWindow ==
  ASSUME Inv, Window, NEW l \in Line, Submit(l)
  PROVE  Window'
<1>1. /\ main = "filling" /\ main' = "filling"
      /\ Cardinality(Pending) < 2 * args.workers /\ args' = args
      /\ job' = [job EXCEPT ![l] = "queued"]
  BY DEF Submit, Room
<1>2. Pending' = Pending \union {l}
  BY <1>1 DEF Pending, Inv
<1>3. Cardinality(Pending') \in Nat /\ Cardinality(Pending') <= Cardinality(Pending) + 1
  <2> DEFINE P == Pending
  <2>1. IsFiniteSet(P) /\ Cardinality(P) \in Nat
    BY PendingFinite
  <2> HIDE DEF P
  <2>2. Cardinality(P \union {l}) = IF l \in P THEN Cardinality(P) ELSE Cardinality(P) + 1
    BY <2>1, FS_AddElement
  <2>3. /\ Cardinality(P \union {l}) \in Nat
        /\ Cardinality(P \union {l}) <= Cardinality(P) + 1
    BY <2>1, <2>2
  <2> QED
    BY <1>2, <2>3 DEF P
<1>4. args.workers \in Nat
  BY <1>1 DEF Window
<1>5. Cardinality(Pending') <= 2 * args'.workers
  BY <1>1, <1>3, <1>4, PendingFinite
<1> QED
  BY <1>1, <1>5 DEF Window, WindowHolds

LEMMA CollectWindow ==
  ASSUME Inv, Window, NEW l \in Line, Collect(l)
  PROVE  Window'
<1>1. /\ main = "collecting" /\ l \in batch /\ batch' = batch \ {l}
      /\ job' = [job EXCEPT ![l] = "none"] /\ UNCHANGED <<args, todo>>
      /\ main' \in {"raising", "filling", "collecting"}
      /\ main' = "collecting" => batch' # {}
  BY DEF Collect
<1>2. Pending' = Pending \ {l}
  BY <1>1 DEF Pending, Inv
<1>3. Cardinality(Pending') <= Cardinality(Pending) /\ Cardinality(Pending') \in Nat
  BY <1>2, PendingFinite, FS_Subset, FS_CardinalityType
<1>4. Cardinality(Pending') <= 2 * args'.workers
  BY <1>1, <1>3, PendingFinite DEF Window, WindowHolds
<1>5. batch' \subseteq Pending'
  BY <1>1, <1>2 DEF Window, WindowHolds
<1> QED
  BY <1>1, <1>4, <1>5 DEF Window, WindowHolds

LEMMA FilledWindow ==
  ASSUME Window, Filled
  PROVE  Window'
<1>1. /\ main = "filling" /\ (Room => todo = {})
      /\ main' = IF Pending = {} THEN "sidecar" ELSE "waiting"
      /\ Pending' = Pending /\ UNCHANGED <<args, todo, batch>>
  BY DEF Filled, Outputs, Pending
<1>2. Cardinality(Pending') <= 2 * args'.workers /\ args'.workers \in Nat \ {0}
  <2>1. Cardinality(Pending) <= 2 * args.workers /\ args.workers \in Nat \ {0}
    BY <1>1 DEF Window, WindowHolds
  <2> QED
    BY <1>1, <2>1
<1>3. CASE Pending = {}
  <2>1. Cardinality(Pending) = 0
    BY <1>3, FS_EmptySet
  <2>2. args.workers \in Nat \ {0}
    BY <1>1, <1>2
  <2>3. Room
    BY <2>1, <2>2 DEF Room
  <2>4. main' = "sidecar" /\ todo' = {} /\ Pending' = {}
    BY <1>1, <1>3, <2>3
  <2> QED
    BY <1>2, <2>4 DEF Window, WindowHolds
<1>4. CASE Pending # {}
  <2>1. main' = "waiting" /\ Pending' # {}
    BY <1>1, <1>4
  <2> QED
    BY <1>2, <2>1 DEF Window, WindowHolds
<1> QED
  BY <1>3, <1>4

\* The other steps of the main thread.
LEMMA FilesWindow ==
  ASSUME Window,
         IteratorRaises \/ Wait \/ Leave \/ WriteSidecar \/ WriteFailures \/ WriteReport
  PROVE  Window'
<1>1. CASE IteratorRaises
  <2>1. /\ main = "filling" /\ main' = "raising"
        /\ Pending' = Pending /\ args' = args
    BY <1>1 DEF IteratorRaises, Pending
  <2> QED
    BY <2>1 DEF Window, WindowHolds
<1>2. CASE Wait
  <2>1. /\ main = "waiting" /\ main' = "collecting" /\ batch' = Finished
        /\ Finished # {} /\ Pending' = Pending /\ args' = args
    BY <1>2 DEF Wait, Pending
  <2>2. Finished \subseteq Pending
    BY DEF Finished, Pending
  <2> QED
    BY <2>1, <2>2 DEF Window, WindowHolds
<1>3. CASE WriteSidecar \/ WriteFailures
  <2>1. /\ main \in {"sidecar", "failures"} /\ main' \in {"failures", "report"}
        /\ UNCHANGED <<args, todo, job, batch>>
    BY <1>3, Order DEF WriteSidecar, WriteFailures, Written
  <2>2. Pending' = Pending
    BY <2>1 DEF Pending
  <2> QED
    BY <2>1, <2>2 DEF Window, WindowHolds
<1>4. CASE Leave \/ WriteReport
  <2>1. main' = "off"
    BY <1>4, Order DEF Leave, WriteReport, Written, End
  <2> QED
    BY <2>1 DEF Window, WindowHolds
<1> QED
  BY <1>1, <1>2, <1>3, <1>4

LEMMA NextWindow == Inv /\ Window /\ [Next]_vars => Window'
<1> SUFFICES ASSUME Inv, Window, [Next]_vars PROVE Window'
  OBVIOUS
<1>1. CASE Main
  BY <1>1, SubmitWindow, CollectWindow, FilledWindow, FilesWindow DEF Main
<1>2. CASE \E l \in Line : Work(l)
  BY <1>2, WorkWindow
<1>3. CASE \E sel \in SUBSET Line \ {{}}, e \in Extractor, r \in BOOLEAN,
            w \in 1..MaxWorkers : Start(sel, e, r, w)
  <2>1. PICK w \in 1..MaxWorkers :
           /\ main = "off" /\ main' = "filling" /\ args'.workers = w
           /\ job' = job
    BY <1>3 DEF Start
  <2>2. Pending' = {}
    BY <2>1 DEF Inv, Idle, Pending
  <2>3. w \in Nat \ {0} /\ Cardinality(Pending') = 0
    BY <2>2, FactExtractionConstants, FS_EmptySet
  <2> QED
    BY <2>1, <2>3 DEF Window, WindowHolds
<1>4. CASE Kill
  BY <1>4 DEF Kill, End, Window, WindowHolds
<1>5. CASE UNCHANGED vars \/ \E l \in Line, row \in Row : Edit(l, row)
  <2>1. UNCHANGED <<main, args, todo, job, batch>>
    BY <1>5 DEF Edit, vars, process
  <2>2. Pending' = Pending
    BY <2>1 DEF Pending
  <2> QED
    BY <2>1, <2>2, QuietWindow
<1> QED
  BY <1>1, <1>2, <1>3, <1>4, <1>5 DEF Next, Environment

\* The window of futures never overfills, the main thread never waits on an
\* empty one, and nothing is written before it is empty and the catalog is at
\* its end (_execute), for any number of lines and workers.
THEOREM WindowAlwaysHolds == Spec => []WindowHolds
<1>1. Init => Inv /\ Window
  BY InitInv DEF Init, Window, WindowHolds
<1>2. Inv /\ Window /\ [Next]_vars => (Inv /\ Window)'
  BY NextInv, NextWindow
<1>3. Window => WindowHolds
  BY DEF Window
<1> QED
  BY <1>1, <1>2, <1>3, PTL DEF Spec

=============================================================================
