------------------------ MODULE EvaluationRunProofs ------------------------
(***************************************************************************)
(* Proofs about EvaluationRun, for any samples, workers, turns and ranks,  *)
(* and any number of crashes, failures and resumed runs.                   *)
(***************************************************************************)
EXTENDS EvaluationRun, SequenceTheorems, TLAPS

\* What the script knows of a sample and what sessions.jsonl has of it.
Booked(s) ==
    /\ Len(sessionLog[s]) <= 1
    /\ main = "off" => future[s] = "none"
    /\ main # "off" => sessionLog[s] = completed[s] \o new[s]
    /\ future[s] \in {"queued", "running", "done", "raised"}
          => sessionLog[s] = <<>>
    /\ main # "off" /\ future[s] \in {"none", "collected"}
          => Len(sessionLog[s]) = 1
    /\ main = "reported" => /\ future[s] \in {"none", "collected"}
                            /\ summary[s] = sessionLog[s]

\* The types the argument needs.
FilesOK == /\ sessionLog \in [Sample -> Seq(Row)]
           /\ completed \in [Sample -> Seq(Row)]
           /\ new \in [Sample -> Seq(Row)]
           /\ future \in [Sample -> {"none", "queued", "running", "done",
                                     "raised", "collected"}]
           /\ hitTurn \in [Sample -> Nat]
           /\ bestRank \in [Sample -> Nat]
           /\ turn \in [Sample -> Nat]

Inv == FilesOK /\ \A s \in Sample : Booked(s)

LEMMA EmptyConcat ==
  ASSUME NEW a \in Seq(Row), NEW b \in Seq(Row), a \o b = <<>>
  PROVE  a = <<>> /\ b = <<>>
  <1>1. Len(a) + Len(b) = 0
    BY SMT
  <1>2. Len(a) = 0 /\ Len(b) = 0
    BY <1>1
  <1> QED
    BY <1>2

LEMMA EmptyOrOne ==
  ASSUME NEW a \in Seq(Row), Len(a) <= 1
  PROVE  a = <<>> <=> Len(a) # 1
  <1>1. Len(a) \in Nat
    OBVIOUS
  <1>2. Len(a) = 0 \/ Len(a) = 1
    <2>1. \A n \in Nat : n <= 1 => n = 0 \/ n = 1
      OBVIOUS
    <2> QED
      BY <1>1, <2>1
  <1>3. CASE Len(a) = 0
    BY <1>3
  <1>4. CASE Len(a) = 1
    <2>1. a # <<>>
      BY <1>4
    <2> QED
      BY <1>4, <2>1
  <1> QED
    BY <1>2, <1>3, <1>4

LEMMA RowOfTyped ==
  ASSUME FilesOK, NEW s \in Sample
  PROVE  RowOf(s) \in Row
  BY DEF FilesOK, RowOf, Row

LEMMA InvInit == Init => Inv
  BY DEF Init, Inv, FilesOK, Booked, NoRows

LEMMA FilesStep ==
  ASSUME FilesOK, [Next]_vars
  PROVE  FilesOK'
  <1> USE EvaluationRunConstants DEF FilesOK, files, started, conversations, NoRows
  <1>1. CASE Start
    BY <1>1 DEF Start
  <1>2. ASSUME NEW s \in Sample, Begin(s)
        PROVE  FilesOK'
    BY <1>2 DEF Begin
  <1>3. ASSUME NEW s \in Sample, NEW rank \in 0..MaxRank, Turn(s, rank)
        PROVE  FilesOK'
    <2>1. rank \in Nat /\ Better(bestRank[s], rank) \in Nat /\ turn[s] + 1 \in Nat
      BY DEF Better
    <2>2. bestRank' \in [Sample -> Nat] /\ hitTurn' \in [Sample -> Nat]
      BY <1>3, <2>1 DEF Turn
    <2>3. /\ turn' \in [Sample -> Nat]
          /\ future' \in [Sample -> {"none", "queued", "running", "done",
                                     "raised", "collected"}]
      BY <1>3, <2>1 DEF Turn
    <2> QED
      BY <1>3, <2>2, <2>3 DEF Turn
  <1>4. ASSUME NEW s \in Sample, Raise(s)
        PROVE  FilesOK'
    BY <1>4 DEF Raise
  <1>5. ASSUME NEW s \in Sample, Collect(s)
        PROVE  FilesOK'
    <2>1. RowOf(s) \in Row
      BY RowOfTyped
    <2>2. /\ Append(sessionLog[s], RowOf(s)) \in Seq(Row)
          /\ Append(new[s], RowOf(s)) \in Seq(Row)
      BY <2>1
    <2> QED
      BY <1>5, <2>2 DEF Collect
  <1>6. ASSUME NEW s \in Sample, Leave(s)
        PROVE  FilesOK'
    BY <1>6 DEF Leave
  <1>7. CASE Fail \/ Report \/ UNCHANGED vars
    BY <1>7 DEF Fail, Report, vars
  <1>8. CASE Crash
    BY <1>8 DEF Crash
  <1> QED
    BY <1>1, <1>2, <1>3, <1>4, <1>5, <1>6, <1>7, <1>8 DEF Next, Converse

LEMMA BookedStep ==
  ASSUME Inv, [Next]_vars
  PROVE  \A r \in Sample : Booked(r)'
  <1> USE DEF Inv, FilesOK, files, started, conversations
  <1>1. CASE Start
    <2> SUFFICES ASSUME NEW r \in Sample
                 PROVE  Booked(r)'
      OBVIOUS
    <2>1. completed'[r] \o new'[r] = sessionLog[r]
      BY <1>1 DEF Start, NoRows
    <2>2. r \in Unfinished <=> Len(sessionLog[r]) # 1
      <3>1. sessionLog[r] \in Seq(Row) /\ Len(sessionLog[r]) <= 1
        BY DEF Booked
      <3>2. sessionLog[r] = <<>> <=> Len(sessionLog[r]) # 1
        BY <3>1, EmptyOrOne
      <3> QED
        BY <3>2 DEF Unfinished
    <2> QED
      BY <1>1, <2>1, <2>2 DEF Start, Booked, Unfinished
  <1>2. ASSUME NEW s \in Sample, Begin(s)
        PROVE  \A r \in Sample : Booked(r)'
    BY <1>2 DEF Begin, Booked
  <1>3. ASSUME NEW s \in Sample, NEW rank \in 0..MaxRank, Turn(s, rank)
        PROVE  \A r \in Sample : Booked(r)'
    <2>1. /\ future[s] = "running"
          /\ \A r \in Sample : future'[r] = future[r]
                                  \/ (r = s /\ future'[r] = "done")
          /\ UNCHANGED <<sessionLog, summary, main, completed, new>>
      BY <1>3 DEF Turn
    <2> QED
      BY <2>1 DEF Booked
  <1>4. ASSUME NEW s \in Sample, Raise(s)
        PROVE  \A r \in Sample : Booked(r)'
    BY <1>4 DEF Raise, Booked
  <1>5. ASSUME NEW s \in Sample, Collect(s)
        PROVE  \A r \in Sample : Booked(r)'
    <2>1. /\ sessionLog[s] = <<>> /\ completed[s] \o new[s] = <<>>
          /\ main = "collecting" /\ main' = main
      BY <1>5 DEF Collect, Booked
    <2>2. completed[s] = <<>> /\ new[s] = <<>>
      BY <2>1, EmptyConcat
    <2>3. sessionLog'[s] = <<RowOf(s)>> /\ new'[s] = <<RowOf(s)>>
          /\ completed'[s] = <<>> /\ future'[s] = "collected"
      BY <1>5, <2>1, <2>2 DEF Collect
    <2>4. \A r \in Sample \ {s} : /\ sessionLog'[r] = sessionLog[r]
                                  /\ new'[r] = new[r]
                                  /\ completed'[r] = completed[r]
                                  /\ future'[r] = future[r]
      BY <1>5 DEF Collect
    <2>5. Booked(s)'
      <3> HIDE DEF Inv, FilesOK
      <3>1. Len(sessionLog'[s]) = 1 /\ sessionLog'[s] = completed'[s] \o new'[s]
        BY <2>3
      <3> QED
        BY <2>1, <2>3, <3>1 DEF Booked
    <2> QED
      BY <1>5, <2>1, <2>4, <2>5 DEF Collect, Booked
  <1>6. ASSUME NEW s \in Sample, Leave(s)
        PROVE  \A r \in Sample : Booked(r)'
    BY <1>6 DEF Leave, Booked
  <1>7. CASE Fail
    BY <1>7 DEF Fail, Booked
  <1>8. CASE Report
    BY <1>8 DEF Report, Reported, Booked
  <1>9. CASE Crash
    BY <1>9 DEF Crash, Booked
  <1>10. CASE UNCHANGED vars
    BY <1>10 DEF vars, Booked
  <1> QED
    BY <1>1, <1>2, <1>3, <1>4, <1>5, <1>6, <1>7, <1>8, <1>9, <1>10
    DEF Next, Converse

LEMMA Invariant == Spec => []Inv
  <1>1. Inv /\ [Next]_vars => Inv'
    BY FilesStep, BookedStep DEF Inv
  <1> QED
    BY <1>1, InvInit, PTL DEF Spec

\* A sample has at most one line in sessions.jsonl, across all runs.
THEOREM CountedOnce == Spec => []OneRowPerSample
  <1>1. Inv => OneRowPerSample
    BY DEF Inv, Booked, OneRowPerSample
  <1> QED
    BY <1>1, Invariant, PTL

\* A written summary has each sample's one line of sessions.jsonl.
THEOREM SummaryCountsAll == Spec => []SummaryComplete
  <1>1. Inv => SummaryComplete
    BY DEF Inv, Booked, SummaryComplete
  <1> QED
    BY <1>1, Invariant, PTL

-----------------------------------------------------------------------------
(* What the log of turns says of the conversation under way and of the one *)
(* each row of sessions.jsonl is about.                                    *)

Line == [turn : Nat, rank : Nat]

\* The last k lines of a log.
Recent(ts, k) == SubSeq(ts, Len(ts) - k + 1, Len(ts))

\* The last k lines of the sample's log are the conversation whose outcome
\* is row.
Tells(s, row, k) == /\ k <= Len(turnLog[s])
                    /\ Agrees(s, row, Recent(turnLog[s], k))

Told(s) ==
    /\ future[s] = "running" =>
          /\ turn[s] >= 1
          /\ Tells(s, RowOf(s), turn[s] - 1)
          /\ override[s] <=> (s \in OverrideSample =>
                                 OverrideTurn > 1 /\ turn[s] >= OverrideTurn)
    /\ future[s] = "done" => Tells(s, RowOf(s), turn[s])
    /\ sessionLog[s] # <<>> =>
          Tells(s, sessionLog[s][1], sessionLog[s][1].turns)

LogsOK == /\ turnLog \in [Sample -> Seq(Line)]
          /\ override \in [Sample -> BOOLEAN]

Telling == Inv /\ LogsOK /\ \A s \in Sample : Told(s)

LEMMA RecentGrows ==
  ASSUME NEW ts \in Seq(Line), NEW k \in Nat, k <= Len(ts), NEW e \in Line
  PROVE  /\ Recent(ts, k) \in Seq(Line)
         /\ Len(Recent(ts, k)) = k
         /\ Recent(Append(ts, e), k + 1) = Append(Recent(ts, k), e)
  <1> DEFINE n == Len(ts)
             old == Recent(ts, k)
             ext == Recent(Append(ts, e), k + 1)
  <1>1. n \in Nat /\ Len(Append(ts, e)) = n + 1
    OBVIOUS
  <1>2. /\ old = [i \in 1..k |-> ts[i + (n - k)]]
        /\ \A i \in 1..k : i + (n - k) \in 1..n
    <2>1. /\ 1 + n - (n - k + 1) = k
          /\ \A i \in 1..k : i + (n - k + 1) - 1 = i + (n - k)
      BY <1>1
    <2> QED
      BY <1>1, <2>1 DEF Recent
  <1>3. old \in Seq(Line) /\ Len(old) = k
    BY <1>1, <1>2
  <1>4. ext = [i \in 1..(k + 1) |-> Append(ts, e)[i + (n - k)]]
    <2>1. /\ 1 + (n + 1) - ((n + 1) - (k + 1) + 1) = k + 1
          /\ \A i \in 1..(k + 1) :
                i + ((n + 1) - (k + 1) + 1) - 1 = i + (n - k)
      BY <1>1
    <2> QED
      BY <1>1, <2>1 DEF Recent
  <1>5. \A i \in 1..(k + 1) :
           Append(ts, e)[i + (n - k)] = IF i = k + 1 THEN e ELSE ts[i + (n - k)]
    <2> SUFFICES ASSUME NEW i \in 1..(k + 1)
                 PROVE  Append(ts, e)[i + (n - k)] =
                           IF i = k + 1 THEN e ELSE ts[i + (n - k)]
      OBVIOUS
    <2>1. CASE i = k + 1
      <3>1. i + (n - k) = n + 1
        BY <1>1, <2>1
      <3> QED
        BY <2>1, <3>1
    <2>2. CASE i # k + 1
      <3>1. i \in 1..k
        BY <2>2
      <3> QED
        BY <1>2, <2>2, <3>1
    <2> QED
      BY <2>1, <2>2
  <1>6. /\ Append(old, e) \in Seq(Line) /\ Len(Append(old, e)) = k + 1
        /\ \A i \in 1..(k + 1) :
              Append(old, e)[i] = IF i = k + 1 THEN e ELSE ts[i + (n - k)]
    <2>1. \A i \in 1..k : old[i] = ts[i + (n - k)]
      BY <1>2
    <2> HIDE DEF old
    <2>2. /\ Append(old, e) \in Seq(Line) /\ Len(Append(old, e)) = k + 1
          /\ \A i \in 1..k : Append(old, e)[i] = old[i]
          /\ Append(old, e)[k + 1] = e
      BY <1>3
    <2>3. \A i \in 1..(k + 1) : i = k + 1 \/ (i \in 1..k /\ i # k + 1)
      OBVIOUS
    <2> QED
      BY <2>1, <2>2, <2>3
  <1>7. /\ ext \in Seq(Line) /\ Len(ext) = k + 1
        /\ \A i \in 1..(k + 1) :
              ext[i] = IF i = k + 1 THEN e ELSE ts[i + (n - k)]
    <2>1. \A i \in 1..(k + 1) :
             (IF i = k + 1 THEN e ELSE ts[i + (n - k)]) \in Line
      <3>1. \A i \in 1..(k + 1) : i # k + 1 => i \in 1..k
        OBVIOUS
      <3> QED
        BY <1>1, <1>2, <3>1
    <2> QED
      BY <1>4, <1>5, <2>1
  <1>8. ext = Append(old, e)
    <2> HIDE DEF ext, old
    <2> QED
      BY <1>6, <1>7, SeqEqual
  <1> QED
    BY <1>3, <1>8

\* A further line, with what Turn makes of it.
LEMMA AgreesGrows ==
  ASSUME NEW s \in Sample, NEW row \in Row, NEW row2 \in Row,
         NEW lines \in Seq(Line), Agrees(s, row, lines),
         NEW e \in Line, e.turn = Len(lines) + 1,
         Counts(s, e) => /\ row2.best = Better(row.best, e.rank)
                         /\ row2.hit = IF row.hit = 0 THEN Len(lines) + 1
                                       ELSE row.hit,
         ~Counts(s, e) => row2.best = row.best /\ row2.hit = row.hit
  PROVE  Agrees(s, row2, Append(lines, e))
  <1> DEFINE n == Len(lines)
             ext == Append(lines, e)
             hits == {i \in 1..n : Counts(s, lines[i])}
             hits2 == {i \in 1..(n + 1) : Counts(s, ext[i])}
  <1>1. /\ n \in Nat /\ Len(ext) = n + 1 /\ ext[n + 1] = e
        /\ \A i \in 1..n : ext[i] = lines[i]
        /\ \A i \in 1..(n + 1) : i \in 1..n \/ i = n + 1
        /\ \A i \in 1..n : i \in 1..(n + 1) /\ i <= n + 1
        /\ n + 1 \in 1..(n + 1)
    OBVIOUS
  <1>2. \A i \in 1..n : lines[i].turn = i
    BY DEF Agrees
  <1>3. \/ hits = {} /\ row.hit = 0 /\ row.best = 0
        \/ /\ row.hit \in hits /\ \A i \in hits : row.hit <= i
           /\ \A i \in hits : row.best <= lines[i].rank
           /\ \E i \in hits : row.best = lines[i].rank
    BY DEF Agrees
  <1>4. /\ row.hit \in Nat /\ row.best \in Nat /\ e.rank \in Nat
        /\ \A i \in 1..n : lines[i].rank \in Nat
    <2>1. \A i \in 1..n : lines[i] \in Line
      OBVIOUS
    <2> QED
      BY <2>1 DEF Row, Line
  <1>5. \A i \in hits : lines[i].rank > 0 /\ i \in 1..n
    BY DEF Counts
  <1> HIDE DEF ext, n
  <1>6. \A i \in 1..(n + 1) : ext[i].turn = i
    BY <1>1, <1>2 DEF n
  <1>7. CASE ~Counts(s, e)
    <2>1. hits2 = hits
      BY <1>1, <1>7
    <2>2. \A i \in hits : ext[i] = lines[i]
      BY <1>1
    <2> HIDE DEF hits, hits2
    <2> QED
      BY <1>1, <1>3, <1>6, <1>7, <2>1, <2>2 DEF Agrees, hits2, ext
  <1>8. CASE Counts(s, e)
    <2>1. hits2 = hits \cup {n + 1}
      BY <1>1, <1>8
    <2>2. \A i \in hits : ext[i] = lines[i] /\ i <= n + 1 /\ i \in Nat /\ i # 0
      BY <1>1
    <2>3. e.rank > 0
      BY <1>8 DEF Counts
    <2>4. /\ row2.hit \in hits2
          /\ \A i \in hits2 : row2.hit <= i
      <3> HIDE DEF hits, hits2
      <3>1. CASE hits = {}
        BY <1>1, <1>3, <1>8, <2>1, <3>1 DEF n
      <3>2. CASE hits # {}
        BY <1>1, <1>3, <1>8, <2>1, <2>2, <3>2 DEF n
      <3> QED
        BY <3>1, <3>2
    <2>5. /\ \A i \in hits2 : row2.best <= ext[i].rank
          /\ \E i \in hits2 : row2.best = ext[i].rank
      <3>1. row2.best = Better(row.best, e.rank)
        BY <1>8
      <3>2. \A i \in hits : ext[i].rank \in Nat /\ ext[i].rank > 0
        BY <1>4, <1>5, <2>2
      <3> HIDE DEF hits, hits2
      <3>3. CASE hits = {}
        BY <1>1, <1>3, <1>4, <2>1, <3>1, <3>3 DEF Better
      <3>4. CASE hits # {}
        <4>1. PICK i \in hits : row.best = ext[i].rank
          BY <1>3, <2>2, <3>4
        <4>2. row.best > 0 /\ \A j \in hits : row.best <= ext[j].rank
          BY <1>3, <2>2, <3>2, <3>4, <4>1
        <4>3. \/ row2.best = row.best /\ row.best <= e.rank
              \/ row2.best = e.rank /\ e.rank < row.best
          BY <1>4, <3>1, <4>2 DEF Better
        <4> QED
          BY <1>1, <1>4, <2>1, <3>2, <4>1, <4>2, <4>3
      <3> QED
        BY <3>3, <3>4
    <2> HIDE DEF hits, hits2
    <2> QED
      BY <1>1, <1>6, <2>4, <2>5 DEF Agrees, hits2, ext
  <1> QED
    BY <1>7, <1>8

\* A row's part of Agrees is its hit and its best rank.
LEMMA AgreesOnOutcome ==
  ASSUME NEW s \in Sample, NEW row, NEW row2, NEW lines,
         row.hit = row2.hit, row.best = row2.best, Agrees(s, row, lines)
  PROVE  Agrees(s, row2, lines)
  BY DEF Agrees

\* A step of another sample, or one that logs nothing and leaves what is
\* told of s.
LEMMA ToldStays ==
  ASSUME NEW s \in Sample, Told(s), turnLog'[s] = turnLog[s],
         future'[s] \in {"running", "done"} =>
            /\ future'[s] = future[s] /\ turn'[s] = turn[s]
            /\ override'[s] = override[s] /\ RowOf(s)' = RowOf(s),
         sessionLog'[s] # <<>> => sessionLog'[s] = sessionLog[s]
  PROVE  Told(s)'
  BY DEF Told, Tells

LEMMA TellsGrows ==
  ASSUME Telling, NEW s \in Sample, NEW rank \in 0..MaxRank, Turn(s, rank)
  PROVE  /\ turn[s] <= Len(turnLog'[s])
         /\ Agrees(s, RowOf(s)', Recent(turnLog'[s], turn[s]))
  <1> DEFINE ts == turnLog[s]
             k == turn[s] - 1
             e == [turn |-> turn[s], rank |-> rank]
  <1> USE EvaluationRunConstants
  <1>1. /\ ts \in Seq(Line) /\ Len(ts) \in Nat /\ k \in Nat /\ k <= Len(ts)
        /\ k + 1 = turn[s] /\ e \in Line /\ e.turn = k + 1 /\ e.rank = rank
        /\ turn[s] \in Nat
        /\ Agrees(s, RowOf(s), Recent(ts, k))
        /\ override[s] <=> (s \in OverrideSample =>
                               OverrideTurn > 1 /\ turn[s] >= OverrideTurn)
    BY DEF Turn, Telling, Inv, FilesOK, LogsOK, Told, Tells, Line
  <1>2. turnLog'[s] = Append(ts, e)
    BY DEF Turn, Telling, LogsOK
  <1> DEFINE row == RowOf(s)
             row2 == [hit |-> hitTurn'[s], best |-> bestRank'[s],
                      turns |-> turn[s]]
  <1>3. /\ row \in Row /\ row.hit = hitTurn[s] /\ row.best = bestRank[s]
        /\ row2.hit = hitTurn'[s] /\ row2.best = bestRank'[s]
    BY RowOfTyped DEF RowOf, Telling, Inv
  <1>4. row2 \in Row
    <2>1. FilesOK'
      <3>1. [Next]_vars
        BY DEF Next, Converse
      <3> QED
        BY <3>1, FilesStep DEF Telling, Inv
    <2> QED
      BY <1>1, <2>1 DEF FilesOK, Row
  <1>5. Counts(s, e) <=> Scored(s, rank)
    BY <1>1 DEF Counts, Scored
  <1>6. /\ Scored(s, rank) =>
              /\ bestRank'[s] = Better(bestRank[s], rank)
              /\ hitTurn'[s] = IF hitTurn[s] = 0 THEN turn[s] ELSE hitTurn[s]
        /\ ~Scored(s, rank) => /\ bestRank'[s] = bestRank[s]
                               /\ hitTurn'[s] = hitTurn[s]
    BY DEF Turn, Telling, Inv, FilesOK
  <1> HIDE DEF ts, k, e, row, row2
  <1>7. /\ Recent(ts, k) \in Seq(Line) /\ Len(Recent(ts, k)) = k
        /\ Recent(Append(ts, e), k + 1) = Append(Recent(ts, k), e)
    BY <1>1, RecentGrows
  <1>8. Agrees(s, row2, Append(Recent(ts, k), e))
    <2>1. Agrees(s, row, Recent(ts, k))
      BY <1>1 DEF row
    <2>2. /\ Counts(s, e) => /\ row2.best = Better(row.best, e.rank)
                             /\ row2.hit = IF row.hit = 0
                                           THEN Len(Recent(ts, k)) + 1
                                           ELSE row.hit
          /\ ~Counts(s, e) => row2.best = row.best /\ row2.hit = row.hit
      BY <1>1, <1>3, <1>5, <1>6, <1>7
    <2>3. e.turn = Len(Recent(ts, k)) + 1
      BY <1>1, <1>7
    <2> QED
      BY <1>1, <1>3, <1>4, <1>7, <2>1, <2>2, <2>3, AgreesGrows
  <1>9. Agrees(s, row2, Recent(turnLog'[s], turn[s]))
    BY <1>1, <1>2, <1>7, <1>8
  <1>10. Agrees(s, RowOf(s)', Recent(turnLog'[s], turn[s]))
    <2>1. row2.hit = (RowOf(s)').hit /\ row2.best = (RowOf(s)').best
      BY <1>3 DEF RowOf
    <2> QED
      BY <1>9, <2>1, AgreesOnOutcome
  <1>11. turn[s] <= Len(turnLog'[s])
    BY <1>1, <1>2
  <1> QED
    BY <1>10, <1>11

LEMMA TellingStep ==
  ASSUME Telling, [Next]_vars
  PROVE  Telling'
  <1> USE DEF files, started, conversations
  <1>1. Inv'
    BY FilesStep, BookedStep DEF Telling, Inv
  <1>2. CASE Start
    <2>1. LogsOK'
      BY <1>2 DEF Start, Telling, LogsOK
    <2>2. \A s \in Sample : Told(s)'
      BY <1>2, ToldStays DEF Start, Telling
    <2> QED
      BY <1>1, <2>1, <2>2 DEF Telling
  <1>3. ASSUME NEW s \in Sample, Begin(s)
        PROVE  Telling'
    <2>1. LogsOK'
      BY <1>3 DEF Begin, Telling, LogsOK
    <2>2. ASSUME NEW r \in Sample \ {s}
          PROVE  Told(r)'
      BY <1>3, ToldStays DEF Begin, Telling, Inv, FilesOK, LogsOK, RowOf
    <2>3. Told(s)'
      <3>1. /\ future'[s] = "running" /\ turn'[s] = 1 /\ turnLog' = turnLog
            /\ sessionLog' = sessionLog /\ sessionLog[s] = <<>>
            /\ (RowOf(s)').hit = 0 /\ (RowOf(s)').best = 0
            /\ override'[s] <=> s \notin OverrideSample
        BY <1>3 DEF Begin, Telling, Inv, Booked, FilesOK, LogsOK, RowOf
      <3>2. turnLog[s] \in Seq(Line) /\ Len(turnLog[s]) \in Nat
        BY DEF Telling, LogsOK
      <3>3. Recent(turnLog[s], 0) = <<>>
        <4>1. 1 + Len(turnLog[s]) - (Len(turnLog[s]) - 0 + 1) = 0
          BY <3>2
        <4> QED
          BY <3>2, <4>1 DEF Recent
      <3>4. Agrees(s, RowOf(s)', <<>>)
        BY <3>1 DEF Agrees
      <3>5. 0 <= Len(turnLog[s]) /\ 1 - 1 = 0
        BY <3>2
      <3>6. override'[s] <=> (s \in OverrideSample =>
                                 OverrideTurn > 1 /\ 1 >= OverrideTurn)
        BY <3>1, EvaluationRunConstants
      <3> QED
        BY <3>1, <3>3, <3>4, <3>5, <3>6 DEF Told, Tells
    <2> QED
      BY <1>1, <2>1, <2>2, <2>3 DEF Telling
  <1>4. ASSUME NEW s \in Sample, NEW rank \in 0..MaxRank, Turn(s, rank)
        PROVE  Telling'
    <2>1. LogsOK'
      <3>1. [turn |-> turn[s], rank |-> rank] \in Line
        BY EvaluationRunConstants DEF Telling, Inv, FilesOK, Line
      <3>2. turnLog' \in [Sample -> Seq(Line)]
        <4>1. Append(turnLog[s], [turn |-> turn[s], rank |-> rank]) \in Seq(Line)
          BY <3>1 DEF Telling, LogsOK
        <4> QED
          BY <1>4, <4>1 DEF Turn, Telling, LogsOK
      <3>3. override' \in [Sample -> BOOLEAN]
        BY <1>4 DEF Turn, Telling, LogsOK
      <3> QED
        BY <3>2, <3>3 DEF LogsOK
    <2>2. ASSUME NEW r \in Sample \ {s}
          PROVE  Told(r)'
      <3>1. /\ turnLog'[r] = turnLog[r] /\ sessionLog'[r] = sessionLog[r]
            /\ future'[r] = future[r] /\ turn'[r] = turn[r]
            /\ override'[r] = override[r]
            /\ hitTurn'[r] = hitTurn[r] /\ bestRank'[r] = bestRank[r]
        BY <1>4 DEF Turn, Telling, Inv, FilesOK, LogsOK
      <3> QED
        BY <3>1, ToldStays DEF Telling, RowOf
    <2>3. Told(s)'
      <3>1. /\ turn[s] <= Len(turnLog'[s])
            /\ Agrees(s, RowOf(s)', Recent(turnLog'[s], turn[s]))
        BY <1>4, TellsGrows
      <3>2. /\ turn[s] \in Nat /\ turn[s] >= 1 /\ sessionLog'[s] = <<>>
            /\ override[s] <=> (s \in OverrideSample =>
                                   OverrideTurn > 1 /\ turn[s] >= OverrideTurn)
        BY <1>4 DEF Turn, Telling, Inv, Booked, FilesOK, Told
      <3>3. CASE Ends(s, Scored(s, rank))
        <4>1. future'[s] = "done" /\ turn'[s] = turn[s]
          BY <1>4, <3>3 DEF Turn, Telling, Inv, FilesOK
        <4> QED
          BY <3>1, <3>2, <4>1 DEF Told, Tells
      <3>4. CASE ~Ends(s, Scored(s, rank))
        <4>1. /\ future'[s] = "running" /\ turn'[s] = turn[s] + 1
              /\ override'[s] <=> override[s] \/ turn[s] + 1 = OverrideTurn
          BY <1>4, <3>4 DEF Turn, Telling, Inv, FilesOK, LogsOK
        <4>2. turn'[s] - 1 = turn[s] /\ turn'[s] >= 1
          BY <3>2, <4>1
        <4>3. override'[s] <=> (s \in OverrideSample =>
                                   OverrideTurn > 1 /\ turn'[s] >= OverrideTurn)
          BY <3>2, <4>1, EvaluationRunConstants
        <4> QED
          BY <3>1, <3>2, <4>1, <4>2, <4>3 DEF Told, Tells
      <3> QED
        BY <3>3, <3>4
    <2> QED
      BY <1>1, <2>1, <2>2, <2>3 DEF Telling
  <1>5. ASSUME NEW s \in Sample, Raise(s)
        PROVE  Telling'
    <2>1. LogsOK'
      BY <1>5 DEF Raise, Telling, LogsOK
    <2>2. \A r \in Sample : Told(r)'
      BY <1>5, ToldStays DEF Raise, Telling, Inv, FilesOK, RowOf
    <2> QED
      BY <1>1, <2>1, <2>2 DEF Telling
  <1>6. ASSUME NEW s \in Sample, Collect(s)
        PROVE  Telling'
    <2>1. LogsOK'
      BY <1>6 DEF Collect, Telling, LogsOK
    <2>2. ASSUME NEW r \in Sample \ {s}
          PROVE  Told(r)'
      BY <1>6, ToldStays DEF Collect, Telling, Inv, FilesOK, RowOf
    <2>3. Told(s)'
      <3>1. /\ future'[s] = "collected" /\ turnLog' = turnLog
            /\ Tells(s, RowOf(s), turn[s])
        BY <1>6 DEF Collect, Telling, Inv, FilesOK, Told
      <3>2. sessionLog'[s][1] = RowOf(s) /\ RowOf(s).turns = turn[s]
        <4>1. sessionLog[s] = <<>>
          BY <1>6 DEF Collect, Telling, Inv, Booked
        <4>2. sessionLog'[s] = Append(sessionLog[s], RowOf(s))
          BY <1>6 DEF Collect, Telling, Inv, FilesOK
        <4>3. sessionLog'[s][1] = RowOf(s)
          BY <4>1, <4>2
        <4> QED
          BY <4>3 DEF RowOf
      <3> HIDE DEF files, started, conversations
      <3> QED
        BY <3>1, <3>2 DEF Told, Tells
    <2> QED
      BY <1>1, <2>1, <2>2, <2>3 DEF Telling
  <1>7. CASE (\E s \in Sample : Leave(s)) \/ Fail \/ Report \/ UNCHANGED vars
    <2>1. UNCHANGED <<turnLog, sessionLog, future, conversations>>
      BY <1>7 DEF Leave, Fail, Report, vars
    <2>2. LogsOK'
      BY <2>1 DEF Telling, LogsOK
    <2>3. \A r \in Sample : Told(r)'
      BY <2>1, ToldStays DEF Telling, RowOf
    <2> QED
      BY <1>1, <2>2, <2>3 DEF Telling
  <1>8. CASE Crash
    <2>1. LogsOK'
      BY <1>8 DEF Crash, Telling, LogsOK
    <2>2. \A r \in Sample : Told(r)'
      BY <1>8, ToldStays DEF Crash, Telling
    <2> QED
      BY <1>1, <2>1, <2>2 DEF Telling
  <1> QED
    BY <1>2, <1>3, <1>4, <1>5, <1>6, <1>7, <1>8 DEF Next, Converse

\* Through crashes, failures and resumed runs, a row of sessions.jsonl says
\* what the last lines turns.jsonl has of the sample say (_run_session).
THEOREM RowsTellTheLog == Spec => []RowsMatchTurns
  <1>1. Init => Telling
    BY InvInit DEF Init, Telling, LogsOK, Told, NoRows
  <1>2. Telling => RowsMatchTurns
    BY DEF Telling, Told, Tells, Recent, RowsMatchTurns
  <1> QED
    BY <1>1, <1>2, TellingStep, PTL DEF Spec
=============================================================================
