----------------------- MODULE SurfaceRealizerProofs -----------------------
(***************************************************************************)
(* Proofs about SurfaceRealizer, for any number of threads, keys, wordings *)
(* and retries and for all bounds.                                         *)
(***************************************************************************)
EXTENDS SurfaceRealizer, FiniteSetTheorems, TLAPS

Saving(t) == at[t] \in {"writing", "written"}

\* _lock is held across steps by the one thread that saves.
Locked == /\ lock <=> \E t \in Thread : Saving(t)
          /\ \A t, u \in Thread : Saving(t) /\ Saving(u) => t = u

\* How far an owner's call has come, in its reply, the cache and the file.
Progress(t) ==
    /\ at[t] \in {"requesting", "received"} => cache[key[t]] = NoMessage
    /\ at[t] \in {"received", "writing", "written"} => reply[t] \in Message
    /\ ~Owner(t) \/ at[t] = "requesting" => reply[t] = NoMessage
    /\ Saving(t) => cache[key[t]] = reply[t]
    /\ at[t] = "written" => temp = cache

\* The cache extends the file.
Extends == \A k \in Key : disk[k] # NoMessage => cache[k] = disk[k]

\* With no failed save, the file is the cache except during a save, and has
\* the wordings callers were given or are about to be.
Saved ==
    saveErrors = 0 =>
       /\ ~lock => cache = disk
       /\ \A k \in Key : returned[k] \subseteq {disk[k]}
       /\ \A t \in Thread : at[t] = "finishing" /\ reply[t] # NoMessage
                               => disk[key[t]] = reply[t]

Inv == /\ TypeOK
       /\ SingleFlight
       /\ Locked
       /\ \A t \in Thread : Progress(t)
       /\ Extends
       /\ Saved

LEMMA InvInit == Init => Inv
  <1> SUFFICES ASSUME Init
               PROVE  Inv
    OBVIOUS
  <1>1. TypeOK
    <2>1. attempt \in [Thread -> 0..RetryCount]
      BY SurfaceRealizerConstants DEF Init
    <2>2. NoEntries \in Entries
      BY DEF NoEntries, Entries
    <2> QED
      BY <2>1, <2>2 DEF Init, TypeOK, Place
  <1>2. SingleFlight
    BY DEF Init, SingleFlight, Owner
  <1>3. Locked /\ (\A t \in Thread : Progress(t)) /\ Extends /\ Saved
    BY DEF Init, Locked, Saving, Progress, Owner, Extends, Saved, NoEntries
  <1> QED
    BY <1>1, <1>2, <1>3 DEF Inv

LEMMA InvStep ==
  ASSUME Inv, [Next]_vars
  PROVE  Inv'
  <1> USE SurfaceRealizerConstants
      DEF Entries, Place, Goto, Returns, callVars, files, history
  <1>1. ASSUME NEW t \in Thread, NEW k \in Key, Call(t, k)
        PROVE  Inv'
    <2>1. TypeOK'
      BY <1>1 DEF Call, Inv, TypeOK
    <2>2. SingleFlight'
      BY <1>1 DEF Call, Inv, SingleFlight, Owner, TypeOK
    <2>3. Locked'
      BY <1>1 DEF Call, Inv, Locked, Saving, TypeOK
    <2>4. (\A u \in Thread : Progress(u))'
      BY <1>1 DEF Call, Inv, Progress, Owner, Saving, TypeOK, SingleFlight, Locked
    <2>5. Extends'
      BY <1>1 DEF Call, Inv, Extends, TypeOK, Progress, Saving
    <2>6. Saved'
      BY <1>1 DEF Call, Inv, Saved, TypeOK, Extends, Progress, Owner, Saving, SingleFlight, Locked
    <2> QED
      BY <2>1, <2>2, <2>3, <2>4, <2>5, <2>6 DEF Inv
  <1>2. ASSUME NEW t \in Thread, Hit(t)
        PROVE  Inv'
    <2>1. TypeOK'
      BY <1>2 DEF Hit, Inv, TypeOK
    <2>2. SingleFlight'
      BY <1>2 DEF Hit, Inv, SingleFlight, Owner, TypeOK
    <2>3. Locked'
      BY <1>2 DEF Hit, Inv, Locked, Saving, TypeOK
    <2>4. (\A u \in Thread : Progress(u))'
      BY <1>2 DEF Hit, Inv, Progress, Owner, Saving, TypeOK, SingleFlight, Locked
    <2>5. Extends'
      BY <1>2 DEF Hit, Inv, Extends, TypeOK, Progress, Saving
    <2>6. Saved'
      BY <1>2 DEF Hit, Inv, Saved, TypeOK, Extends, Progress, Owner, Saving, SingleFlight, Locked
    <2> QED
      BY <2>1, <2>2, <2>3, <2>4, <2>5, <2>6 DEF Inv
  <1>3. ASSUME NEW t \in Thread, Own(t)
        PROVE  Inv'
    <2>1. TypeOK'
      BY <1>3 DEF Own, Inv, TypeOK
    <2>2. SingleFlight'
      BY <1>3 DEF Own, Inv, SingleFlight, Owner, TypeOK
    <2>3. Locked'
      BY <1>3 DEF Own, Inv, Locked, Saving, TypeOK
    <2>4. (\A u \in Thread : Progress(u))'
      BY <1>3 DEF Own, Inv, Progress, Owner, Saving, TypeOK, SingleFlight, Locked
    <2>5. Extends'
      BY <1>3 DEF Own, Inv, Extends, TypeOK, Progress, Saving
    <2>6. Saved'
      BY <1>3 DEF Own, Inv, Saved, TypeOK, Extends, Progress, Owner, Saving, SingleFlight, Locked
    <2> QED
      BY <2>1, <2>2, <2>3, <2>4, <2>5, <2>6 DEF Inv
  <1>4. ASSUME NEW t \in Thread, Join(t)
        PROVE  Inv'
    <2>1. TypeOK'
      BY <1>4 DEF Join, Inv, TypeOK
    <2>2. SingleFlight'
      BY <1>4 DEF Join, Inv, SingleFlight, Owner, TypeOK
    <2>3. Locked'
      BY <1>4 DEF Join, Inv, Locked, Saving, TypeOK
    <2>4. (\A u \in Thread : Progress(u))'
      BY <1>4 DEF Join, Inv, Progress, Owner, Saving, TypeOK, SingleFlight, Locked
    <2>5. Extends'
      BY <1>4 DEF Join, Inv, Extends, TypeOK, Progress, Saving
    <2>6. Saved'
      BY <1>4 DEF Join, Inv, Saved, TypeOK, Extends, Progress, Owner, Saving, SingleFlight, Locked
    <2> QED
      BY <2>1, <2>2, <2>3, <2>4, <2>5, <2>6 DEF Inv
  <1>5. ASSUME NEW t \in Thread, NEW m \in Message, Answer(t, m)
        PROVE  Inv'
    <2>1. TypeOK'
      BY <1>5 DEF Answer, Inv, TypeOK
    <2>2. SingleFlight'
      BY <1>5 DEF Answer, Inv, SingleFlight, Owner, TypeOK
    <2>3. Locked'
      BY <1>5 DEF Answer, Inv, Locked, Saving, TypeOK
    <2>4. (\A u \in Thread : Progress(u))'
      BY <1>5 DEF Answer, Inv, Progress, Owner, Saving, TypeOK, SingleFlight, Locked
    <2>5. Extends'
      BY <1>5 DEF Answer, Inv, Extends, TypeOK, Progress, Saving
    <2>6. Saved'
      BY <1>5 DEF Answer, Inv, Saved, TypeOK, Extends, Progress, Owner, Saving, SingleFlight, Locked
    <2> QED
      BY <2>1, <2>2, <2>3, <2>4, <2>5, <2>6 DEF Inv
  <1>6. ASSUME NEW t \in Thread, Retry(t)
        PROVE  Inv'
    <2>1. TypeOK'
      BY <1>6 DEF Retry, Inv, TypeOK
    <2>2. SingleFlight'
      BY <1>6 DEF Retry, Inv, SingleFlight, Owner, TypeOK
    <2>3. Locked'
      BY <1>6 DEF Retry, Inv, Locked, Saving, TypeOK
    <2>4. (\A u \in Thread : Progress(u))'
      BY <1>6 DEF Retry, Inv, Progress, Owner, Saving, TypeOK, SingleFlight, Locked
    <2>5. Extends'
      BY <1>6 DEF Retry, Inv, Extends, TypeOK, Progress, Saving
    <2>6. Saved'
      BY <1>6 DEF Retry, Inv, Saved, TypeOK, Extends, Progress, Owner, Saving, SingleFlight, Locked
    <2> QED
      BY <2>1, <2>2, <2>3, <2>4, <2>5, <2>6 DEF Inv
  <1>7. ASSUME NEW t \in Thread, GiveUp(t)
        PROVE  Inv'
    <2>1. TypeOK'
      BY <1>7 DEF GiveUp, Inv, TypeOK
    <2>2. SingleFlight'
      BY <1>7 DEF GiveUp, Inv, SingleFlight, Owner, TypeOK
    <2>3. Locked'
      BY <1>7 DEF GiveUp, Inv, Locked, Saving, TypeOK
    <2>4. (\A u \in Thread : Progress(u))'
      BY <1>7 DEF GiveUp, Inv, Progress, Owner, Saving, TypeOK, SingleFlight, Locked
    <2>5. Extends'
      BY <1>7 DEF GiveUp, Inv, Extends, TypeOK, Progress, Saving
    <2>6. Saved'
      BY <1>7 DEF GiveUp, Inv, Saved, TypeOK, Extends, Progress, Owner, Saving, SingleFlight, Locked
    <2> QED
      BY <2>1, <2>2, <2>3, <2>4, <2>5, <2>6 DEF Inv
  <1>8. ASSUME NEW t \in Thread, StoreBegin(t)
        PROVE  Inv'
    <2>1. TypeOK'
      BY <1>8 DEF StoreBegin, Inv, TypeOK
    <2>2. SingleFlight'
      BY <1>8 DEF StoreBegin, Inv, SingleFlight, Owner, TypeOK
    <2>3. Locked'
      BY <1>8 DEF StoreBegin, Inv, Locked, Saving, TypeOK
    <2>4. (\A u \in Thread : Progress(u))'
      BY <1>8 DEF StoreBegin, Inv, Progress, Owner, Saving, TypeOK, SingleFlight, Locked
    <2>5. Extends'
      BY <1>8 DEF StoreBegin, Inv, Extends, TypeOK, Progress, Saving
    <2>6. Saved'
      BY <1>8 DEF StoreBegin, Inv, Saved, TypeOK, Extends, Progress, Owner, Saving, SingleFlight, Locked
    <2> QED
      BY <2>1, <2>2, <2>3, <2>4, <2>5, <2>6 DEF Inv
  <1>9. ASSUME NEW t \in Thread, WriteEnd(t)
        PROVE  Inv'
    <2>1. TypeOK'
      BY <1>9 DEF WriteEnd, Inv, TypeOK
    <2>2. SingleFlight'
      BY <1>9 DEF WriteEnd, Inv, SingleFlight, Owner, TypeOK
    <2>3. Locked'
      BY <1>9 DEF WriteEnd, Inv, Locked, Saving, TypeOK
    <2>4. (\A u \in Thread : Progress(u))'
      BY <1>9 DEF WriteEnd, Inv, Progress, Owner, Saving, TypeOK, SingleFlight, Locked
    <2>5. Extends'
      BY <1>9 DEF WriteEnd, Inv, Extends, TypeOK, Progress, Saving
    <2>6. Saved'
      BY <1>9 DEF WriteEnd, Inv, Saved, TypeOK, Extends, Progress, Owner, Saving, SingleFlight, Locked
    <2> QED
      BY <2>1, <2>2, <2>3, <2>4, <2>5, <2>6 DEF Inv
  <1>10. ASSUME NEW t \in Thread, Replace(t)
        PROVE  Inv'
    <2>1. TypeOK'
      BY <1>10 DEF Replace, Inv, TypeOK, Progress
    <2>2. SingleFlight'
      BY <1>10 DEF Replace, Inv, SingleFlight, Owner, TypeOK
    <2>3. Locked'
      BY <1>10 DEF Replace, Inv, Locked, Saving, TypeOK
    <2>4. (\A u \in Thread : Progress(u))'
      BY <1>10 DEF Replace, Inv, Progress, Owner, Saving, TypeOK, SingleFlight, Locked
    <2>5. Extends'
      BY <1>10 DEF Replace, Inv, Extends, TypeOK, Progress, Saving
    <2>6. Saved'
      BY <1>10 DEF Replace, Inv, Saved, TypeOK, Extends, Progress, Owner, Saving, SingleFlight, Locked
    <2> QED
      BY <2>1, <2>2, <2>3, <2>4, <2>5, <2>6 DEF Inv
  <1>11. ASSUME NEW t \in Thread, SaveFails(t)
        PROVE  Inv'
    <2>1. TypeOK'
      <3>1. saveErrors' \in Nat /\ restarts' \in Nat /\ calls' \in Nat
        BY <1>11 DEF SaveFails, Inv, TypeOK
      <3> QED
        BY <1>11, <3>1 DEF SaveFails, Inv, TypeOK
    <2>2. SingleFlight'
      BY <1>11 DEF SaveFails, Inv, SingleFlight, Owner, TypeOK
    <2>3. Locked'
      BY <1>11 DEF SaveFails, Inv, Locked, Saving, TypeOK
    <2>4. (\A u \in Thread : Progress(u))'
      BY <1>11 DEF SaveFails, Inv, Progress, Owner, Saving, TypeOK, SingleFlight, Locked
    <2>5. Extends'
      BY <1>11 DEF SaveFails, Inv, Extends, TypeOK, Progress, Saving
    <2>6. Saved'
      BY <1>11 DEF SaveFails, Inv, Saved, TypeOK, Extends, Progress, Owner, Saving, SingleFlight, Locked
    <2> QED
      BY <2>1, <2>2, <2>3, <2>4, <2>5, <2>6 DEF Inv
  <1>12. ASSUME NEW t \in Thread, Finish(t)
        PROVE  Inv'
    <2>1. TypeOK'
      BY <1>12 DEF Finish, Woken, Inv, TypeOK
    <2>2. SingleFlight'
      <3>1. \A u \in Thread : Owner(u)' <=> Owner(u) /\ u # t
        BY <1>12 DEF Finish, Woken, Owner, Inv, TypeOK
      <3>2. \A u \in Thread : Owner(u) /\ u # t => key[u] # key[t]
        BY <1>12 DEF Finish, Owner, Inv, SingleFlight
      <3>3. inflight' = {key'[u] : u \in {v \in Thread : Owner(v)'}}
        BY <1>12, <3>1, <3>2 DEF Finish, Inv, SingleFlight
      <3>4. \A u \in Thread : at'[u] = "waiting" =>
               at[u] = "waiting" /\ key[u] # key[t]
        BY <1>12 DEF Finish, Woken, Inv, TypeOK
      <3> QED
        BY <1>12, <3>1, <3>2, <3>3, <3>4 DEF Finish, Inv, SingleFlight
    <2>3. Locked'
      BY <1>12 DEF Finish, Woken, Inv, Locked, Saving, TypeOK
    <2>4. (\A u \in Thread : Progress(u))'
      BY <1>12 DEF Finish, Woken, Inv, Progress, Owner, Saving, TypeOK, SingleFlight, Locked
    <2>5. Extends'
      BY <1>12 DEF Finish, Woken, Inv, Extends, TypeOK, Progress, Saving
    <2>6. Saved'
      BY <1>12 DEF Finish, Woken, Inv, Saved, TypeOK, Extends, Progress, Owner, Saving, SingleFlight, Locked
    <2> QED
      BY <2>1, <2>2, <2>3, <2>4, <2>5, <2>6 DEF Inv
  <1>13. CASE Restart
    <2>1. TypeOK'
      <3>1. saveErrors' \in Nat /\ restarts' \in Nat /\ calls' \in Nat
        BY <1>13 DEF Restart, Inv, TypeOK
      <3> QED
        BY <1>13, <3>1 DEF Restart, Inv, TypeOK
    <2>2. SingleFlight'
      BY <1>13 DEF Restart, Inv, SingleFlight, Owner, TypeOK
    <2>3. Locked'
      BY <1>13 DEF Restart, Inv, Locked, Saving, TypeOK
    <2>4. (\A u \in Thread : Progress(u))'
      BY <1>13 DEF Restart, Inv, Progress, Owner, Saving, TypeOK, SingleFlight, Locked
    <2>5. Extends'
      BY <1>13 DEF Restart, Inv, Extends, TypeOK, Progress, Saving
    <2>6. Saved'
      BY <1>13 DEF Restart, Inv, Saved, TypeOK, Extends, Progress, Owner, Saving, SingleFlight, Locked
    <2> QED
      BY <2>1, <2>2, <2>3, <2>4, <2>5, <2>6 DEF Inv
  <1>14. CASE UNCHANGED vars
    <2>1. TypeOK'
      BY <1>14 DEF vars, Inv, TypeOK
    <2>2. SingleFlight'
      BY <1>14 DEF vars, Inv, SingleFlight, Owner, TypeOK
    <2>3. Locked'
      BY <1>14 DEF vars, Inv, Locked, Saving, TypeOK
    <2>4. (\A u \in Thread : Progress(u))'
      BY <1>14 DEF vars, Inv, Progress, Owner, Saving, TypeOK, SingleFlight, Locked
    <2>5. Extends'
      BY <1>14 DEF vars, Inv, Extends, TypeOK, Progress, Saving
    <2>6. Saved'
      BY <1>14 DEF vars, Inv, Saved, TypeOK, Extends, Progress, Owner, Saving, SingleFlight, Locked
    <2> QED
      BY <2>1, <2>2, <2>3, <2>4, <2>5, <2>6 DEF Inv
  <1> QED
    BY <1>1, <1>2, <1>3, <1>4, <1>5, <1>6, <1>7, <1>8, <1>9, <1>10, <1>11, <1>12, <1>13, <1>14
    DEF Next, Look, Request, Save

LEMMA Invariant == Spec => []Inv
  BY InvInit, InvStep, PTL DEF Spec

\* Every field of the realizer and of its cache file keeps its type; the
\* file itself is never half-written.
THEOREM RealizerTyped == Spec => []TypeOK
  BY Invariant, PTL DEF Inv

\* One request per key is in flight at a time, and who waits waits for a
\* request that a thread is still running.
THEOREM OneFlightPerKey == Spec => []SingleFlight
  BY Invariant, PTL DEF Inv

\* Unless a save failed, what callers were given is in the cache file.
THEOREM GivenWordingsSaved == Spec => []WordingDurable
  <1>1. Inv => WordingDurable
    BY DEF Inv, Saved, WordingDurable
  <1> QED
    BY <1>1, Invariant, PTL

\* No step, crash and failed save included, tears the cache file or takes a
\* wording out of it.
THEOREM FileOnlyGrows == Spec => FileKept
  <1>1. ASSUME Inv, Inv', [Next]_vars
        PROVE  [/\ disk' \in Entries
                /\ \A k \in Key : disk[k] # NoMessage => disk'[k] = disk[k]]_disk
    <2>1. CASE disk' = disk
      BY <2>1
    <2>2. CASE disk' # disk
      <3>1. PICK t \in Thread : Replace(t)
        BY <1>1, <2>2 DEF Next, Call, Look, Hit, Own, Join, Request, Retry,
                          GiveUp, Answer, StoreBegin, Save, WriteEnd,
                          SaveFails, Finish, Restart, vars, files
      <3>2. disk' = cache
        BY <1>1, <3>1 DEF Replace, Inv, Progress
      <3> QED
        BY <1>1, <3>2 DEF Inv, Extends, TypeOK
    <2> QED
      BY <2>1, <2>2
  <1> QED
    BY <1>1, Invariant, PTL DEF Spec, FileKept

-----------------------------------------------------------------------------
(* The requests a process pays for.                                        *)

Added == {k \in Key : cache[k] # loaded[k]}

\* The cache keeps what this process loaded, and what it added is counted.
Counted == /\ \A k \in Key : loaded[k] # NoMessage => cache[k] = loaded[k]
           /\ IsFiniteSet(Added)
           /\ apiCalls = Cardinality(Added)

LEMMA CountedStep ==
  ASSUME Inv, Counted, [Next]_vars
  PROVE  Counted'
  <1> USE SurfaceRealizerConstants DEF callVars, files, history
  <1>1. CASE UNCHANGED <<cache, loaded, apiCalls>>
    BY <1>1 DEF Counted, Added
  <1>2. ASSUME NEW t \in Thread, StoreBegin(t)
        PROVE  Counted'
    <2>1. key[t] \in Key /\ reply[t] \in Message /\ cache[key[t]] = NoMessage
      BY <1>2 DEF StoreBegin, Inv, TypeOK, Progress
    <2>2. loaded[key[t]] = NoMessage
      BY <2>1 DEF Counted
    <2>3. key[t] \notin Added /\ Added' = Added \cup {key[t]}
      BY <1>2, <2>1, <2>2 DEF StoreBegin, Added, Inv, TypeOK, Entries
    <2>4. /\ IsFiniteSet(Added \cup {key[t]})
          /\ Cardinality(Added \cup {key[t]}) = Cardinality(Added) + 1
      BY <2>3, FS_AddElement DEF Counted
    <2>5. apiCalls' = Cardinality(Added')
      BY <1>2, <2>3, <2>4 DEF StoreBegin, Counted
    <2>6. \A k \in Key : loaded'[k] # NoMessage => cache'[k] = loaded'[k]
      BY <1>2, <2>1, <2>2 DEF StoreBegin, Counted, Inv, TypeOK, Entries
    <2> QED
      BY <2>3, <2>4, <2>5, <2>6 DEF Counted
  <1>3. CASE Restart
    <2>1. Added' = {}
      BY <1>3 DEF Restart, Added
    <2> QED
      BY <1>3, <2>1, FS_EmptySet DEF Restart, Counted
  <1>4. UNCHANGED <<cache, loaded, apiCalls>> \/ Restart
           \/ \E t \in Thread : StoreBegin(t)
    BY DEF Next, Call, Look, Hit, Own, Join, Request, Retry, GiveUp, Answer,
           Save, WriteEnd, Replace, SaveFails, Finish, vars
  <1> QED
    BY <1>1, <1>2, <1>3, <1>4

\* A process stores one answer per key and counts it once: the rewrites of one
\* message by several threads end in one stored answer.
THEOREM StoredOncePerKey == Spec => []GeneratedOnce
  <1>1. Init => Counted
    <2>1. Init => Added = {}
      BY DEF Init, Added
    <2> QED
      BY <2>1, FS_EmptySet DEF Init, Counted, NoEntries
  <1>2. Counted => GeneratedOnce
    BY DEF Counted, GeneratedOnce, Added
  <1> QED
    BY <1>1, <1>2, CountedStep, Invariant, PTL DEF Spec
=============================================================================
