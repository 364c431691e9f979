-------------------------- MODULE SurfaceRealizer --------------------------
(***************************************************************************)
(* DeepSeekSurfaceRealizer                                                 *)
(* (src/shopping_copilot/simulator/deepseek_surface.py): threads ask for   *)
(* the wording of canonical messages; one request per message is in flight *)
(* at a time, its answer goes to a cache in memory and in a file, and the  *)
(* threads that waited for it look again.  A restart reads the file back.  *)
(*                                                                         *)
(* Each critical section of _lock is one step, except the one that saves:  *)
(* the process may die, or the write fail, between its writes.  A message  *)
(* is a model value, a canonical message with its reply type is its key.   *)
(***************************************************************************)
EXTENDS Naturals, FiniteSets

CONSTANTS Thread,         \* the threads calling rewrite
          Key,            \* the cache keys
          Message,        \* the wordings the model may answer with
          NoMessage,      \* None, where a wording may stand
          Torn,           \* the contents of a half-written file
          RetryCount,     \* retry_count
          MaxCalls,       \* bound on the calls of rewrite
          MaxSaveErrors,  \* bound on the saves that fail
          MaxRestarts     \* bound on the restarts

ASSUME SurfaceRealizerConstants ==
          /\ NoMessage \notin Message
          /\ Torn \notin [Key -> Message \cup {NoMessage}]
          /\ RetryCount \in Nat \ {0}
          /\ MaxCalls \in Nat /\ MaxSaveErrors \in Nat /\ MaxRestarts \in Nat

VARIABLES cache,       \* _cache, NoMessage for a key it lacks
          inflight,    \* the keys of _inflight, each with its Event
          lock,        \* _lock is held across the steps of a save
          apiCalls,    \* _api_calls
          disk,        \* what the cache file holds
          temp,        \* what the temporary file beside it holds
          at,          \* where each thread is in rewrite
          key,         \* the key of the thread's call
          attempt,     \* attempt, in _request
          reply,       \* what the call will return; NoMessage if it raises
          loaded,      \* the cache this process started with
          returned,    \* per key, the wordings returned so far, in any process
          calls, saveErrors, restarts  \* counted for the bounds

callVars == <<at, key, attempt, reply>>
files == <<disk, temp>>
history == <<loaded, returned, calls, saveErrors, restarts>>
vars == <<cache, inflight, lock, apiCalls, callVars, files, history>>

Entries == [Key -> Message \cup {NoMessage}]
NoEntries == [k \in Key |-> NoMessage]

Place == {"idle", "looking", "waiting", "requesting", "received", "writing",
          "written", "finishing"}

Init == /\ cache = NoEntries
        /\ inflight = {}
        /\ lock = FALSE
        /\ apiCalls = 0
        /\ disk = NoEntries
        /\ temp = NoEntries
        /\ at = [t \in Thread |-> "idle"]
        /\ key \in [Thread -> Key]
        /\ attempt = [t \in Thread |-> 0]
        /\ reply = [t \in Thread |-> NoMessage]
        /\ loaded = NoEntries
        /\ returned = [k \in Key |-> {}]
        /\ calls = 0 /\ saveErrors = 0 /\ restarts = 0

Goto(t, place) == at' = [at EXCEPT ![t] = place]
Returns(t, m) == returned' = [returned EXCEPT ![key[t]] = @ \cup {m}]

-----------------------------------------------------------------------------
(* rewrite, up to the decision who asks the model.                         *)

Call(t, k) == /\ at[t] = "idle"
              /\ calls < MaxCalls
              /\ calls' = calls + 1
              /\ key' = [key EXCEPT ![t] = k]
              /\ Goto(t, "looking")
              /\ UNCHANGED <<cache, inflight, lock, apiCalls, attempt, reply,
                             files, loaded, returned, saveErrors, restarts>>

Hit(t) == /\ at[t] = "looking"
          /\ ~lock
          /\ cache[key[t]] # NoMessage
          /\ Returns(t, cache[key[t]])
          /\ Goto(t, "idle")
          /\ UNCHANGED <<cache, inflight, lock, apiCalls, key, attempt, reply,
                         files, loaded, calls, saveErrors, restarts>>

\* Mutant: a thread that waited asks without looking in the cache again.
Own_NoRecheck(t) ==
    /\ at[t] = "looking"
    /\ ~lock
    /\ key[t] \notin inflight
    /\ inflight' = inflight \cup {key[t]}
    /\ attempt' = [attempt EXCEPT ![t] = 1]
    /\ Goto(t, "requesting")
    /\ UNCHANGED <<cache, lock, apiCalls, key, reply, files, history>>

\* Mutant: a request in flight for the same key is not noticed.
Own_Unshared(t) ==
    /\ at[t] = "looking"
    /\ ~lock
    /\ cache[key[t]] = NoMessage
    /\ inflight' = inflight \cup {key[t]}
    /\ attempt' = [attempt EXCEPT ![t] = 1]
    /\ Goto(t, "requesting")
    /\ UNCHANGED <<cache, lock, apiCalls, key, reply, files, history>>

Own(t) == /\ at[t] = "looking"
          /\ ~lock
          /\ cache[key[t]] = NoMessage
          /\ key[t] \notin inflight
          /\ inflight' = inflight \cup {key[t]}
          /\ attempt' = [attempt EXCEPT ![t] = 1]
          /\ Goto(t, "requesting")
          /\ UNCHANGED <<cache, lock, apiCalls, key, reply, files, history>>

Join(t) == /\ at[t] = "looking"
           /\ ~lock
           /\ cache[key[t]] = NoMessage
           /\ key[t] \in inflight
           /\ Goto(t, "waiting")
           /\ UNCHANGED <<cache, inflight, lock, apiCalls, key, attempt, reply,
                          files, history>>

-----------------------------------------------------------------------------
(* _request and _decode_response.                                          *)

Answer(t, m) == /\ at[t] = "requesting"
                /\ reply' = [reply EXCEPT ![t] = m]
                /\ Goto(t, "received")
                /\ UNCHANGED <<cache, inflight, lock, apiCalls, key, attempt,
                               files, history>>

\* OSError, 429 or 5xx, with attempts left.
Retry(t) == /\ at[t] = "requesting"
            /\ attempt[t] < RetryCount
            /\ attempt' = [attempt EXCEPT ![t] = @ + 1]
            /\ UNCHANGED <<cache, inflight, lock, apiCalls, at, key, reply,
                           files, history>>

\* The last attempt failed, or any with another status or a body that
\* _decode_response refuses.
GiveUp(t) == /\ at[t] = "requesting"
             /\ Goto(t, "finishing")
             /\ UNCHANGED <<cache, inflight, lock, apiCalls, key, attempt,
                            reply, files, history>>

-----------------------------------------------------------------------------
(* Storing the answer: _save_cache_locked under _lock.                     *)

\* Mutant: the cache file itself is written, not a temporary one.
StoreBegin_InPlace(t) ==
    /\ at[t] = "received"
    /\ ~lock
    /\ lock' = TRUE
    /\ cache' = [cache EXCEPT ![key[t]] = reply[t]]
    /\ apiCalls' = apiCalls + 1
    /\ disk' = Torn
    /\ Goto(t, "writing")
    /\ UNCHANGED <<inflight, key, attempt, reply, temp, history>>

StoreBegin(t) == /\ at[t] = "received"
                 /\ ~lock
                 /\ lock' = TRUE
                 /\ cache' = [cache EXCEPT ![key[t]] = reply[t]]
                 /\ apiCalls' = apiCalls + 1
                 /\ temp' = Torn
                 /\ Goto(t, "writing")
                 /\ UNCHANGED <<inflight, key, attempt, reply, disk, history>>

\* Mutant: only the new entry is written.
WriteEnd_NewEntryOnly(t) ==
    /\ at[t] = "writing"
    /\ temp' = [NoEntries EXCEPT ![key[t]] = reply[t]]
    /\ Goto(t, "written")
    /\ UNCHANGED <<cache, inflight, lock, apiCalls, key, attempt, reply, disk,
                   history>>

WriteEnd(t) == /\ at[t] = "writing"
               /\ temp' = cache
               /\ Goto(t, "written")
               /\ UNCHANGED <<cache, inflight, lock, apiCalls, key, attempt,
                              reply, disk, history>>

Replace(t) == /\ at[t] = "written"
              /\ disk' = temp
              /\ lock' = FALSE
              /\ Goto(t, "finishing")
              /\ UNCHANGED <<cache, inflight, apiCalls, key, attempt, reply,
                             temp, history>>

\* write_text or replace raises: the entry stays in memory.
SaveFails(t) == /\ at[t] \in {"writing", "written"}
                /\ saveErrors < MaxSaveErrors
                /\ saveErrors' = saveErrors + 1
                /\ lock' = FALSE
                /\ reply' = [reply EXCEPT ![t] = NoMessage]
                /\ Goto(t, "finishing")
                /\ UNCHANGED <<cache, inflight, apiCalls, key, attempt, files,
                               loaded, returned, calls, restarts>>

-----------------------------------------------------------------------------
(* The finally block of rewrite, and the end of the process.               *)

\* Mutant: a call that raises leaves without waking the others.
Woken_OnlyOnSuccess(t) ==
    [u \in Thread |-> IF u = t THEN "idle"
                      ELSE IF /\ at[u] = "waiting" /\ key[u] = key[t]
                              /\ reply[t] # NoMessage
                           THEN "looking" ELSE at[u]]

\* finished.set(): the threads waiting for this key look again.
Woken(t) == [u \in Thread |-> IF u = t THEN "idle"
                              ELSE IF at[u] = "waiting" /\ key[u] = key[t]
                                   THEN "looking" ELSE at[u]]

Finish(t) == /\ at[t] = "finishing"
             /\ ~lock
             /\ inflight' = inflight \ {key[t]}
             /\ at' = Woken(t)
             /\ IF reply[t] = NoMessage THEN UNCHANGED returned
                                        ELSE Returns(t, reply[t])
             /\ reply' = [reply EXCEPT ![t] = NoMessage]
             /\ UNCHANGED <<cache, lock, apiCalls, key, attempt, files,
                            loaded, calls, saveErrors, restarts>>

\* The process dies at any point and a new one calls _load_cache.
Restart == /\ restarts < MaxRestarts
           /\ restarts' = restarts + 1
           /\ disk # Torn
           /\ cache' = disk
           /\ loaded' = disk
           /\ inflight' = {}
           /\ lock' = FALSE
           /\ apiCalls' = 0
           /\ at' = [t \in Thread |-> "idle"]
           /\ reply' = [t \in Thread |-> NoMessage]
           /\ UNCHANGED <<key, attempt, files, returned, calls, saveErrors>>

-----------------------------------------------------------------------------

Look(t) == Hit(t) \/ Own(t) \/ Join(t)
Request(t) == Retry(t) \/ GiveUp(t) \/ \E m \in Message : Answer(t, m)
Save(t) == WriteEnd(t) \/ Replace(t) \/ SaveFails(t)

Next == \/ \E t \in Thread : \/ \E k \in Key : Call(t, k)
                             \/ Look(t)
                             \/ Request(t)
                             \/ StoreBegin(t)
                             \/ Save(t)
                             \/ Finish(t)
        \/ Restart

Spec == Init /\ [][Next]_vars

\* The calls are finitely many, requests time out and retries are counted,
\* so weak fairness of the threads inside rewrite is enough.
Fairness == \A t \in Thread : /\ WF_vars(Look(t))
                              /\ WF_vars(Request(t))
                              /\ WF_vars(StoreBegin(t))
                              /\ WF_vars(Save(t))
                              /\ WF_vars(Finish(t))

FairSpec == Spec /\ Fairness

-----------------------------------------------------------------------------
(* Properties.                                                             *)

\* Every field holds a value of the kind the code gives it.
TypeOK == /\ cache \in Entries
          /\ inflight \subseteq Key
          /\ lock \in BOOLEAN
          /\ apiCalls \in Nat
          /\ disk \in Entries
          /\ temp \in Entries \cup {Torn}
          /\ at \in [Thread -> Place]
          /\ key \in [Thread -> Key]
          /\ attempt \in [Thread -> 0..RetryCount]
          /\ reply \in [Thread -> Message \cup {NoMessage}]
          /\ loaded \in Entries
          /\ returned \in [Key -> SUBSET Message]
          /\ calls \in Nat /\ saveErrors \in Nat /\ restarts \in Nat

\* Thread t runs the request for its key.
Owner(t) == at[t] \notin {"idle", "looking", "waiting"}

\* A key is in flight exactly while one thread runs its request, and a
\* thread only waits for a key in flight: nobody waits for an Event that
\* no finally block is going to set.
SingleFlight ==
    /\ \A t, u \in Thread : Owner(t) /\ Owner(u) /\ key[t] = key[u] => t = u
    /\ inflight = {key[t] : t \in {u \in Thread : Owner(u)}}
    /\ \A t \in Thread : at[t] = "waiting" => key[t] \in inflight

\* However calls, failures and retries interleave, a process stores one
\* answer per key and counts it once: api_calls is the number of keys it
\* added.  It is not the number of paid answers: one _decode_response
\* refuses is neither stored nor counted, and a later call asks again.
GeneratedOnce ==
    apiCalls = Cardinality({k \in Key : cache[k] # loaded[k]})

\* Unless a save failed, a wording a caller was given is in the file, so
\* that every later process gives the same one ("every replay the same
\* wording", deepseek_surface.py:5).
WordingDurable ==
    saveErrors = 0 => \A k \in Key : returned[k] \subseteq {disk[k]}

\* Whatever the moment of a crash or a failed write, the cache file is whole
\* and loses or changes no wording it had.
FileKept == [][/\ disk' \in Entries
               /\ \A k \in Key : disk[k] # NoMessage => disk'[k] = disk[k]]_disk

\* Every call of rewrite returns or raises, also those that wait for a
\* request another thread makes and that fails.
EveryRewriteReturns ==
    \A t \in Thread : at[t] # "idle" ~> at[t] = "idle"
=============================================================================
