---------------------------- MODULE SessionStore ----------------------------
(***************************************************************************)
(* InMemorySessionStore and SessionTransaction                             *)
(* (src/shopping_copilot/session_context/store.py): threads that create    *)
(* sessions, read snapshots and run copy-on-write turn transactions under  *)
(* one lock per session.                                                   *)
(*                                                                         *)
(* A method is split where another thread can interleave with it: between  *)
(* two critical sections of _lifecycle_guard or _entries_guard, before and *)
(* after the blocking acquire of an entry's lock, and between validating   *)
(* a candidate snapshot and swapping it in.  It is also split where an     *)
(* exception such as KeyboardInterrupt makes a difference: between taking  *)
(* the lock and noting it, after the state is ACTIVE, and between swapping *)
(* the snapshot in and the state COMMITTED.  Such exceptions are modelled  *)
(* at the statements of the try blocks of __enter__ and commit, not inside *)
(* the handlers, __exit__ or get.  A call that only raises and changes     *)
(* nothing is a stuttering step and has no action.                         *)
(*                                                                         *)
(* A snapshot is the sequence of its turns, and a turn is its number and   *)
(* the transaction that wrote it: the identity and ordering tests of       *)
(* commit tell no more apart.                                              *)
(***************************************************************************)
EXTENDS Naturals, Sequences, FiniteSets

CONSTANTS Thread,     \* the threads calling the store
          Session,    \* the session ids
          Txn,        \* the SessionTransaction objects turn() can return
          NoTxn,      \* None where a transaction, or its token, may stand
          NoSession,  \* None where a session id may stand
          MaxTurn,    \* bound on the turn numbers callers ask for
          MaxOpen     \* bound on the sessions one thread works on at a time

ASSUME SessionStoreConstants ==
          /\ NoTxn \notin Txn
          /\ NoSession \notin Session
          /\ MaxTurn \in Nat \ {0}
          /\ MaxOpen \in Nat \ {0}

VARIABLES
    entries,         \* _entries: the sessions that exist
    contexts,        \* _SessionEntry.context
    lock,            \* _SessionEntry.lock is held
    activeToken,     \* _SessionEntry.active_token, named by its transaction
    state,           \* SessionTransaction._state
    session,         \* ._session_id
    turn,            \* ._turn
    owner,           \* ._owner_thread_id, as the set of at most one thread
    captured,        \* ._captured
    commitAttempted, \* ._commit_attempted
    lockAcquired,    \* ._lock_acquired
    draft,           \* the next_context passed to commit
    activeSessions,  \* _ThreadState.active_sessions
    at,              \* where the thread is inside a call of the store
    doing,           \* the transaction whose method the thread is inside
    asking,          \* the session whose get the thread is inside
    view,            \* the snapshot each thread's last get returned
    stranded         \* history: the transactions __enter__ was interrupted
                     \* out of without letting their lock go

entryVars == <<entries, contexts, lock, activeToken>>
txnVars == <<state, session, turn, owner, captured, commitAttempted,
             lockAcquired, draft>>
threadVars == <<activeSessions, at, doing, asking, view>>
vars == <<entryVars, txnVars, threadVars, stranded>>

-----------------------------------------------------------------------------
(* Snapshots and what commit accepts.                                      *)

TurnRecord == [turn : Nat, by : Txn]
Context == Seq(TurnRecord)

\* Mutant: the fields are filled in the wrong order.
Record_Swapped(n, x) == [turn |-> x, by |-> n]

Record(n, x) == [turn |-> n, by |-> x]

\* validate_session_context: every turn's number is its place.
ValidContext(c) == \A i \in 1..Len(c) : c[i].turn = i

\* Mutant: the earlier turns are not compared with the captured ones.
ValidTransition_PrefixUnchecked(previous, next, n) ==
    /\ Len(next) = Len(previous) + 1
    /\ n = Len(previous) + 1
    /\ next[Len(next)].turn = n

\* validate_session_transition: exactly one turn, the transaction's, is
\* appended to the captured turns.
ValidTransition(previous, next, n) ==
    /\ Len(next) = Len(previous) + 1
    /\ SubSeq(next, 1, Len(previous)) = previous
    /\ n = Len(previous) + 1
    /\ next[Len(next)].turn = n

\* Snapshots a caller may try to commit: the right one, the captured one
\* again, a misnumbered turn, two turns at once, and a rewritten history.
Drafts(x) ==
    LET c == captured[x]
        r == Record(turn[x], x)
    IN  {Append(c, r), c, Append(c, Record(turn[x] + 1, x)),
         Append(Append(c, r), Record(turn[x] + 1, x))}
        \cup {Append([c EXCEPT ![i].by = x], r) : i \in 1..Len(c)}

\* The token and snapshot tests commit makes before and after validating.
Owns(x) == /\ activeToken[session[x]] = x
           /\ contexts[session[x]] = captured[x]

-----------------------------------------------------------------------------

Init ==
    /\ entries = {}
    /\ contexts = [s \in Session |-> <<>>]
    /\ lock = [s \in Session |-> FALSE]
    /\ activeToken = [s \in Session |-> NoTxn]
    /\ state = [x \in Txn |-> "ABSENT"]
    /\ session = [x \in Txn |-> NoSession]
    /\ turn = [x \in Txn |-> 0]
    /\ owner = [x \in Txn |-> {}]
    /\ captured = [x \in Txn |-> <<>>]
    /\ commitAttempted = [x \in Txn |-> FALSE]
    /\ lockAcquired = [x \in Txn |-> FALSE]
    /\ draft = [x \in Txn |-> <<>>]
    /\ activeSessions = [t \in Thread |-> {}]
    /\ at = [t \in Thread |-> "idle"]
    /\ doing = [t \in Thread |-> NoTxn]
    /\ asking = [t \in Thread |-> NoSession]
    /\ view = [t \in Thread |-> [s \in Session |-> <<>>]]
    /\ stranded = {}

\* The thread goes on to the next step of a method of transaction x.
Goto(t, place, x) == /\ at' = [at EXCEPT ![t] = place]
                     /\ doing' = [doing EXCEPT ![t] = x]
                     /\ UNCHANGED <<asking, view>>

\* The thread's call returns or raises.
Return(t) == Goto(t, "idle", NoTxn)

\* The bound MaxOpen: how many sessions a caller works on at a time.
MayOpen(t, s) == Cardinality(activeSessions[t] \cup {s}) <= MaxOpen

-----------------------------------------------------------------------------
(* Creating sessions and transactions.                                     *)

Reset(t, s) ==
    /\ at[t] = "idle"
    /\ s \notin entries
    /\ entries' = entries \cup {s}
    /\ contexts' = [contexts EXCEPT ![s] = <<>>]
    /\ UNCHANGED <<lock, activeToken, txnVars, threadVars, stranded>>

CreateTransaction(t, x, s, n) ==
    /\ at[t] = "idle"
    /\ state[x] = "ABSENT"
    /\ s \in entries
    /\ state' = [state EXCEPT ![x] = "CREATED"]
    /\ session' = [session EXCEPT ![x] = s]
    /\ turn' = [turn EXCEPT ![x] = n]
    /\ UNCHANGED <<owner, captured, commitAttempted, lockAcquired, draft,
                   entryVars, threadVars, stranded>>

\* commit, or __exit__, of a transaction nobody entered closes it.
CloseUnentered(t, x) ==
    /\ at[t] = "idle"
    /\ state[x] = "CREATED"
    /\ state' = [state EXCEPT ![x] = "CLOSED"]
    /\ UNCHANGED <<session, turn, owner, captured, commitAttempted,
                   lockAcquired, draft, entryVars, threadVars, stranded>>

-----------------------------------------------------------------------------
(* _close_resources, followed in all its callers by the state CLOSED.      *)

\* Mutant: the lock is released whether or not this transaction took it.
CloseResources_ReleasesAnyway(t, x) ==
    /\ activeToken' = [activeToken EXCEPT
                         ![session[x]] = IF @ = x THEN NoTxn ELSE @]
    /\ lock' = [lock EXCEPT ![session[x]] = FALSE]
    /\ lockAcquired' = [lockAcquired EXCEPT ![x] = FALSE]
    /\ activeSessions' = [activeSessions EXCEPT ![t] = @ \ {session[x]}]
    /\ state' = [state EXCEPT ![x] = "CLOSED"]

\* Mutant: the active token is cleared whoever set it.
CloseResources_ClearsAnyToken(t, x) ==
    /\ activeToken' = [activeToken EXCEPT ![session[x]] = NoTxn]
    /\ lock' = [lock EXCEPT ![session[x]] = @ /\ ~lockAcquired[x]]
    /\ lockAcquired' = [lockAcquired EXCEPT ![x] = FALSE]
    /\ activeSessions' = [activeSessions EXCEPT ![t] = @ \ {session[x]}]
    /\ state' = [state EXCEPT ![x] = "CLOSED"]

CloseResources(t, x) ==
    /\ activeToken' = [activeToken EXCEPT
                         ![session[x]] = IF @ = x THEN NoTxn ELSE @]
    /\ lock' = [lock EXCEPT ![session[x]] = @ /\ ~lockAcquired[x]]
    /\ lockAcquired' = [lockAcquired EXCEPT ![x] = FALSE]
    /\ activeSessions' = [activeSessions EXCEPT ![t] = @ \ {session[x]}]
    /\ state' = [state EXCEPT ![x] = "CLOSED"]

-----------------------------------------------------------------------------
(* __enter__.                                                              *)

EnterClaim(t, x) ==
    /\ at[t] = "idle"
    /\ state[x] = "CREATED"
    /\ MayOpen(t, session[x])
    /\ state' = [state EXCEPT ![x] = "ENTERING"]
    /\ owner' = [owner EXCEPT ![x] = {t}]
    /\ Goto(t, "claimed", x)
    /\ UNCHANGED <<session, turn, captured, commitAttempted, lockAcquired,
                   draft, entryVars, activeSessions, stranded>>

\* Mutant: the nested attempt is cleaned up like one that registered.
EnterNested_Cleans(t) ==
    LET x == doing[t] IN
    /\ at[t] = "claimed"
    /\ session[x] \in activeSessions[t]
    /\ CloseResources(t, x)
    /\ Return(t)
    /\ UNCHANGED <<session, turn, owner, captured, commitAttempted, draft,
                   entries, contexts, stranded>>

\* The thread already works on this session: closed without a deadlock.
EnterNested(t) ==
    LET x == doing[t] IN
    /\ at[t] = "claimed"
    /\ session[x] \in activeSessions[t]
    /\ state' = [state EXCEPT ![x] = "CLOSED"]
    /\ Return(t)
    /\ UNCHANGED <<session, turn, owner, captured, commitAttempted,
                   lockAcquired, draft, entryVars, activeSessions, stranded>>

EnterRegister(t) ==
    LET x == doing[t] IN
    /\ at[t] = "claimed"
    /\ session[x] \notin activeSessions[t]
    /\ activeSessions' = [activeSessions EXCEPT ![t] = @ \cup {session[x]}]
    /\ Goto(t, "acquiring", x)
    /\ UNCHANGED <<txnVars, entryVars, stranded>>

EnterAcquire(t) ==
    LET x == doing[t] IN
    /\ at[t] = "acquiring"
    /\ ~lock[session[x]]
    /\ lock' = [lock EXCEPT ![session[x]] = TRUE]
    /\ Goto(t, "acquired", x)
    /\ UNCHANGED <<txnVars, entries, contexts, activeToken, activeSessions,
                   stranded>>

\* The lock is held, and _lock_acquired says so only from here on.
EnterNote(t) ==
    LET x == doing[t] IN
    /\ at[t] = "acquired"
    /\ lockAcquired' = [lockAcquired EXCEPT ![x] = TRUE]
    /\ Goto(t, "entered", x)
    /\ UNCHANGED <<state, session, turn, owner, captured, commitAttempted,
                   draft, entryVars, activeSessions, stranded>>

\* The turn is the next one and no token is active.
Admissible(x) == /\ turn[x] = Len(contexts[session[x]]) + 1
                 /\ activeToken[session[x]] = NoTxn

Admit(t) ==
    LET x == doing[t] IN
    /\ at[t] = "entered"
    /\ Admissible(x)
    /\ activeToken' = [activeToken EXCEPT ![session[x]] = x]
    /\ captured' = [captured EXCEPT ![x] = contexts[session[x]]]
    /\ state' = [state EXCEPT ![x] = "ACTIVE"]
    /\ Return(t)
    /\ UNCHANGED <<session, turn, owner, commitAttempted, lockAcquired,
                   draft, entries, contexts, lock, activeSessions>>

EnterAdmit(t) == Admit(t) /\ UNCHANGED stranded

\* An exception once the state is ACTIVE: the handler closes nothing, and
\* the with statement, which never got the transaction, runs no __exit__.
EnterAdmitInterrupted(t) == /\ Admit(t)
                            /\ stranded' = stranded \cup {doing[t]}

\* Mutant: the turn test raises outside the try block.
EnterReject_NoCleanup(t) ==
    LET x == doing[t] IN
    /\ at[t] = "entered"
    /\ ~Admissible(x)
    /\ state' = [state EXCEPT ![x] = "CLOSED"]
    /\ Return(t)
    /\ UNCHANGED <<session, turn, owner, captured, commitAttempted,
                   lockAcquired, draft, entryVars, activeSessions, stranded>>

EnterReject(t) ==
    LET x == doing[t] IN
    /\ at[t] = "entered"
    /\ ~Admissible(x)
    /\ CloseResources(t, x)
    /\ Return(t)
    /\ UNCHANGED <<session, turn, owner, captured, commitAttempted, draft,
                   entries, contexts, stranded>>

\* An exception out of the blocking acquire, or at a statement after it,
\* reaches the except BaseException handler.  Before _lock_acquired is set,
\* the handler does not know of the lock and leaves it held.
EnterInterrupted(t) ==
    LET x == doing[t] IN
    /\ at[t] \in {"acquiring", "acquired", "entered"}
    /\ CloseResources(t, x)
    /\ Return(t)
    /\ stranded' = IF at[t] = "acquired" THEN stranded \cup {x} ELSE stranded
    /\ UNCHANGED <<session, turn, owner, captured, commitAttempted, draft,
                   entries, contexts>>

-----------------------------------------------------------------------------
(* commit.                                                                 *)

CommitClaim(t, x, next) ==
    /\ at[t] = "idle"
    /\ owner[x] = {t}
    /\ state[x] = "ACTIVE"
    /\ ~commitAttempted[x]
    /\ commitAttempted' = [commitAttempted EXCEPT ![x] = TRUE]
    /\ draft' = [draft EXCEPT ![x] = next]
    /\ Goto(t, "committing", x)
    /\ UNCHANGED <<state, session, turn, owner, captured, lockAcquired,
                   entryVars, activeSessions, stranded>>

\* What the statements up to the swap still have to find.
Acceptable(t, x) ==
    /\ Owns(x)
    /\ at[t] = "committing" => /\ ValidContext(draft[x])
                               /\ ValidTransition(captured[x], draft[x], turn[x])

CommitValidate(t) ==
    LET x == doing[t] IN
    /\ at[t] = "committing"
    /\ Acceptable(t, x)
    /\ Goto(t, "validated", x)
    /\ UNCHANGED <<txnVars, entryVars, activeSessions, stranded>>

\* The new snapshot is in place and the state becomes what is given.
Swap(t, outcome) ==
    LET x == doing[t] IN
    /\ at[t] = "validated"
    /\ Acceptable(t, x)
    /\ state[x] = "ACTIVE"
    /\ contexts' = [contexts EXCEPT ![session[x]] = draft[x]]
    /\ state' = [state EXCEPT ![x] = outcome]
    /\ Return(t)
    /\ UNCHANGED <<session, turn, owner, captured, commitAttempted,
                   lockAcquired, draft, entries, lock, activeToken,
                   activeSessions, stranded>>

CommitSwap(t) == Swap(t, "COMMITTED")

\* An exception after the snapshot is swapped and before the state says so:
\* the handler calls the transaction failed and leaves the turn in place.
CommitSwapInterrupted(t) == Swap(t, "FAILED")

\* The except BaseException handler of commit.
CommitFails(t) ==
    /\ state' = [state EXCEPT ![doing[t]] = "FAILED"]
    /\ Return(t)
    /\ UNCHANGED <<session, turn, owner, captured, commitAttempted,
                   lockAcquired, draft, entryVars, activeSessions, stranded>>

CommitReject(t) == /\ at[t] \in {"committing", "validated"}
                   /\ ~Acceptable(t, doing[t])
                   /\ CommitFails(t)

CommitInterrupted(t) == /\ at[t] \in {"committing", "validated"}
                        /\ CommitFails(t)

-----------------------------------------------------------------------------
(* __exit__: by the with statement when the block ends or raises, or       *)
(* called by name.                                                         *)

Exit(t, x) ==
    /\ at[t] = "idle"
    /\ owner[x] = {t}
    /\ state[x] \in {"ACTIVE", "COMMITTED", "FAILED"}
    /\ CloseResources(t, x)
    /\ stranded' = stranded \ {x}
    /\ UNCHANGED <<session, turn, owner, captured, commitAttempted, draft,
                   entries, contexts, at, doing, asking, view>>

-----------------------------------------------------------------------------
(* get.                                                                    *)

GetBegin(t, s) ==
    /\ at[t] = "idle"
    /\ s \in entries
    /\ s \notin activeSessions[t]
    /\ MayOpen(t, s)
    /\ at' = [at EXCEPT ![t] = "getting"]
    /\ asking' = [asking EXCEPT ![t] = s]
    /\ UNCHANGED <<doing, view, activeSessions, txnVars, entryVars, stranded>>

GetAcquire(t) ==
    /\ at[t] = "getting"
    /\ ~lock[asking[t]]
    /\ lock' = [lock EXCEPT ![asking[t]] = TRUE]
    /\ at' = [at EXCEPT ![t] = "reading"]
    /\ UNCHANGED <<doing, asking, view, activeSessions, txnVars, entries,
                   contexts, activeToken, stranded>>

GetReturn(t) ==
    LET s == asking[t] IN
    /\ at[t] = "reading"
    /\ lock' = [lock EXCEPT ![s] = FALSE]
    /\ view' = [view EXCEPT ![t][s] = contexts[s]]
    /\ at' = [at EXCEPT ![t] = "idle"]
    /\ asking' = [asking EXCEPT ![t] = NoSession]
    /\ UNCHANGED <<doing, activeSessions, txnVars, entries, contexts,
                   activeToken, stranded>>

-----------------------------------------------------------------------------

Enter(t) == \/ EnterNested(t)
            \/ EnterRegister(t)
            \/ EnterAcquire(t)
            \/ EnterNote(t)
            \/ EnterAdmit(t)
            \/ EnterAdmitInterrupted(t)
            \/ EnterReject(t)
            \/ EnterInterrupted(t)

Commit(t) == \/ CommitValidate(t)
             \/ CommitSwap(t)
             \/ CommitSwapInterrupted(t)
             \/ CommitReject(t)
             \/ CommitInterrupted(t)

Get(t) == GetAcquire(t) \/ GetReturn(t)

Next == \E t \in Thread :
           \/ \E s \in Session : Reset(t, s) \/ GetBegin(t, s)
           \/ \E x \in Txn, s \in Session, n \in 1..MaxTurn :
                 CreateTransaction(t, x, s, n)
           \/ \E x \in Txn : \/ CloseUnentered(t, x)
                             \/ EnterClaim(t, x)
                             \/ \E next \in Drafts(x) : CommitClaim(t, x, next)
                             \/ Exit(t, x)
           \/ Enter(t)
           \/ Commit(t)
           \/ Get(t)

Spec == Init /\ [][Next]_vars

\* A thread inside a call keeps running it, and a with block ends: __exit__
\* runs however the body leaves, once __enter__ has returned.  Nothing calls
\* it for a stranded transaction.  The entry lock is not first-come
\* first-served, so a waiter needs strong fairness: whoever finds the lock
\* free again and again gets it at last.
Fairness ==
    \A t \in Thread :
       /\ WF_vars(EnterNested(t) \/ EnterRegister(t))
       /\ SF_vars(EnterAcquire(t))
       /\ WF_vars(EnterNote(t))
       /\ WF_vars(EnterAdmit(t) \/ EnterReject(t))
       /\ WF_vars(CommitValidate(t) \/ CommitSwap(t) \/ CommitReject(t))
       /\ \A x \in Txn : WF_vars(x \notin stranded /\ Exit(t, x))
       /\ SF_vars(GetAcquire(t))
       /\ WF_vars(GetReturn(t))

FairSpec == Spec /\ Fairness

-----------------------------------------------------------------------------
(* Properties.                                                             *)

TxnState == {"ABSENT", "CREATED", "ENTERING", "ACTIVE", "COMMITTED",
             "FAILED", "CLOSED"}
Place == {"idle", "claimed", "acquiring", "acquired", "entered",
          "committing", "validated", "getting", "reading"}

\* Every field holds a value of the kind the code gives it.
TypeOK ==
    /\ entries \subseteq Session
    /\ contexts \in [Session -> Context]
    /\ lock \in [Session -> BOOLEAN]
    /\ activeToken \in [Session -> Txn \cup {NoTxn}]
    /\ state \in [Txn -> TxnState]
    /\ session \in [Txn -> Session \cup {NoSession}]
    /\ turn \in [Txn -> Nat]
    /\ owner \in [Txn -> SUBSET Thread]
    /\ captured \in [Txn -> Context]
    /\ commitAttempted \in [Txn -> BOOLEAN]
    /\ lockAcquired \in [Txn -> BOOLEAN]
    /\ draft \in [Txn -> Context]
    /\ activeSessions \in [Thread -> SUBSET Session]
    /\ at \in [Thread -> Place]
    /\ doing \in [Thread -> Txn \cup {NoTxn}]
    /\ asking \in [Thread -> Session \cup {NoSession}]
    /\ view \in [Thread -> [Session -> Context]]
    /\ stranded \subseteq Txn

\* The transaction has the lock and has not noted it yet.
Unnoted(x) == \E t \in Thread : at[t] = "acquired" /\ doing[t] = x

Holds(x, s) == /\ session[x] = s
               /\ lockAcquired[x] \/ Unnoted(x) \/ x \in stranded
Reads(t, s) == at[t] = "reading" /\ asking[t] = s

\* A session's lock is held by exactly one party, a reader in get or a
\* transaction that took it, and is free when there is none: no transaction
\* frees a lock it does not hold, and a rejected, closed or interrupted one
\* keeps none, but for one interrupted right after lock.acquire() (line
\* 181), which keeps it for good, or right after its state became ACTIVE
\* (line 211), which keeps it until somebody calls its __exit__.
LockDiscipline ==
    \A s \in Session :
       /\ \A x, y \in Txn : Holds(x, s) /\ Holds(y, s) => x = y
       /\ \A t, u \in Thread : Reads(t, s) /\ Reads(u, s) => t = u
       /\ ~(\E x \in Txn, t \in Thread : Holds(x, s) /\ Reads(t, s))
       /\ lock[s] <=> \/ \E x \in Txn : Holds(x, s)
                      \/ \E t \in Thread : Reads(t, s)

\* No lost update: while a transaction can still commit, the snapshot it
\* captured is the session's current one and the token is its own, so the
\* tests commit repeats before the swap never find a conflict.
NoLostUpdate == \A x \in Txn : state[x] = "ACTIVE" => Owns(x)

\* active_sessions of a thread is the sessions of the transactions it is
\* inside, and a closed transaction leaves nothing behind: neither the flag
\* _lock_acquired nor a token nor its session in the thread's set.  (The
\* lock itself is LockDiscipline's.)
Engaged(x) == \/ state[x] \in {"ACTIVE", "COMMITTED", "FAILED"}
              \/ \E t \in Thread :
                    /\ doing[t] = x
                    /\ at[t] \in {"acquiring", "acquired", "entered"}
NothingLeftBehind ==
    /\ \A t \in Thread, s \in Session :
          s \in activeSessions[t] <=>
             \E x \in Txn : session[x] = s /\ owner[x] = {t} /\ Engaged(x)
    /\ \A x \in Txn : ~Engaged(x) => /\ ~lockAcquired[x]
                                     /\ \A s \in Session : activeToken[s] # x

\* The store keeps the promise of SessionLog: its committed snapshots are
\* append-only logs, written by one open transaction at a time, at most one
\* turn each, and read only between transactions, whatever exceptions cut
\* the calls short: a commit that raises leaves one whole turn or none.
HasWritten(s) == \E i \in 1..Len(contexts[s]) : contexts[s][i].by = activeToken[s]
Log == INSTANCE SessionLog
          WITH created <- entries, log <- contexts, open <- activeToken,
               done <- [s \in Session |-> HasWritten(s)]
ImplementsSessionLog == Log!Spec

\* No thread ever works on, or waits for, two sessions at a time.
NoNesting ==
    \A t \in Thread :
       Cardinality(activeSessions[t] \cup ({asking[t]} \ {NoSession})) <= 1

Stranded(s) == \E x \in stranded : session[x] = s

\* A thread waiting in __enter__ or get for a session another thread works
\* on gets its turn once the others leave their with blocks, as long as
\* threads do not nest sessions (NoCircularWait says why this is needed),
\* unless an interrupt strands the session's lock (LockDiscipline).
EveryWaiterServed ==
    []NoNesting =>
       \A t \in Thread :
          /\ at[t] = "acquiring" ~>
                at[t] # "acquiring" \/ Stranded(session[doing[t]])
          /\ at[t] = "getting" ~> at[t] # "getting" \/ Stranded(asking[t])

\* "independent sessions to progress" (store.py:44): no two threads each
\* wait, in __enter__ or in get, for a session the other one keeps open
\* (no interrupt stranded it).
WaitsFor(t, u) ==
    LET s == IF at[t] = "getting" THEN asking[t] ELSE session[doing[t]]
    IN  /\ at[t] \in {"acquiring", "getting"}
        /\ \E x \in Txn \ stranded : Holds(x, s) /\ owner[x] = {u}
NoCircularWait == ~ \E t, u \in Thread : WaitsFor(t, u) /\ WaitsFor(u, t)
=============================================================================
