----------------------------- MODULE SessionLog -----------------------------
(***************************************************************************)
(* What the session store promises to its callers, with no lock, thread    *)
(* state or commit protocol in sight: each session is an append-only list  *)
(* of turns, at most one transaction is open on a session at a time, an    *)
(* open transaction appends at most one turn, and a reader sees the list   *)
(* only while no transaction is open.  SessionStore implements it.         *)
(***************************************************************************)
EXTENDS Naturals, Sequences

CONSTANTS Thread,   \* the calling threads
          Session,  \* the session ids
          Txn,      \* the transaction objects handed out
          NoTxn     \* "no transaction"

VARIABLES created,  \* the sessions that have been reset into existence
          log,      \* per session, the turns committed so far
          open,     \* per session, the transaction that may append
          done,     \* per session, whether that transaction has appended
          view      \* per thread and session, what the thread read last

vars == <<created, log, open, done, view>>

Turn(n, x) == [turn |-> n, by |-> x]

\* Transaction x wrote a turn of some session.
Wrote(x) == \E s \in Session : \E i \in 1..Len(log[s]) : log[s][i].by = x

Init == /\ created = {}
        /\ log  = [s \in Session |-> <<>>]
        /\ open = [s \in Session |-> NoTxn]
        /\ done = [s \in Session |-> FALSE]
        /\ view = [t \in Thread |-> [s \in Session |-> <<>>]]

Create(s) == /\ s \notin created
             /\ created' = created \cup {s}
             /\ UNCHANGED <<log, open, done, view>>

Begin(s, x) == /\ s \in created
               /\ open[s] = NoTxn
               /\ ~Wrote(x)
               /\ open' = [open EXCEPT ![s] = x]
               /\ UNCHANGED <<created, log, done, view>>

AppendTurn(s) ==
    /\ open[s] # NoTxn
    /\ ~done[s]
    /\ log'  = [log EXCEPT ![s] = Append(@, Turn(Len(@) + 1, open[s]))]
    /\ done' = [done EXCEPT ![s] = TRUE]
    /\ UNCHANGED <<created, open, view>>

End(s) == /\ open[s] # NoTxn
          /\ open' = [open EXCEPT ![s] = NoTxn]
          /\ done' = [done EXCEPT ![s] = FALSE]
          /\ UNCHANGED <<created, log, view>>

Read(t, s) == /\ s \in created
              /\ open[s] = NoTxn
              /\ view' = [view EXCEPT ![t][s] = log[s]]
              /\ UNCHANGED <<created, log, open, done>>

Next == \E s \in Session :
           \/ Create(s)
           \/ \E x \in Txn : Begin(s, x)
           \/ AppendTurn(s)
           \/ End(s)
           \/ \E t \in Thread : Read(t, s)

Spec == Init /\ [][Next]_vars
=============================================================================
